--------------------------- MODULE SolversProofs ---------------------------
(***************************************************************************)
(* Two solvers fill an order only on claims a lease term apart, for any    *)
(* number of solvers, plans, submissions, settlements and broadcasts and   *)
(* any lease term, unless a row written back has undone a claim.           *)
(***************************************************************************)
EXTENDS Solvers, TLAPS

Rows   == [status : SettlementStates, hash : 0..MaxSends, solver : Engines \cup {NoWorker}]
Leases == [owner : Engines \cup {Worker, NoWorker}, expires : 0..(MaxTime + Term)]
Sends  == [solver : Engines, exec : Times, claimed : Times, noted : BOOLEAN]

\* The state of a submission or settlement, by the await it is at.
CallOK(k) ==
  \/ k.pc = "idle"
  \/ /\ k.pc \in {"simulate", "send"}
     /\ k.solver \in Engines /\ k.exec \in Times /\ k.claimed \in Times
  \/ /\ k.pc = "answer"
     /\ k.solver \in Engines /\ k.exec \in Times /\ k.hash \in 1..MaxSends
  \/ /\ k.pc = "write"
     /\ k.solver \in Engines /\ k.hash \in 1..MaxSends /\ k.row \in Rows /\ k.lease \in Leases
  \/ k.pc = "settle" /\ k.row \in Rows /\ k.lease \in Leases

Types ==
  /\ TypeOK
  /\ call = [c \in Calls |-> call[c]]
  /\ \A c \in Calls : CallOK(call[c])

\* A claim is a solver and the time it was granted the lease at.  Those that
\* matter are behind a broadcast, or under a submission that may yet send.
Behind(q) == <<q.solver, q.claimed>>
SentClaims == {Behind(sent[i]) : i \in DOMAIN sent}
OpenClaims == {Behind(call[c]) : c \in {d \in Calls : call[d].pc \in {"simulate", "send"}}}
Claims == SentClaims \cup OpenClaims

\* A claim whose term is not over has the lease.
HasLease(g) == g[2] + Term > now => lease.owner = g[1] /\ lease.expires >= g[2] + Term

Apart(g, h) == g[1] # h[1] => g[2] + Term <= h[2] \/ h[2] + Term <= g[2]

ClaimsInv ==
  undone \/ /\ \A g \in Claims : g[2] <= now /\ HasLease(g)
            /\ \A g, h \in Claims : Apart(g, h)

SolversInv == Types /\ ClaimsInv

-----------------------------------------------------------------------------
(* Types.                                                                  *)

LEMMA SomeStates == {"FULFILLING", "DESTINATION_FILLED", "SETTLED"} \subseteq SettlementStates
BY DEF SettlementStates, SettlementTransitions

LEMMA ClaimTypes == Types => Claims \subseteq Engines \X Times
<1> SUFFICES ASSUME Types PROVE Claims \subseteq Engines \X Times
  OBVIOUS
<1>1. SentClaims \subseteq Engines \X Times
  <2>1. sent \in Seq(Sends)
    BY DEF Types, TypeOK, Sends
  <2>2. \A i \in DOMAIN sent : sent[i] \in Sends
    BY <2>1
  <2> QED
    BY <2>2 DEF SentClaims, Behind, Sends
<1>2. OpenClaims \subseteq Engines \X Times
  BY DEF Types, CallOK, OpenClaims, Behind
<1> QED
  BY <1>1, <1>2 DEF Claims

LEMMA InitTypes == Init => Types
<1> SUFFICES ASSUME Init PROVE Types
  OBVIOUS
<1>1. TypeOK
  <2> USE SolversAssumption DEF Init
  <2>1. now \in Times
    BY DEF Times
  <2>2. row \in Rows /\ lease \in Leases
    BY SomeStates DEF Rows, Leases, NoLease, NoHash
  <2>3. sent \in Seq(Sends) /\ Len(sent) <= MaxSends
    OBVIOUS
  <2>4. plans \in [Engines -> SUBSET Times] /\ known \in [Engines -> SUBSET Times]
    OBVIOUS
  <2> QED
    BY <2>1, <2>2, <2>3, <2>4 DEF TypeOK, Rows, Leases, Sends
<1>2. call = [c \in Calls |-> call[c]]
  <2>1. call = [c \in Calls |-> Idle]
    BY DEF Init
  <2>2. call \in [Calls -> {Idle}]
    BY <2>1
  <2> QED
    BY <2>2
<1>3. \A c \in Calls : call[c].pc = "idle"
  BY DEF Init, Idle
<1> QED
  BY <1>1, <1>2, <1>3 DEF Types, CallOK

\* One call changes; the others stay as they are.
LEMMA OneCallTypes ==
  ASSUME Types, NEW c \in Calls, NEW k, CallOK(k), call' = [call EXCEPT ![c] = k]
  PROVE  call' = [d \in Calls |-> call'[d]] /\ \A d \in Calls : CallOK(call'[d])
BY DEF Types

LEMMA IdleOK == CallOK(Idle)
BY DEF CallOK, Idle

\* Noting an answer changes no broadcast but for its mark.
LEMMA NotedTypes ==
  ASSUME sent \in Seq(Sends), NEW c \in Calls, sent' = Noted(c)
  PROVE  /\ sent' \in Seq(Sends) /\ Len(sent') = Len(sent)
         /\ \A i \in DOMAIN sent : Behind(sent'[i]) = Behind(sent[i])
<1> DEFINE q(i) == [sent[i] EXCEPT !.noted = TRUE]
<1>1. DOMAIN sent = 1..Len(sent) /\ Len(sent) \in Nat /\ \A i \in 1..Len(sent) : sent[i] \in Sends
  OBVIOUS
<1>2. \A i \in 1..Len(sent) : q(i) \in Sends /\ Behind(q(i)) = Behind(sent[i])
  BY <1>1 DEF Sends, Behind
<1>3. sent' = [i \in 1..Len(sent) |-> IF i = call[c].hash THEN q(i) ELSE sent[i]]
  BY <1>1 DEF Noted
<1> HIDE DEF q
<1>4. sent' \in [1..Len(sent) -> Sends]
  BY <1>1, <1>2, <1>3
<1>5. sent' \in Seq(Sends) /\ Len(sent') = Len(sent)
  BY <1>1, <1>4
<1> QED
  BY <1>1, <1>2, <1>3, <1>5

LEMMA WriteTypes ==
  ASSUME Types, NEW from, NEW r \in Rows, NEW l \in Leases, WriteRow(from, r, l)
  PROVE  row' \in Rows /\ lease' \in Leases /\ undone' \in BOOLEAN
<1>1. CASE ValidSettlement(from, r.status)
  <2>1. row' = r /\ lease' = l /\ undone' = (undone \/ l # lease)
    BY <1>1 DEF WriteRow
  <2>2. (undone \/ l # lease) \in BOOLEAN
    OBVIOUS
  <2> QED
    BY <2>1, <2>2
<1>2. CASE ~ValidSettlement(from, r.status)
  BY <1>2 DEF WriteRow, Types, TypeOK, Rows, Leases
<1> QED
  BY <1>1, <1>2

\* What each action leaves of the types, besides the call it is about.
LEMMA ActionTypes ==
  ASSUME Types, [Next]_vars
  PROVE  Types'
<1> USE SolversAssumption
<1>1. CASE Tick
  BY <1>1 DEF Tick, Types, TypeOK, Times
<1>2. ASSUME NEW s \in Engines, Prepare(s) PROVE Types'
  BY <1>2 DEF Prepare, Types, TypeOK, Times
<1>3. ASSUME NEW c \in Calls, NEW s \in Engines, NEW e \in plans[s], Submit(c, s, e) PROVE Types'
  <2> DEFINE k == [pc |-> "simulate", solver |-> s, exec |-> e, claimed |-> now]
  <2>1. e \in Times /\ now \in Times
    BY DEF Types, TypeOK
  <2>2. CallOK(k) /\ call' = [call EXCEPT ![c] = k]
    BY <1>3, <2>1 DEF Submit, CallOK
  <2>3. lease' \in Leases
    BY <1>3, <2>1 DEF Submit, Granted, Leases, Times
  <2> HIDE DEF k
  <2>4. call' = [d \in Calls |-> call'[d]] /\ \A d \in Calls : CallOK(call'[d])
    BY <2>2, OneCallTypes
  <2>5. TypeOK'
    BY <1>3, <2>3 DEF Submit, Types, TypeOK, Leases
  <2> QED
    BY <2>4, <2>5 DEF Types
<1>4. ASSUME NEW c \in Calls, Simulate(c) \/ Fail(c) PROVE Types'
  <2>1. CASE Simulate(c)
    <3> DEFINE k == [call[c] EXCEPT !.pc = "send"]
    <3>1. CallOK(k) /\ call' = [call EXCEPT ![c] = k]
      BY <2>1 DEF Simulate, Goto, At, Types, CallOK
    <3> HIDE DEF k
    <3>2. call' = [d \in Calls |-> call'[d]] /\ \A d \in Calls : CallOK(call'[d])
      BY <3>1, OneCallTypes
    <3> QED
      BY <2>1, <3>2 DEF Simulate, Types, TypeOK
  <2>2. CASE Fail(c)
    <3>1. CallOK(Idle) /\ call' = [call EXCEPT ![c] = Idle]
      BY <2>2 DEF Fail, End, CallOK, Idle
    <3>2. call' = [d \in Calls |-> call'[d]] /\ \A d \in Calls : CallOK(call'[d])
      BY <3>1, OneCallTypes
    <3> QED
      BY <2>2, <3>2 DEF Fail, Types, TypeOK
  <2> QED
    BY <1>4, <2>1, <2>2
<1>5. ASSUME NEW c \in Calls, Send(c) PROVE Types'
  <2> DEFINE q == [solver |-> call[c].solver, exec |-> call[c].exec,
                   claimed |-> call[c].claimed, noted |-> FALSE]
             k == [pc |-> "answer", solver |-> call[c].solver,
                   exec |-> call[c].exec, hash |-> Len(sent) + 1]
  <2>1. call[c].solver \in Engines /\ call[c].exec \in Times /\ call[c].claimed \in Times
    BY <1>5 DEF Send, At, Types, CallOK
  <2>2. sent \in Seq(Sends) /\ Len(sent) < MaxSends
    BY <1>5 DEF Send, Types, TypeOK, Sends
  <2>3. q \in Sends /\ sent' = Append(sent, q)
    BY <1>5, <2>1 DEF Send, Sends
  <2>4. sent' \in Seq(Sends) /\ Len(sent') <= MaxSends
    <3> HIDE DEF q
    <3> QED
      BY <2>2, <2>3
  <2>5. Len(sent) + 1 \in 1..MaxSends
    BY <2>2
  <2>6. CallOK(k) /\ CallOK(Idle)
    BY <2>1, <2>5 DEF CallOK, Idle
  <2>7. call' = [call EXCEPT ![c] = k] \/ call' = [call EXCEPT ![c] = Idle]
    BY <1>5 DEF Send, End
  <2>8. call' = [d \in Calls |-> call'[d]] /\ \A d \in Calls : CallOK(call'[d])
    <3> HIDE DEF k
    <3> QED
      BY <2>6, <2>7, OneCallTypes
  <2>9. TypeOK'
    BY <1>5, <2>4 DEF Send, Types, TypeOK, Sends
  <2> QED
    BY <2>8, <2>9 DEF Types
<1>6. ASSUME NEW c \in Calls, Answer(c) PROVE Types'
  <2>1. /\ call[c].solver \in Engines /\ call[c].exec \in Times /\ call[c].hash \in 1..MaxSends
        /\ row \in Rows /\ lease \in Leases /\ sent \in Seq(Sends) /\ Len(sent) <= MaxSends
    BY <1>6 DEF Answer, At, Types, CallOK, TypeOK, Rows, Leases, Sends
  <2>2. known' \in [Engines -> SUBSET Times] /\ UNCHANGED <<now, repo, plans>>
    BY <1>6, <2>1 DEF Answer, Types, TypeOK
  <2>3. CASE repo = "memory"
    <3>1. WriteRow(row.status, Filled(row, c), lease) /\ sent' = Noted(c)
          /\ call' = [call EXCEPT ![c] = Idle]
      BY <1>6, <2>3 DEF Answer, End
    <3>2. Filled(row, c) \in Rows
      BY <2>1, SomeStates DEF Filled, Rows
    <3>3. row' \in Rows /\ lease' \in Leases /\ undone' \in BOOLEAN
      BY <2>1, <3>1, <3>2, WriteTypes
    <3>4. sent' \in Seq(Sends) /\ Len(sent') = Len(sent)
      BY <2>1, <3>1, NotedTypes
    <3>5. call' = [d \in Calls |-> call'[d]] /\ \A d \in Calls : CallOK(call'[d])
      BY <3>1, OneCallTypes, IdleOK
    <3> QED
      BY <2>1, <2>2, <3>3, <3>4, <3>5 DEF Types, TypeOK, Rows, Leases, Sends
  <2>4. CASE repo = "sqlite"
    <3> DEFINE k == [pc |-> "write", solver |-> call[c].solver,
                     hash |-> call[c].hash, row |-> row, lease |-> lease]
    <3>1. call' = [call EXCEPT ![c] = k] /\ UNCHANGED <<row, lease, undone, sent>>
      BY <1>6, <2>4 DEF Answer
    <3>2. CallOK(k)
      BY <2>1 DEF CallOK
    <3> HIDE DEF k
    <3>3. call' = [d \in Calls |-> call'[d]] /\ \A d \in Calls : CallOK(call'[d])
      BY <3>1, <3>2, OneCallTypes
    <3> QED
      BY <2>2, <3>1, <3>3 DEF Types, TypeOK
  <2> QED
    BY <1>6, <2>3, <2>4 DEF Answer
<1>7. ASSUME NEW c \in Calls, Write(c) PROVE Types'
  <2>1. /\ call[c].solver \in Engines /\ call[c].hash \in 1..MaxSends
        /\ call[c].row \in Rows /\ call[c].lease \in Leases
        /\ sent \in Seq(Sends) /\ Len(sent) <= MaxSends
    BY <1>7 DEF Write, At, Types, CallOK, TypeOK, Sends
  <2>2. /\ WriteRow(call[c].row.status, Filled(call[c].row, c), call[c].lease)
        /\ sent' = Noted(c) /\ call' = [call EXCEPT ![c] = Idle]
        /\ UNCHANGED <<now, repo, plans, known>>
    BY <1>7 DEF Write, End
  <2>3. Filled(call[c].row, c) \in Rows
    BY <2>1, SomeStates DEF Filled, Rows
  <2>4. row' \in Rows /\ lease' \in Leases /\ undone' \in BOOLEAN
    BY <2>1, <2>2, <2>3, WriteTypes
  <2>5. sent' \in Seq(Sends) /\ Len(sent') = Len(sent)
    BY <2>1, <2>2, NotedTypes
  <2>6. call' = [d \in Calls |-> call'[d]] /\ \A d \in Calls : CallOK(call'[d])
    BY <2>2, OneCallTypes, IdleOK
  <2> QED
    BY <2>1, <2>2, <2>4, <2>5, <2>6 DEF Types, TypeOK, Rows, Leases, Sends
<1>8. ASSUME NEW c \in Calls, Settle(c) PROVE Types'
  <2>1. row \in Rows /\ lease \in Leases /\ UNCHANGED <<now, repo, plans, known, sent>>
    BY <1>8 DEF Settle, Types, TypeOK, Rows, Leases
  <2>2. CASE repo = "memory"
    <3>1. WriteRow(row.status, [row EXCEPT !.status = "SETTLED"], lease) /\ UNCHANGED call
      BY <1>8, <2>2 DEF Settle
    <3>2. [row EXCEPT !.status = "SETTLED"] \in Rows
      BY <2>1, SomeStates DEF Rows
    <3>3. row' \in Rows /\ lease' \in Leases /\ undone' \in BOOLEAN
      BY <2>1, <3>1, <3>2, WriteTypes
    <3> QED
      BY <2>1, <3>1, <3>3 DEF Types, TypeOK, Rows, Leases
  <2>3. CASE repo = "sqlite"
    <3> DEFINE k == [pc |-> "settle", row |-> row, lease |-> lease]
    <3>1. call' = [call EXCEPT ![c] = k] /\ UNCHANGED <<row, lease, undone>>
      BY <1>8, <2>3 DEF Settle
    <3>2. CallOK(k)
      BY <2>1 DEF CallOK
    <3> HIDE DEF k
    <3>3. call' = [d \in Calls |-> call'[d]] /\ \A d \in Calls : CallOK(call'[d])
      BY <3>1, <3>2, OneCallTypes
    <3> QED
      BY <2>1, <3>1, <3>3 DEF Types, TypeOK
  <2> QED
    BY <1>8, <2>2, <2>3 DEF Settle
<1>9. ASSUME NEW c \in Calls, SettleWrite(c) PROVE Types'
  <2>1. call[c].row \in Rows /\ call[c].lease \in Leases
    BY <1>9 DEF SettleWrite, At, Types, CallOK
  <2>2. /\ WriteRow(call[c].row.status, [call[c].row EXCEPT !.status = "SETTLED"], call[c].lease)
        /\ call' = [call EXCEPT ![c] = Idle]
        /\ UNCHANGED <<now, repo, plans, known, sent>>
    BY <1>9 DEF SettleWrite, End
  <2>3. [call[c].row EXCEPT !.status = "SETTLED"] \in Rows
    BY <2>1, SomeStates DEF Rows
  <2>4. row' \in Rows /\ lease' \in Leases /\ undone' \in BOOLEAN
    BY <2>1, <2>2, <2>3, WriteTypes
  <2>5. call' = [d \in Calls |-> call'[d]] /\ \A d \in Calls : CallOK(call'[d])
    BY <2>2, OneCallTypes, IdleOK
  <2> QED
    BY <2>2, <2>4, <2>5 DEF Types, TypeOK, Rows, Leases
<1>10. ASSUME NEW s \in Engines, Crash(s) PROVE Types'
  <2>1. call' = [c \in Calls |-> call'[c]] /\ \A c \in Calls : call'[c] \in {Idle, call[c]}
    BY <1>10 DEF Crash
  <2>2. \A c \in Calls : CallOK(call'[c])
    BY <2>1 DEF Types, CallOK, Idle
  <2> QED
    BY <1>10, <2>1, <2>2 DEF Crash, Types, TypeOK
<1>11. CASE RecoveryClaim \/ RecoveryRelease
  BY <1>11 DEF RecoveryClaim, RecoveryRelease, Granted, Released, NoLease, Types, TypeOK, Times
<1>12. CASE UNCHANGED vars
  BY <1>12 DEF vars, Types, TypeOK
<1> QED
  BY <1>1, <1>2, <1>3, <1>4, <1>5, <1>6, <1>7, <1>8, <1>9, <1>10, <1>11, <1>12 DEF Next

-----------------------------------------------------------------------------
(* Claims.                                                                 *)

\* A call that is not one about to send holds no open claim.
LEMMA OpenKept ==
  ASSUME Types, NEW c \in Calls, NEW k, k.pc \notin {"simulate", "send"},
         call' = [call EXCEPT ![c] = k]
  PROVE  OpenClaims' \subseteq OpenClaims
<1>1. \A d \in Calls : call'[d] = IF d = c THEN k ELSE call[d]
  BY DEF Types
<1> QED
  BY <1>1 DEF OpenClaims, Behind

\* A claim whose term runs shuts every other worker out of the lease.
LEMMA RunningClaimHolds ==
  ASSUME Types, ClaimsInv, ~undone, NEW g \in Claims, g[2] + Term > now,
         NEW w, w # g[1]
  PROVE  ~CanAcquire(lease, w, now) /\ lease.owner # w
<1>1. g \in Engines \X Times
  BY ClaimTypes
<1>2. lease.owner = g[1] /\ lease.expires >= g[2] + Term
  BY DEF ClaimsInv, HasLease
<1>3. lease.owner \in Engines /\ lease.expires > now
  BY <1>1, <1>2, SolversAssumption DEF Types, TypeOK, Times
<1>4. lease.owner # NoWorker
  BY <1>3, SolversAssumption
<1>5. ~(lease.expires <= now)
  BY <1>3, SolversAssumption DEF Types, TypeOK, Times
<1> QED
  BY <1>2, <1>4, <1>5 DEF CanAcquire, Expired

\* No claim is added, and the lease stays unless a row written back undid one.
LEMMA NoNewClaim ==
  ASSUME Types, ClaimsInv, Claims' \subseteq Claims, UNCHANGED now,
         UNCHANGED <<lease, undone>> \/ undone'
  PROVE  ClaimsInv'
BY DEF ClaimsInv, HasLease, Apart

\* WriteRow leaves the lease, or records that it did not.
LEMMA WriteKeepsLease ==
  ASSUME Types, NEW from, NEW r, NEW l, WriteRow(from, r, l)
  PROVE  UNCHANGED <<lease, undone>> \/ undone'
<1>1. CASE ValidSettlement(from, r.status)
  <2>1. lease' = l /\ undone' = (undone \/ l # lease)
    BY <1>1 DEF WriteRow
  <2>2. CASE l = lease
    BY <2>1, <2>2 DEF Types, TypeOK
  <2>3. CASE l # lease
    BY <2>1, <2>3
  <2> QED
    BY <2>2, <2>3
<1>2. CASE ~ValidSettlement(from, r.status)
  BY <1>2 DEF WriteRow
<1> QED
  BY <1>1, <1>2

LEMMA NotedClaims ==
  ASSUME Types, NEW c \in Calls, sent' = Noted(c)
  PROVE  SentClaims' = SentClaims
<1>1. sent \in Seq(Sends)
  BY DEF Types, TypeOK, Sends
<1>2. sent' \in Seq(Sends) /\ Len(sent') = Len(sent)
      /\ \A i \in DOMAIN sent : Behind(sent'[i]) = Behind(sent[i])
  BY <1>1, NotedTypes
<1>3. DOMAIN sent' = DOMAIN sent
  BY <1>1, <1>2
<1> QED
  BY <1>2, <1>3 DEF SentClaims, Behind

LEMMA InitClaims == Init => ClaimsInv
<1> SUFFICES ASSUME Init PROVE ClaimsInv
  OBVIOUS
<1>1. SentClaims = {}
  BY DEF Init, SentClaims
<1>2. OpenClaims = {}
  BY DEF Init, OpenClaims, Idle
<1> QED
  BY <1>1, <1>2 DEF ClaimsInv, Claims

\* A submission takes the lease: of its own earlier claim, whose term it
\* extends, or after every claim of another solver is over.
LEMMA SubmitClaims ==
  ASSUME Types, ClaimsInv, NEW c \in Calls, NEW s \in Engines, NEW e \in plans[s],
         Submit(c, s, e)
  PROVE  ClaimsInv'
<1> DEFINE n == <<s, now>>
<1> USE SolversAssumption
<1> SUFFICES ASSUME ~undone PROVE ClaimsInv'
  BY DEF Submit, ClaimsInv
<1>1. /\ CanAcquire(lease, s, now) /\ lease' = [owner |-> s, expires |-> now + Term]
      /\ UNCHANGED <<now, sent, undone>>
  BY DEF Submit, Granted
<1>2. Claims' \subseteq Claims \cup {n}
  <2>1. SentClaims' = SentClaims
    BY <1>1 DEF SentClaims, Behind
  <2>2. \A d \in Calls : call'[d] = IF d = c THEN [pc |-> "simulate", solver |-> s,
                                        exec |-> e, claimed |-> now] ELSE call[d]
    BY DEF Submit, Types
  <2>3. OpenClaims' \subseteq OpenClaims \cup {n}
    BY <2>2 DEF OpenClaims, Behind
  <2> QED
    BY <2>1, <2>3 DEF Claims
<1>3. now \in Nat /\ Term \in Nat /\ \A g \in Claims : g[1] \in Engines /\ g[2] \in Nat
  BY ClaimTypes DEF Types, TypeOK, Times
<1>4. \A g \in Claims : g[2] <= now
  BY DEF ClaimsInv
<1>5. \A g \in Claims : g[1] # s => g[2] + Term <= now
  <2> SUFFICES ASSUME NEW g \in Claims, g[1] # s, g[2] + Term > now PROVE FALSE
    BY <1>3
  <2> QED
    BY <1>1, RunningClaimHolds
<1>6. \A g \in Claims : HasLease(g)'
  <2> SUFFICES ASSUME NEW g \in Claims, g[2] + Term > now
               PROVE  lease'.owner = g[1] /\ lease'.expires >= g[2] + Term
    BY <1>1 DEF HasLease
  <2>1. g[1] = s
    BY <1>3, <1>5
  <2>2. lease'.owner = s /\ lease'.expires = now + Term
    BY <1>1
  <2> QED
    BY <1>3, <1>4, <2>1, <2>2
<1>7. n[1] = s /\ n[2] = now
  OBVIOUS
<1> HIDE DEF n
<1>8. \A g : g = n => g[2] <= now' /\ HasLease(g)'
  <2> SUFFICES ASSUME NEW g, g[1] = s, g[2] = now PROVE g[2] <= now' /\ HasLease(g)'
    BY <1>7
  <2> QED
    BY <1>1, <1>3 DEF HasLease
<1>9. \A g, h \in Claims \cup {n} : Apart(g, h)
  <2>1. \A g, h \in Claims : Apart(g, h)
    BY DEF ClaimsInv
  <2>2. \A g \in Claims : Apart(g, n) /\ Apart(n, g)
    BY <1>5, <1>7 DEF Apart
  <2>3. Apart(n, n)
    BY DEF Apart
  <2> QED
    BY <2>1, <2>2, <2>3
<1>10. \A g \in Claims' : g[2] <= now' /\ HasLease(g)'
  <2> SUFFICES ASSUME NEW g \in Claims \cup {n} PROVE g[2] <= now' /\ HasLease(g)'
    BY <1>2
  <2>1. CASE g \in Claims
    BY <1>1, <1>4, <1>6, <2>1
  <2>2. CASE g = n
    BY <1>8, <2>2
  <2> QED
    BY <2>1, <2>2
<1>11. \A g, h \in Claims' : Apart(g, h)'
  BY <1>2, <1>9 DEF Apart
<1> QED
  BY <1>10, <1>11 DEF ClaimsInv

\* A broadcast turns an open claim into a sent one.
LEMMA SendClaims ==
  ASSUME Types, ClaimsInv, NEW c \in Calls, Send(c)
  PROVE  ClaimsInv'
<1> DEFINE q == [solver |-> call[c].solver, exec |-> call[c].exec,
                 claimed |-> call[c].claimed, noted |-> FALSE]
           k == [pc |-> "answer", solver |-> call[c].solver,
                 exec |-> call[c].exec, hash |-> Len(sent) + 1]
<1>1. sent \in Seq(Sends) /\ call[c].pc = "send"
  BY DEF Send, At, Types, TypeOK, Sends
<1>2. q \in Sends /\ sent' = Append(sent, q) /\ Behind(q) \in OpenClaims
  BY <1>1 DEF Send, Sends, Types, CallOK, OpenClaims, Behind
<1>3. k.pc \notin {"simulate", "send"} /\ Idle.pc \notin {"simulate", "send"}
  BY DEF Idle
<1>4. call' = [call EXCEPT ![c] = k] \/ call' = [call EXCEPT ![c] = Idle]
  BY DEF Send, End
<1> HIDE DEF q, k
<1>5. OpenClaims' \subseteq OpenClaims
  BY <1>3, <1>4, OpenKept
<1>6. SentClaims' \subseteq SentClaims \cup OpenClaims
  <2>1. \A i \in DOMAIN sent' : sent'[i] = q \/ (i \in DOMAIN sent /\ sent'[i] = sent[i])
    BY <1>1, <1>2
  <2> QED
    BY <1>2, <2>1 DEF SentClaims, Behind
<1>7. Claims' \subseteq Claims
  BY <1>5, <1>6 DEF Claims
<1> QED
  BY <1>7, NoNewClaim DEF Send

LEMMA ClaimsStep ==
  ASSUME Types, ClaimsInv, [Next]_vars
  PROVE  ClaimsInv'
<1> USE SolversAssumption
<1>1. CASE Tick
  <2>1. Claims' = Claims /\ UNCHANGED <<lease, undone>> /\ now' = now + 1
    BY <1>1 DEF Tick, Claims, SentClaims, OpenClaims, Behind
  <2>2. now \in Nat /\ Term \in Nat /\ \A g \in Claims : g[2] \in Nat
    BY ClaimTypes DEF Types, TypeOK, Times
  <2>3. \A g \in Claims : g[2] <= now => g[2] <= now'
    BY <2>1, <2>2
  <2>4. \A g \in Claims : HasLease(g) => HasLease(g)'
    BY <2>1, <2>2 DEF HasLease
  <2>5. \A g, h \in Claims : Apart(g, h) => Apart(g, h)'
    BY DEF Apart
  <2> QED
    BY <2>1, <2>3, <2>4, <2>5 DEF ClaimsInv
<1>2. ASSUME NEW s \in Engines, Prepare(s) PROVE ClaimsInv'
  <2>1. Claims' = Claims
    BY <1>2 DEF Prepare, Claims, SentClaims, OpenClaims, Behind
  <2> QED
    BY <1>2, <2>1, NoNewClaim DEF Prepare
<1>3. ASSUME NEW c \in Calls, NEW s \in Engines, NEW e \in plans[s], Submit(c, s, e)
      PROVE  ClaimsInv'
  BY <1>3, SubmitClaims
<1>4. ASSUME NEW c \in Calls, Simulate(c) PROVE ClaimsInv'
  <2>1. \A d \in Calls : call'[d] = IF d = c THEN [call[c] EXCEPT !.pc = "send"] ELSE call[d]
    BY <1>4 DEF Simulate, Goto, Types
  <2>2. Behind([call[c] EXCEPT !.pc = "send"]) = Behind(call[c]) /\ call[c].pc = "simulate"
    BY <1>4 DEF Simulate, At, Behind, Types, CallOK
  <2>3. \A d \in Calls : call'[d].pc \in {"simulate", "send"}
                         => Behind(call'[d]) = Behind(call[d])
                            /\ call[d].pc \in {"simulate", "send"}
    BY <2>1, <2>2
  <2>4. OpenClaims' \subseteq OpenClaims
    BY <2>3 DEF OpenClaims, Behind
  <2>5. Claims' \subseteq Claims
    BY <1>4, <2>4 DEF Simulate, Claims, SentClaims, Behind
  <2> QED
    BY <1>4, <2>5, NoNewClaim DEF Simulate
<1>5. ASSUME NEW c \in Calls, Fail(c) PROVE ClaimsInv'
  <2>1. OpenClaims' \subseteq OpenClaims
    BY <1>5, OpenKept DEF Fail, End, Idle
  <2>2. Claims' \subseteq Claims
    BY <1>5, <2>1 DEF Fail, Claims, SentClaims, Behind
  <2> QED
    BY <1>5, <2>2, NoNewClaim DEF Fail
<1>6. ASSUME NEW c \in Calls, Send(c) PROVE ClaimsInv'
  BY <1>6, SendClaims
<1>7. ASSUME NEW c \in Calls, Answer(c) PROVE ClaimsInv'
  <2> DEFINE k == [pc |-> "write", solver |-> call[c].solver,
                   hash |-> call[c].hash, row |-> row, lease |-> lease]
  <2>1. k.pc \notin {"simulate", "send"} /\ Idle.pc \notin {"simulate", "send"}
    BY DEF Idle
  <2>2. /\ call' = [call EXCEPT ![c] = k] \/ call' = [call EXCEPT ![c] = Idle]
        /\ sent' = Noted(c) \/ UNCHANGED sent
        /\ WriteRow(row.status, Filled(row, c), lease) \/ UNCHANGED <<lease, undone>>
        /\ UNCHANGED now
    BY <1>7 DEF Answer, End
  <2> HIDE DEF k
  <2>3. OpenClaims' \subseteq OpenClaims
    BY <2>1, <2>2, OpenKept
  <2>4. SentClaims' = SentClaims
    <3>1. CASE sent' = Noted(c)
      BY <3>1, NotedClaims
    <3>2. CASE UNCHANGED sent
      BY <3>2 DEF SentClaims, Behind
    <3> QED
      BY <2>2, <3>1, <3>2
  <2>5. Claims' \subseteq Claims
    BY <2>3, <2>4 DEF Claims
  <2>6. UNCHANGED <<lease, undone>> \/ undone'
    BY <2>2, WriteKeepsLease
  <2> QED
    BY <2>2, <2>5, <2>6, NoNewClaim
<1>8. ASSUME NEW c \in Calls, Write(c) PROVE ClaimsInv'
  <2>1. OpenClaims' \subseteq OpenClaims
    BY <1>8, OpenKept DEF Write, End, Idle
  <2>2. SentClaims' = SentClaims
    BY <1>8, NotedClaims DEF Write
  <2>3. Claims' \subseteq Claims
    BY <2>1, <2>2 DEF Claims
  <2>4. UNCHANGED <<lease, undone>> \/ undone'
    BY <1>8, WriteKeepsLease DEF Write
  <2> QED
    BY <1>8, <2>3, <2>4, NoNewClaim DEF Write
<1>9. ASSUME NEW c \in Calls, Settle(c) \/ SettleWrite(c) PROVE ClaimsInv'
  <2> DEFINE k == [pc |-> "settle", row |-> row, lease |-> lease]
  <2>1. k.pc \notin {"simulate", "send"} /\ Idle.pc \notin {"simulate", "send"}
    BY DEF Idle
  <2>2. /\ \/ call' = [call EXCEPT ![c] = k] \/ call' = [call EXCEPT ![c] = Idle]
           \/ UNCHANGED call
        /\ \/ \E r, l : WriteRow(row.status, r, l) \/ WriteRow(call[c].row.status, r, l)
           \/ UNCHANGED <<lease, undone>>
        /\ UNCHANGED <<now, sent>>
    BY <1>9 DEF Settle, SettleWrite, End
  <2> HIDE DEF k
  <2>3. OpenClaims' \subseteq OpenClaims
    <3>1. CASE UNCHANGED call
      BY <3>1 DEF OpenClaims, Behind
    <3> QED
      BY <2>1, <2>2, <3>1, OpenKept
  <2>4. Claims' \subseteq Claims
    BY <2>2, <2>3 DEF Claims, SentClaims, Behind
  <2>5. UNCHANGED <<lease, undone>> \/ undone'
    BY <2>2, WriteKeepsLease
  <2> QED
    BY <2>2, <2>4, <2>5, NoNewClaim
<1>10. ASSUME NEW s \in Engines, Crash(s) PROVE ClaimsInv'
  <2>1. \A c \in Calls : call'[c] \in {Idle, call[c]}
    BY <1>10 DEF Crash
  <2>2. OpenClaims' \subseteq OpenClaims
    BY <2>1 DEF OpenClaims, Behind, Idle
  <2>3. Claims' \subseteq Claims
    BY <1>10, <2>2 DEF Crash, Claims, SentClaims, Behind
  <2> QED
    BY <1>10, <2>3, NoNewClaim DEF Crash
<1>11. CASE RecoveryClaim \/ RecoveryRelease
  <2> SUFFICES ASSUME ~undone PROVE ClaimsInv'
    BY <1>11 DEF RecoveryClaim, RecoveryRelease, ClaimsInv
  <2>1. Claims' = Claims /\ UNCHANGED <<now, undone>>
    BY <1>11 DEF RecoveryClaim, RecoveryRelease, Claims, SentClaims, OpenClaims, Behind
  <2>2. CanAcquire(lease, Worker, now) \/ lease.owner = Worker
    BY <1>11 DEF RecoveryClaim, RecoveryRelease, Released
  <2>3. \A g \in Claims : g[1] # Worker
    BY ClaimTypes
  <2>4. \A g \in Claims : ~(g[2] + Term > now)
    BY <2>2, <2>3, RunningClaimHolds
  <2>5. \A g \in Claims : g[2] <= now' /\ HasLease(g)'
    BY <2>1, <2>4 DEF ClaimsInv, HasLease
  <2>6. \A g, h \in Claims : Apart(g, h)'
    BY DEF ClaimsInv, Apart
  <2> QED
    BY <2>1, <2>5, <2>6 DEF ClaimsInv
<1>12. CASE UNCHANGED vars
  <2>1. Claims' = Claims
    BY <1>12 DEF vars, Claims, SentClaims, OpenClaims, Behind
  <2> QED
    BY <1>12, <2>1, NoNewClaim DEF vars
<1> QED
  BY <1>1, <1>2, <1>3, <1>4, <1>5, <1>6, <1>7, <1>8, <1>9, <1>10, <1>11, <1>12 DEF Next

-----------------------------------------------------------------------------
(* The theorem.                                                            *)

LEMMA InvShows == SolversInv => ClaimsApart
<1> SUFFICES ASSUME SolversInv PROVE ClaimsApart
  OBVIOUS
<1>1. TypeOK
  BY DEF SolversInv, Types
<1>2. ASSUME ~undone, NEW i \in DOMAIN sent, NEW j \in DOMAIN sent,
             sent[i].solver # sent[j].solver
      PROVE  \/ sent[i].claimed + Term <= sent[j].claimed
             \/ sent[j].claimed + Term <= sent[i].claimed
  <2>1. Behind(sent[i]) \in Claims /\ Behind(sent[j]) \in Claims
    BY DEF Claims, SentClaims
  <2>2. Apart(Behind(sent[i]), Behind(sent[j]))
    BY <1>2, <2>1 DEF SolversInv, ClaimsInv
  <2> QED
    BY <1>2, <2>2 DEF Apart, Behind
<1> QED
  BY <1>1, <1>2 DEF ClaimsApart

\* However many solvers, plans and submissions compete for one order, and
\* whatever fails or crashes between claim and broadcast, two solvers send only
\* on claims a lease term apart, unless SQLite's update of the row, an await
\* after its read, has put back an older lease.
THEOREM ClaimsAlwaysApart == Spec => []ClaimsApart
<1>1. Init => SolversInv
  BY InitTypes, InitClaims DEF SolversInv
<1>2. SolversInv /\ [Next]_vars => SolversInv'
  BY ActionTypes, ClaimsStep DEF SolversInv
<1>3. SolversInv => ClaimsApart
  BY InvShows
<1> QED
  BY <1>1, <1>2, <1>3, PTL DEF Spec

-----------------------------------------------------------------------------
(* A fill that is written over shows.                                      *)

\* A row names no transaction, or one that is out and the solver that sent it.
Shows(r) == /\ r.status \in {"DESTINATION_FILLED", "SETTLED"}
            /\ r.hash \in DOMAIN sent /\ sent[r.hash].solver = r.solver
RowOK(r) == Shows(r) \/ (r.status = "FULFILLING" /\ r.hash = NoHash)

\* A call's hash is its solver's, and the row it read is no further than the
\* order's: once that names a transaction it always names one.
CallShows(k) ==
  /\ k.pc \in {"answer", "write"} => k.hash \in DOMAIN sent /\ sent[k.hash].solver = k.solver
  /\ k.pc \in {"write", "settle"} => RowOK(k.row) /\ (Shows(k.row) => Shows(row))
  /\ k.pc = "settle" => Shows(k.row)

RowsInv ==
  /\ RowOK(row)
  /\ \A c \in Calls : CallShows(call[c])
  /\ \A i \in DOMAIN sent : sent[i].noted => Shows(row)

\* Broadcasts are only added, and change nothing but their mark.
Grows == /\ DOMAIN sent \subseteq DOMAIN sent'
         /\ \A i \in DOMAIN sent : sent'[i].solver = sent[i].solver

LEMMA SameShows == Grows => \A r : (Shows(r) => Shows(r)') /\ (RowOK(r) => RowOK(r)')
BY DEF Grows, Shows, RowOK

\* A hash is a number of a broadcast, so a row that has none shows none.
LEMMA NoHashShowsNone ==
  Types => \A r : r.hash = NoHash => ~Shows(r)
<1> SUFFICES ASSUME Types, NEW r, r.hash = NoHash PROVE ~Shows(r)
  OBVIOUS
<1>1. sent \in Seq(Sends)
  BY DEF Types, TypeOK, Sends
<1>2. 0 \notin DOMAIN sent
  BY <1>1
<1> QED
  BY <1>2 DEF Shows, NoHash

\* A step that adds to the broadcasts and keeps a row that shows one.
LEMMA RowsStep ==
  ASSUME Types, RowsInv, Grows, NEW c \in Calls, NEW k,
         UNCHANGED call \/ (call' = [call EXCEPT ![c] = k] /\ CallShows(k)'),
         Shows(row) => Shows(row)', RowOK(row)',
         \A i \in DOMAIN sent' : sent'[i].noted => (i \in DOMAIN sent /\ sent[i].noted) \/ Shows(row)'
  PROVE  RowsInv'
<1>1. \A d \in Calls : call'[d] = call[d] \/ (call'[d] = k /\ CallShows(k)')
  BY DEF Types
<1>2. \A j : CallShows(j) => CallShows(j)'
  <2> SUFFICES ASSUME NEW j, CallShows(j) PROVE CallShows(j)'
    OBVIOUS
  <2>1. (Shows(j.row) => Shows(j.row)') /\ (RowOK(j.row) => RowOK(j.row)')
    BY SameShows
  <2>2. RowOK(j.row) => (Shows(j.row)' => Shows(j.row))
    <3> SUFFICES ASSUME j.row.status = "FULFILLING" PROVE ~Shows(j.row)'
      BY DEF RowOK
    <3> QED
      BY DEF Shows
  <2>3. j.pc \in {"write", "settle"} => RowOK(j.row)' /\ (Shows(j.row)' => Shows(row)')
    BY <2>1, <2>2 DEF CallShows
  <2>4. j.pc = "settle" => Shows(j.row)'
    BY <2>1 DEF CallShows
  <2>5. j.pc \in {"answer", "write"}
          => j.hash \in DOMAIN sent' /\ sent'[j.hash].solver = j.solver
    BY DEF CallShows, Grows
  <2> QED
    BY <2>3, <2>4, <2>5 DEF CallShows
<1>3. \A d \in Calls : CallShows(call[d])'
  BY <1>1, <1>2 DEF RowsInv, CallShows, RowOK, Shows
<1>4. \A i \in DOMAIN sent' : sent'[i].noted => Shows(row)'
  BY DEF RowsInv
<1> QED
  BY <1>3, <1>4 DEF RowsInv

LEMMA FillAllowed == ValidSettlement("FULFILLING", "DESTINATION_FILLED")
BY DEF ValidSettlement, SettlementTransitions

LEMMA NotedGrows ==
  ASSUME Types, NEW c \in Calls, sent' = Noted(c)
  PROVE  Grows
<1>1. sent \in Seq(Sends)
  BY DEF Types, TypeOK, Sends
<1>2. DOMAIN sent' = DOMAIN sent
  BY <1>1 DEF Noted
<1>3. \A i \in DOMAIN sent : sent'[i].solver = sent[i].solver
  <2>1. \A i \in DOMAIN sent : Behind(sent'[i]) = Behind(sent[i])
    BY <1>1, NotedTypes
  <2> QED
    BY <2>1 DEF Behind
<1> QED
  BY <1>2, <1>3 DEF Grows

\* A fill written over the row as it was read shows itself, or the row it finds
\* already shows another.
LEMMA FillShows ==
  ASSUME Types, RowsInv, Grows, NEW c \in Calls, call[c].pc \in {"answer", "write"},
         NEW r, RowOK(r), Shows(r) => Shows(row), NEW l,
         WriteRow(r.status, Filled(r, c), l)
  PROVE  Shows(row)'
<1>1. \A f : f = Filled(r, c) => Shows(f)
  BY DEF RowsInv, CallShows, Filled, Shows
<1>2. CASE ValidSettlement(r.status, "DESTINATION_FILLED")
  <2>1. row' = Filled(r, c)
    BY <1>2 DEF WriteRow, Filled
  <2>2. PICK f : f = Filled(r, c)
    OBVIOUS
  <2>3. Shows(f)'
    BY <1>1, <2>2, SameShows DEF Shows, Grows
  <2> QED
    BY <2>1, <2>2, <2>3 DEF Shows
<1>3. CASE ~ValidSettlement(r.status, "DESTINATION_FILLED")
  <2>1. row' = row
    BY <1>3 DEF WriteRow, Filled
  <2>2. Shows(r)
    BY <1>3, FillAllowed DEF RowOK
  <2> QED
    BY <2>1, <2>2, SameShows DEF Shows, Grows
<1> QED
  BY <1>2, <1>3

\* A settlement written over the row as it was read keeps its transaction.
LEMMA SettleShows ==
  ASSUME Types, RowsInv, UNCHANGED sent, NEW r, Shows(r), Shows(row), r \in Rows, NEW l,
         WriteRow(r.status, [r EXCEPT !.status = "SETTLED"], l)
  PROVE  Shows(row)'
<1>1. Shows([r EXCEPT !.status = "SETTLED"])
  BY DEF Shows, Rows
<1>2. row' = [r EXCEPT !.status = "SETTLED"] \/ row' = row
  BY DEF WriteRow
<1>3. \A f : Shows(f) => (row' = f => Shows(row)')
  BY DEF Shows
<1> QED
  BY <1>1, <1>2, <1>3

LEMMA RowsSame ==
  ASSUME RowsInv, UNCHANGED <<row, call, sent>>
  PROVE  RowsInv'
BY DEF RowsInv, RowOK, Shows, CallShows

LEMMA InitRows == Init => RowsInv
BY DEF Init, RowsInv, RowOK, CallShows, Idle, NoHash

LEMMA RowsActions ==
  ASSUME Types, RowsInv, [Next]_vars
  PROVE  RowsInv'
<1>1. UNCHANGED sent => Grows
  BY DEF Grows
<1>2. UNCHANGED <<row, sent>> => (Shows(row) => Shows(row)') /\ RowOK(row)'
  BY DEF RowsInv, RowOK, Shows
<1>3. Shows(row)' => RowOK(row)'
  BY DEF RowOK
<1>4. ASSUME NEW c \in Calls, NEW s \in Engines, NEW e \in plans[s], Submit(c, s, e) PROVE RowsInv'
  <2>1. PICK k : k = [pc |-> "simulate", solver |-> s, exec |-> e, claimed |-> now]
    OBVIOUS
  <2>2. CallShows(k)'
    BY <2>1 DEF CallShows
  <2> QED
    BY <1>1, <1>2, <1>4, <2>1, <2>2, RowsStep DEF Submit
<1>5. ASSUME NEW c \in Calls, Simulate(c) \/ Fail(c) PROVE RowsInv'
  <2>1. CASE Simulate(c)
    <3> DEFINE n == [call[c] EXCEPT !.pc = "send"]
    <3>1. call' = [call EXCEPT ![c] = n] /\ n.pc \notin {"answer", "write", "settle"}
      BY <2>1 DEF Simulate, Goto, At, Types, CallOK
    <3> HIDE DEF n
    <3>2. PICK k : k = n
      OBVIOUS
    <3>3. CallShows(k)'
      BY <3>1, <3>2 DEF CallShows
    <3> QED
      BY <1>1, <1>2, <2>1, <3>1, <3>2, <3>3, RowsStep DEF Simulate
  <2>2. CASE Fail(c)
    <3>1. PICK k : k = Idle
      OBVIOUS
    <3>2. CallShows(k)'
      BY <3>1 DEF CallShows, Idle
    <3> QED
      BY <1>1, <1>2, <2>2, <3>1, <3>2, RowsStep DEF Fail, End
  <2> QED
    BY <1>5, <2>1, <2>2
<1>6. ASSUME NEW c \in Calls, Send(c) PROVE RowsInv'
  <2> DEFINE q == [solver |-> call[c].solver, exec |-> call[c].exec,
                   claimed |-> call[c].claimed, noted |-> FALSE]
  <2>1. PICK k : /\ call' = [call EXCEPT ![c] = k]
                 /\ \/ k = [pc |-> "answer", solver |-> call[c].solver,
                            exec |-> call[c].exec, hash |-> Len(sent) + 1]
                    \/ k = Idle
    BY <1>6 DEF Send, End
  <2>2. sent \in Seq(Sends) /\ q \in Sends /\ sent' = Append(sent, q)
    BY <1>6 DEF Send, At, Types, TypeOK, CallOK, Sends
  <2>3. q.solver = call[c].solver /\ q.noted = FALSE
    OBVIOUS
  <2> HIDE DEF q
  <2>4. /\ DOMAIN sent \subseteq DOMAIN sent' /\ \A i \in DOMAIN sent : sent'[i] = sent[i]
        /\ Len(sent) + 1 \in DOMAIN sent' /\ sent'[Len(sent) + 1] = q
        /\ \A i \in DOMAIN sent' : i \in DOMAIN sent \/ sent'[i] = q
    BY <2>2
  <2>5. Grows
    BY <2>4 DEF Grows
  <2>6. CallShows(k)'
    BY <2>1, <2>3, <2>4 DEF CallShows, Idle
  <2>7. (Shows(row) => Shows(row)') /\ RowOK(row)'
    BY <1>6, <2>5 DEF Send, RowsInv, RowOK, Shows, Grows
  <2> QED
    BY <2>1, <2>3, <2>4, <2>5, <2>6, <2>7, RowsStep
<1>7. ASSUME NEW c \in Calls, Answer(c) PROVE RowsInv'
  <2>1. call[c].pc = "answer" /\ RowOK(row)
    BY <1>7 DEF Answer, At, RowsInv
  <2>2. CASE repo = "memory"
    <3>1. /\ WriteRow(row.status, Filled(row, c), lease)
          /\ sent' = Noted(c) /\ call' = [call EXCEPT ![c] = Idle]
      BY <1>7, <2>2 DEF Answer, End
    <3>2. Grows
      BY <3>1, NotedGrows
    <3>3. Shows(row)'
      BY <2>1, <3>1, <3>2, FillShows
    <3>4. PICK k : k = Idle
      OBVIOUS
    <3>5. CallShows(k)'
      BY <3>4 DEF CallShows, Idle
    <3> QED
      BY <1>3, <3>1, <3>2, <3>3, <3>4, <3>5, RowsStep
  <2>3. CASE repo = "sqlite"
    <3>1. PICK k : k = [pc |-> "write", solver |-> call[c].solver,
                        hash |-> call[c].hash, row |-> row, lease |-> lease]
      OBVIOUS
    <3>2. call' = [call EXCEPT ![c] = k] /\ UNCHANGED <<row, sent>>
      BY <1>7, <2>3, <3>1 DEF Answer
    <3>3. CallShows(k)
      BY <2>1, <3>1 DEF CallShows, RowsInv
    <3>4. CallShows(k)'
      BY <3>2, <3>3 DEF CallShows, RowOK, Shows
    <3> QED
      BY <1>1, <1>2, <3>2, <3>4, RowsStep
  <2> QED
    BY <1>7, <2>2, <2>3 DEF Answer
<1>8. ASSUME NEW c \in Calls, Write(c) PROVE RowsInv'
  <2>1. /\ call[c].pc = "write" /\ sent' = Noted(c) /\ call' = [call EXCEPT ![c] = Idle]
        /\ WriteRow(call[c].row.status, Filled(call[c].row, c), call[c].lease)
    BY <1>8 DEF Write, At, End
  <2>2. RowOK(call[c].row) /\ (Shows(call[c].row) => Shows(row))
    BY <2>1 DEF RowsInv, CallShows
  <2>3. Grows
    BY <2>1, NotedGrows
  <2>4. PICK r, l : r = call[c].row /\ l = call[c].lease
    OBVIOUS
  <2>5. Shows(row)'
    BY <2>1, <2>2, <2>3, <2>4, FillShows
  <2>6. PICK k : k = Idle
    OBVIOUS
  <2>7. CallShows(k)'
    BY <2>6 DEF CallShows, Idle
  <2> QED
    BY <1>3, <2>1, <2>3, <2>5, <2>6, <2>7, RowsStep
<1>9. ASSUME NEW c \in Calls, Settle(c) PROVE RowsInv'
  <2>1. Shows(row) /\ row \in Rows /\ UNCHANGED sent
    BY <1>9 DEF Settle, RowsInv, RowOK, Types, TypeOK, Rows
  <2>2. CASE repo = "memory"
    <3>1. WriteRow(row.status, [row EXCEPT !.status = "SETTLED"], lease) /\ UNCHANGED call
      BY <1>9, <2>2 DEF Settle
    <3>2. PICK r, l : r = row /\ l = lease
      OBVIOUS
    <3>3. Shows(row)'
      BY <2>1, <3>1, <3>2, SettleShows
    <3> QED
      BY <1>1, <1>3, <2>1, <3>1, <3>3, RowsStep
  <2>3. CASE repo = "sqlite"
    <3>1. PICK k : k = [pc |-> "settle", row |-> row, lease |-> lease]
      OBVIOUS
    <3>2. call' = [call EXCEPT ![c] = k] /\ UNCHANGED row
      BY <1>9, <2>3, <3>1 DEF Settle
    <3>3. CallShows(k)
      BY <2>1, <3>1 DEF CallShows, RowsInv
    <3>4. CallShows(k)'
      BY <2>1, <3>2, <3>3 DEF CallShows, RowOK, Shows
    <3> QED
      BY <1>1, <1>2, <2>1, <3>2, <3>4, RowsStep
  <2> QED
    BY <1>9, <2>2, <2>3 DEF Settle
<1>10. ASSUME NEW c \in Calls, SettleWrite(c) PROVE RowsInv'
  <2>1. /\ call[c].pc = "settle" /\ UNCHANGED sent /\ call' = [call EXCEPT ![c] = Idle]
        /\ WriteRow(call[c].row.status, [call[c].row EXCEPT !.status = "SETTLED"], call[c].lease)
    BY <1>10 DEF SettleWrite, At, End
  <2>2. PICK r, l : r = call[c].row /\ l = call[c].lease
    OBVIOUS
  <2>3. Shows(r) /\ Shows(row) /\ r \in Rows
    BY <2>1, <2>2 DEF RowsInv, CallShows, Types, CallOK
  <2>4. Shows(row)'
    BY <2>1, <2>2, <2>3, SettleShows
  <2>5. PICK k : k = Idle
    OBVIOUS
  <2>6. CallShows(k)'
    BY <2>5 DEF CallShows, Idle
  <2> QED
    BY <1>1, <1>3, <2>1, <2>4, <2>5, <2>6, RowsStep
<1>11. ASSUME NEW s \in Engines, Crash(s) PROVE RowsInv'
  <2>1. \A c \in Calls : call'[c] \in {Idle, call[c]}
    BY <1>11 DEF Crash
  <2>2. \A c \in Calls : CallShows(call'[c])
    BY <2>1 DEF RowsInv, CallShows, Idle
  <2>3. UNCHANGED <<row, sent>>
    BY <1>11 DEF Crash
  <2> QED
    BY <2>2, <2>3 DEF RowsInv, RowOK, Shows, CallShows
<1>12. CASE Tick \/ (\E s \in Engines : Prepare(s)) \/ RecoveryClaim \/ RecoveryRelease
            \/ UNCHANGED vars
  <2>1. UNCHANGED <<row, call, sent>>
    BY <1>12 DEF Tick, Prepare, RecoveryClaim, RecoveryRelease, vars
  <2> QED
    BY <2>1, RowsSame
<1> QED
  BY <1>4, <1>5, <1>6, <1>7, <1>8, <1>9, <1>10, <1>11, <1>12 DEF Next

\* Whatever order the answers, settlements and stale writes of the row come in,
\* a fill whose row write is over leaves the order naming a transaction that is
\* out and the solver that sent it.
THEOREM FilledOrderAlwaysShows == Spec => []FilledOrderShows
<1>1. Init => Types /\ RowsInv
  BY InitTypes, InitRows
<1>2. Types /\ RowsInv /\ [Next]_vars => (Types /\ RowsInv)'
  BY ActionTypes, RowsActions
<1>3. Types /\ RowsInv => FilledOrderShows
  BY DEF RowsInv, Shows, FilledOrderShows
<1> QED
  BY <1>1, <1>2, <1>3, PTL DEF Spec
=============================================================================
