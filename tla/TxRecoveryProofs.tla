--------------------------- MODULE TxRecoveryProofs ---------------------------
(***************************************************************************)
(* Proofs about TxRecovery: a record and a row never say more than the     *)
(* chain does, and a retry beside a live try has a cause.                  *)
(*                                                                         *)
(* The chain only grows and a settled transaction stays settled, so what a *)
(* recovery engine has read stays true of the chain; what it does to the   *)
(* record is checked against the record's state at the write, not at the   *)
(* read.  The invariant says what an engine's copies may still be used for *)
(* after other engines have written.                                       *)
(***************************************************************************)
EXTENDS TxRecovery, FiniteSetTheorems, WellFoundedInduction, TLAPS

(***************************************************************************)
(* The inductive invariant.                                                *)
(***************************************************************************)
OnChain(k) == \E i \in DOMAIN chain : chain[i].hash = k
OnWire(k)  == \E request \in wire : request[1] = k

\* Try k neither counts now nor can it come to count.
Dead(k) == ~Live(k) /\ ~OnWire(k)

\* If try k goes out with a known nonce n, it goes out with that one only.
SentWith(k, n) ==
  n # NoNonce =>
    /\ \A i \in DOMAIN chain : chain[i].hash = k => i = n
    /\ \A request \in wire : request[1] = k => request[2] = n

ChainOK ==
  \A i \in DOMAIN chain :
    /\ chain[i].hash \in 1..call.at \/ chain[i].hash = Foreign(i)
    /\ \A j \in DOMAIN chain : chain[i].hash = chain[j].hash => i = j

WireOK ==
  \A request \in wire :
    /\ request[1] <= call.at
    /\ request[1] = call.at => call.pc \notin {"send", "wait"}
    /\ "late" \in odd[request[1]]
    /\ ~OnChain(request[1])
    /\ \A other \in wire : other[1] = request[1] => other[2] = request[2]

CallOK ==
  /\ call.pc \in {"send", "wait", "finally", "record"} =>
       call.at \in Tries /\ SentWith(call.at, call.nonce)
  /\ call.pc = "send" => ~OnChain(call.at)
  /\ call.pc = "finally" =>
       /\ call.status # "NOT_STARTED"
       /\ call.status = "SUCCESS" => InState(call.at, "mined")
       /\ call.status = "FAILED" /\ ~call.unanswered => Dead(call.at)

\* executeTrade has left try k for good.
Left(k) == k < call.at \/ (k = call.at /\ call.pc = "idle")

Recorded(k) == records[k].state # "NONE"

\* A mined transaction that recovery may take for the one of record k.
Backs(k, hash) ==
  /\ InState(hash, "mined")
  /\ \/ hash = k
     \/ /\ records[k].nonce \in DOMAIN chain
        /\ chain[records[k].nonce].hash = hash

RecordOK(k) ==
  /\ records[k].state \in {"NONE", "CONFIRMED", "REVERTED", "BROADCAST_FAILED"} \cup Uncertain
  /\ ~Recorded(k) => records[k] = Unused /\ (Left(k) => Dead(k))
  /\ Recorded(k) => Left(k) /\ SentWith(k, records[k].nonce)
  /\ records[k].state # "CONFIRMED" => records[k].hash \in {NoHash, k}
  /\ records[k].state = "CONFIRMED" => Backs(k, records[k].hash)
  /\ records[k].state = "REVERTED" => InState(records[k].hash, "reverted")
  /\ records[k].state = "BROADCAST_FAILED" /\ odd[k] = {} => ~OnChain(k)

\* A hash an engine read from record k is still that of the record, or is the
\* try's own while the record was CONFIRMED by what its nonce went to.
KnownHash(k, hash) ==
  hash # NoHash =>
    /\ Recorded(k)
    /\ hash = records[k].hash \/ (records[k].state = "CONFIRMED" /\ hash = k)

Asking == {"receipt", "discover", "latest", "pending", "fallback"}

EngineOK(r) ==
  /\ \A k \in r.todo : Recorded(k)
  /\ r.pc \notin {"idle", "next", "read"} => Recorded(r.at)
  /\ r.pc \in Asking => r.copy.nonce = records[r.at].nonce /\ KnownHash(r.at, r.copy.hash)
  /\ \A k \in Tries : KnownHash(k, r.copies[k].hash)
  /\ r.pc \in {"row", "afterRow"} /\ r.verdict = "CONFIRMED" =>
       records[r.at].state = "CONFIRMED" /\ Backs(r.at, r.hash)

RecoveryInv ==
  /\ TypeOK
  /\ ChainOK /\ WireOK /\ CallOK
  /\ \A k \in Tries : RecordOK(k)
  /\ \A v \in Recoverers : EngineOK(rec[v])
  /\ SuccessIsBacked

\* The chain grows and what is settled stays settled.
ChainGrows ==
  \A i \in DOMAIN chain :
    /\ i \in DOMAIN chain' /\ chain'[i].hash = chain[i].hash
    /\ chain[i].state # "pending" => chain'[i] = chain[i]

\* What no write does to record k.
RecordKeeps(k) ==
  /\ Recorded(k) => Recorded(k)' /\ records'[k].nonce = records[k].nonce
  /\ records[k].state = "CONFIRMED" => records'[k] = records[k]
  /\ Recorded(k) /\ records'[k].hash # records[k].hash => records'[k].state = "CONFIRMED"

(***************************************************************************)
(* Facts about numbers, the chain and hashes.                              *)
(***************************************************************************)
LEMMA MinIsIn ==
  ASSUME NEW S, S \subseteq Nat, S # {}
  PROVE  Min(S) \in S
<1>1. PICK x \in S : \A y \in S : ~ (<<y, x>> \in OpToRel(<, Nat))
  BY NatLessThanWellFounded, WFMin
<1>2. \A y \in S : ~(y < x)
  BY <1>1 DEF OpToRel
<1>3. \A y \in S : x <= y
  BY <1>2
<1> QED
  BY <1>3 DEF Min

Tx == [hash : Hashes \ {NoHash}, state : {"pending", "mined", "reverted"}]

EngineSet == [pc : RecAt, todo : SUBSET Tries, at : Tries, copy : TxRecord,
              verdict : Verdict, hash : Hashes, inPlan : BOOLEAN, copies : [Tries -> TxRecord]]

LEMMA ChainType ==
  ASSUME TypeOK
  PROVE  /\ chain \in Seq(Tx)
         /\ Len(chain) \in Nat
         /\ DOMAIN chain = 1..Len(chain)
         /\ \A i \in DOMAIN chain :
              /\ chain[i] \in Tx
              /\ chain[i].hash \in Hashes /\ chain[i].hash # NoHash
              /\ chain[i].state \in {"pending", "mined", "reverted"}
              /\ chain[i] = [hash |-> chain[i].hash, state |-> chain[i].state]
<1>1. chain \in Seq(Tx)
  BY DEF TypeOK, Tx
<1>2. Len(chain) \in Nat /\ DOMAIN chain = 1..Len(chain) /\ \A i \in DOMAIN chain : chain[i] \in Tx
  BY <1>1
<1> QED
  BY <1>1, <1>2 DEF Tx

LEMMA HashTypes ==
  /\ \A k \in Tries : k \in Hashes /\ k # NoHash /\ k \in Nat
  /\ \A n \in Nat : n > 0 /\ n <= MaxNonce =>
       Foreign(n) \in Hashes /\ Foreign(n) # NoHash
  /\ \A n \in Nat \ {0} : Foreign(n) \notin Tries
  BY TxAssumption DEF Tries, Hashes, NoHash, Foreign

\* The states recovery meets, and which of them it may overwrite.
Known == Uncertain \cup {"CONFIRMED", "REVERTED", "BROADCAST_FAILED"}

LEMMA StatesAre == Known \subseteq TransactionStates
BY DEF Known, Uncertain, TransactionStates, TransactionTransitions

LEMMA OnlyUncertainChanges ==
  ASSUME NEW s \in Known, NEW t \in Known, ValidTransaction(s, t), s # t
  PROVE  s \in Uncertain
BY DEF Known, Uncertain, ValidTransaction, TransactionTransitions

\* Fewer transactions are settled than the chain has.
LEMMA LatestType ==
  ASSUME TypeOK
  PROVE  /\ LatestNonce \in Nat /\ LatestNonce >= 1 /\ LatestNonce <= PendingNonce
         /\ PendingNonce \in Nat /\ PendingNonce = Len(chain) + 1
<1> DEFINE S == {i \in DOMAIN chain : Settled(i)}
<1>1. Len(chain) \in Nat /\ DOMAIN chain = 1..Len(chain)
  BY ChainType
<1>2. IsFiniteSet(DOMAIN chain) /\ Cardinality(DOMAIN chain) = Len(chain)
  <2>1. \A n \in Nat : IsFiniteSet(1..n) /\ Cardinality(1..n) = n
    BY FS_Interval
  <2> QED
    BY <1>1, <2>1
<1>3. IsFiniteSet(S) /\ Cardinality(S) <= Len(chain)
  BY <1>2, FS_Subset, S \in SUBSET DOMAIN chain
<1>4. Cardinality(S) \in Nat
  BY <1>3, FS_CardinalityType
<1>5. LatestNonce = Cardinality(S) + 1 /\ PendingNonce = Len(chain) + 1
  BY DEF LatestNonce, PendingNonce
<1> HIDE DEF S
<1> QED
  BY <1>1, <1>3, <1>4, <1>5

LEMMA InStateIs ==
  ASSUME TypeOK, NEW h, NEW s
  PROVE  InState(h, s) <=> \E i \in DOMAIN chain : chain[i].hash = h /\ chain[i].state = s
  BY ChainType DEF InState

\* A transaction is in one state only.
LEMMA OneState ==
  ASSUME TypeOK, ChainOK, NEW h, NEW s, NEW t, InState(h, s), InState(h, t)
  PROVE  s = t
  BY InStateIs DEF ChainOK

LEMMA LiveIsOnChain ==
  ASSUME TypeOK, NEW k, Live(k)
  PROVE  OnChain(k)
  BY InStateIs DEF Live, OnChain

LEMMA InStateStays ==
  ASSUME TypeOK, TypeOK', ChainGrows, NEW h, NEW s \in {"mined", "reverted"}, InState(h, s)
  PROVE  InState(h, s)'
<1>1. PICK i \in DOMAIN chain : chain[i] = [hash |-> h, state |-> s]
  BY DEF InState
<1>2. i \in DOMAIN chain' /\ chain'[i] = chain[i]
  BY <1>1 DEF ChainGrows
<1> QED
  BY <1>1, <1>2 DEF InState

LEMMA BacksStays ==
  ASSUME TypeOK, TypeOK', ChainGrows, NEW k \in Tries, NEW h, Backs(k, h),
         records'[k].nonce = records[k].nonce
  PROVE  Backs(k, h)'
<1>1. InState(h, "mined")'
  BY InStateStays DEF Backs
<1> QED
  BY <1>1 DEF Backs, ChainGrows

\* Recovery takes one transaction only for a record.
LEMMA BacksOne ==
  ASSUME TypeOK, ChainOK, NEW k \in Tries, SentWith(k, records[k].nonce),
         NEW g, NEW h, Backs(k, g), Backs(k, h)
  PROVE  g = h
<1>1. records[k].nonce \in DOMAIN chain => records[k].nonce # NoNonce
  BY ChainType DEF NoNonce
<1>2. ASSUME NEW m, InState(k, "mined"), records[k].nonce \in DOMAIN chain,
             chain[records[k].nonce].hash = m
      PROVE  m = k
  BY <1>1, <1>2, InStateIs DEF SentWith
<1> QED
  BY <1>2 DEF Backs

(***************************************************************************)
(* What a step that leaves an engine, a record, the row alone does to      *)
(* what is known about it.                                                 *)
(***************************************************************************)
Keeps == ChainGrows /\ \A k \in Tries : RecordKeeps(k)

LEMMA KnownHashStays ==
  ASSUME NEW k \in Tries, RecordOK(k), RecordKeeps(k), NEW h, KnownHash(k, h)
  PROVE  KnownHash(k, h)'
<1> SUFFICES ASSUME h # NoHash PROVE KnownHash(k, h)'
  BY DEF KnownHash
<1>1. Recorded(k) /\ Recorded(k)'
  BY DEF KnownHash, RecordKeeps
<1>2. CASE records[k].state = "CONFIRMED"
  BY <1>1, <1>2 DEF KnownHash, RecordKeeps
<1>3. CASE records[k].state # "CONFIRMED"
  <2>1. h = records[k].hash /\ h = k
    BY <1>3 DEF KnownHash, RecordOK
  <2>2. CASE records'[k].hash = records[k].hash
    BY <1>1, <2>1, <2>2 DEF KnownHash
  <2>3. CASE records'[k].hash # records[k].hash
    BY <1>1, <2>1, <2>3 DEF KnownHash, RecordKeeps
  <2> QED
    BY <2>2, <2>3
<1> QED
  BY <1>2, <1>3

LEMMA EngineStays ==
  ASSUME TypeOK, TypeOK', Keeps, \A k \in Tries : RecordOK(k),
         NEW r \in EngineSet, EngineOK(r)
  PROVE  EngineOK(r)'
<1> USE DEF EngineSet
<1>1. \A k \in r.todo : Recorded(k)'
  BY DEF EngineOK, Keeps, RecordKeeps
<1>2. r.pc \notin {"idle", "next", "read"} => Recorded(r.at)'
  BY DEF EngineOK, Keeps, RecordKeeps
<1>3. r.pc \in Asking => r.copy.nonce = records'[r.at].nonce /\ KnownHash(r.at, r.copy.hash)'
  BY <1>2, KnownHashStays DEF EngineOK, Keeps, RecordKeeps, Asking
<1>4. \A k \in Tries : KnownHash(k, r.copies[k].hash)'
  BY KnownHashStays DEF EngineOK, Keeps
<1>5. ASSUME r.pc \in {"row", "afterRow"}, r.verdict = "CONFIRMED"
      PROVE  records'[r.at].state = "CONFIRMED" /\ Backs(r.at, r.hash)'
  <2>1. records[r.at].state = "CONFIRMED" /\ Backs(r.at, r.hash) /\ records'[r.at] = records[r.at]
    BY <1>5 DEF EngineOK, Keeps, RecordKeeps
  <2> QED
    BY <2>1, BacksStays DEF Keeps
<1> QED
  BY <1>1, <1>2, <1>3, <1>4, <1>5 DEF EngineOK

LEMMA RowStays ==
  ASSUME TypeOK, TypeOK', Keeps, SuccessIsBacked, row' = row, call'.at = call.at
  PROVE  SuccessIsBacked'
<1> SUFFICES ASSUME row.status = "SUCCESS"
             PROVE  /\ InState(row.hash, "mined")'
                    /\ \/ row.hash = call'.at
                       \/ \E k \in Tries : records'[k].state = "CONFIRMED" /\ row.hash = records'[k].hash
  BY DEF SuccessIsBacked
<1>1. InState(row.hash, "mined")'
  BY InStateStays DEF SuccessIsBacked, Keeps
<1> QED
  BY <1>1 DEF SuccessIsBacked, Keeps, RecordKeeps

\* Try k neither comes to the chain nor to the wire, nor back to life.
Quiet(k) ==
  /\ \A i \in DOMAIN chain' : chain'[i].hash = k => i \in DOMAIN chain /\ chain[i].hash = k
  /\ Live(k)' => Live(k)
  /\ \A request \in wire' : request[1] = k => request \in wire

LEMMA QuietKeeps ==
  ASSUME NEW k, Quiet(k)
  PROVE  /\ Dead(k) => Dead(k)'
         /\ ~OnChain(k) => ~OnChain(k)'
         /\ \A n : SentWith(k, n) => SentWith(k, n)'
<1>1. Dead(k) => Dead(k)'
  BY DEF Quiet, Dead, OnWire
<1>2. ~OnChain(k) => ~OnChain(k)'
  BY DEF Quiet, OnChain
<1>3. ASSUME NEW n, SentWith(k, n) PROVE SentWith(k, n)'
  BY <1>3 DEF Quiet, SentWith
<1> QED
  BY <1>1, <1>2, <1>3

LEMMA RecordStays ==
  ASSUME TypeOK, TypeOK', ChainGrows, NEW k \in Tries, RecordOK(k), Quiet(k),
         records'[k] = records[k], odd[k] \subseteq odd'[k],
         Left(k) => Left(k)',
         Left(k)' /\ ~Left(k) /\ ~Recorded(k) => Dead(k)'
  PROVE  RecordOK(k)'
<1>1. /\ records'[k].state \in {"NONE", "CONFIRMED", "REVERTED", "BROADCAST_FAILED"} \cup Uncertain
      /\ records'[k].state # "CONFIRMED" => records'[k].hash \in {NoHash, k}
  BY DEF RecordOK
<1>2. Recorded(k)' <=> Recorded(k)
  BY DEF Recorded
<1>3. ~Recorded(k)' => records'[k] = Unused /\ (Left(k)' => Dead(k)')
  BY <1>2, QuietKeeps DEF RecordOK
<1>4. Recorded(k)' => Left(k)' /\ SentWith(k, records[k].nonce)'
  BY <1>2, QuietKeeps DEF RecordOK
<1>5. records'[k].state = "CONFIRMED" => Backs(k, records[k].hash)'
  BY BacksStays DEF RecordOK
<1>6. records'[k].state = "REVERTED" => InState(records[k].hash, "reverted")'
  BY InStateStays DEF RecordOK
<1>7. records'[k].state = "BROADCAST_FAILED" /\ odd'[k] = {} => ~OnChain(k)'
  BY QuietKeeps DEF RecordOK
<1> QED
  BY <1>1, <1>3, <1>4, <1>5, <1>6, <1>7 DEF RecordOK

LEMMA WireStays ==
  ASSUME TypeOK, TypeOK', WireOK, wire' \subseteq wire, call'.at = call.at,
         call'.pc \in {"send", "wait"} => call.pc \in {"send", "wait"},
         \A k \in Tries : odd[k] \subseteq odd'[k],
         \A request \in wire' : Quiet(request[1])
  PROVE  WireOK'
<1> SUFFICES ASSUME NEW request \in wire'
             PROVE  /\ request[1] <= call'.at
                    /\ request[1] = call'.at => call'.pc \notin {"send", "wait"}
                    /\ "late" \in odd'[request[1]]
                    /\ ~OnChain(request[1])'
                    /\ \A other \in wire' : other[1] = request[1] => other[2] = request[2]
  BY DEF WireOK
<1>1. request \in wire /\ request[1] \in Tries
  BY DEF TypeOK
<1>2. ~OnChain(request[1])'
  BY <1>1, QuietKeeps DEF WireOK
<1> QED
  BY <1>1, <1>2 DEF WireOK

LEMMA CallStays ==
  ASSUME TypeOK, TypeOK', CallOK, ChainGrows, call' = call,
         call.pc \in {"send", "wait", "finally", "record"} => Quiet(call.at)
  PROVE  CallOK'
<1>1. ASSUME call.pc \in {"send", "wait", "finally", "record"}
      PROVE  call.at \in Tries /\ SentWith(call.at, call.nonce)'
  BY <1>1, QuietKeeps DEF CallOK
<1>2. call.pc = "send" => ~OnChain(call.at)'
  BY QuietKeeps DEF CallOK
<1>3. ASSUME call.pc = "finally"
      PROVE  /\ call.status # "NOT_STARTED"
             /\ call.status = "SUCCESS" => InState(call.at, "mined")'
             /\ call.status = "FAILED" /\ ~call.unanswered => Dead(call.at)'
  BY <1>3, QuietKeeps, InStateStays DEF CallOK
<1> QED
  BY <1>1, <1>2, <1>3 DEF CallOK

\* Nothing happens to the chain or to the wire.
LEMMA NetworkStays ==
  ASSUME TypeOK, TypeOK', UNCHANGED network
  PROVE  ChainGrows /\ \A k : Quiet(k)
<1>1. chain' = chain /\ wire' = wire
  BY DEF network
<1>2. ChainGrows
  BY <1>1 DEF ChainGrows
<1>3. ASSUME NEW k PROVE Quiet(k)
  BY <1>1 DEF Quiet, Live, InState
<1> QED
  BY <1>2, <1>3

(***************************************************************************)
(* A node accepts a transaction.                                           *)
(***************************************************************************)
LEMMA AcceptIs ==
  ASSUME TypeOK, NEW h \in Hashes \ {NoHash}, chain' = Accepted(h)
  PROVE  /\ chain' \in Seq(Tx)
         /\ Len(chain) \in Nat
         /\ DOMAIN chain = 1..Len(chain)
         /\ DOMAIN chain' = 1..(Len(chain) + 1)
         /\ chain'[Len(chain) + 1] = [hash |-> h, state |-> "pending"]
         /\ \A i \in DOMAIN chain : i \in DOMAIN chain' /\ chain'[i] = chain[i]
         /\ ChainGrows
<1>1. chain \in Seq(Tx) /\ [hash |-> h, state |-> "pending"] \in Tx
  BY ChainType DEF Tx
<1>2. /\ chain' \in Seq(Tx)
      /\ Len(chain) \in Nat
      /\ DOMAIN chain = 1..Len(chain)
      /\ DOMAIN chain' = 1..(Len(chain) + 1)
      /\ chain'[Len(chain) + 1] = [hash |-> h, state |-> "pending"]
      /\ \A i \in DOMAIN chain : i \in DOMAIN chain' /\ chain'[i] = chain[i]
  BY <1>1 DEF Accepted
<1> QED
  BY <1>2 DEF ChainGrows

\* The one new transaction is the last.
LEMMA AcceptedAt ==
  ASSUME TypeOK, NEW h \in Hashes \ {NoHash}, chain' = Accepted(h)
  PROVE  /\ chain'[Len(chain) + 1].hash = h
         /\ \A i \in DOMAIN chain : chain'[i] = chain[i]
         /\ \A i \in DOMAIN chain' : i \in DOMAIN chain \/ i = Len(chain) + 1
<1>1. /\ Len(chain) \in Nat
      /\ DOMAIN chain = 1..Len(chain)
      /\ DOMAIN chain' = 1..(Len(chain) + 1)
      /\ chain'[Len(chain) + 1].hash = h
      /\ \A i \in DOMAIN chain : chain'[i] = chain[i]
  <2>1. chain'[Len(chain) + 1] = [hash |-> h, state |-> "pending"]
    BY AcceptIs
  <2> QED
    BY <2>1, AcceptIs
<1> DEFINE n == Len(chain)
<1>2. n \in Nat /\ DOMAIN chain = 1..n /\ DOMAIN chain' = 1..(n + 1)
  BY <1>1
<1>3. \A i \in DOMAIN chain' : i \in DOMAIN chain \/ i = n + 1
  BY <1>2
<1> QED
  BY <1>1, <1>3

LEMMA AcceptQuiet ==
  ASSUME TypeOK, NEW h \in Hashes \ {NoHash}, chain' = Accepted(h), wire' \subseteq wire,
         NEW k, k # h
  PROVE  Quiet(k)
<1>1. ASSUME NEW i \in DOMAIN chain', chain'[i].hash = k
      PROVE  i \in DOMAIN chain /\ chain'[i] = chain[i]
  BY <1>1, AcceptedAt
<1>2. ASSUME NEW s, InState(k, s)' PROVE InState(k, s)
  BY <1>1, <1>2 DEF InState
<1> QED
  BY <1>1, <1>2 DEF Quiet, Live

LEMMA AcceptChainOK ==
  ASSUME TypeOK, ChainOK, NEW h \in Hashes \ {NoHash}, chain' = Accepted(h),
         call'.at = call.at, ~OnChain(h), h \in 1..call.at \/ h = Foreign(Len(chain) + 1)
  PROVE  ChainOK'
<1>1. ASSUME NEW i \in DOMAIN chain'
      PROVE  chain'[i].hash \in 1..call'.at \/ chain'[i].hash = Foreign(i)
  BY AcceptedAt DEF ChainOK
<1>2. ASSUME NEW i \in DOMAIN chain', NEW j \in DOMAIN chain', chain'[i].hash = chain'[j].hash
      PROVE  i = j
  <2>1. \A x \in DOMAIN chain : chain'[x].hash # h
    BY AcceptedAt DEF OnChain
  <2> QED
    BY <1>2, <2>1, AcceptedAt DEF ChainOK
<1> QED
  BY <1>1, <1>2 DEF ChainOK

LEMMA ForeignIsNew ==
  ASSUME TypeOK, ChainOK
  PROVE  ~OnChain(Foreign(Len(chain) + 1))
<1>1. call.at \in Nat /\ call.at <= MaxTries
  BY TxAssumption DEF TypeOK, Tries
<1>2. \A i \in DOMAIN chain : i \in Nat /\ i <= Len(chain)
  BY ChainType
<1> QED
  BY <1>1, <1>2, ChainType, TxAssumption DEF OnChain, ChainOK, Foreign

(***************************************************************************)
(* Steps of the network and of executeTrade: recovery engines, rows and    *)
(* records (but one) are left alone.                                       *)
(***************************************************************************)
LEMMA EnginesStay ==
  ASSUME RecoveryInv, TypeOK', Keeps, rec' = rec
  PROVE  \A v \in Recoverers : EngineOK(rec[v])'
<1> SUFFICES ASSUME NEW v \in Recoverers PROVE EngineOK(rec[v])'
  OBVIOUS
<1>1. PICK r : r = rec[v]
  OBVIOUS
<1>2. r \in EngineSet /\ EngineOK(r)
  BY <1>1 DEF RecoveryInv, TypeOK, EngineSet
<1>3. EngineOK(r)'
  BY <1>2, EngineStays DEF RecoveryInv
<1>4. rec'[v] = r
  BY <1>1
<1> QED
  BY <1>3, <1>4 DEF EngineOK

LEMMA RecordsStay ==
  ASSUME records' = records
  PROVE  \A k \in Tries : RecordKeeps(k)
BY DEF RecordKeeps, Recorded

LEMMA NetworkStep ==
  ASSUME RecoveryInv, TypeOK', ChainGrows, UNCHANGED <<records, row, rec>>,
         call'.at = call.at, ChainOK', WireOK', CallOK', \A k \in Tries : RecordOK(k)'
  PROVE  RecoveryInv'
<1>1. Keeps
  BY RecordsStay DEF Keeps
<1>2. \A v \in Recoverers : EngineOK(rec[v])'
  BY <1>1, EnginesStay
<1>3. SuccessIsBacked'
  BY <1>1, RowStays DEF RecoveryInv
<1> QED
  BY <1>2, <1>3 DEF RecoveryInv

LEMMA WalletStep ==
  ASSUME RecoveryInv, Wallet
  PROVE  RecoveryInv'
<1> DEFINE h == Foreign(Len(chain) + 1)
<1>1. TypeOK /\ ChainOK /\ Len(chain) \in Nat /\ Len(chain) < MaxNonce /\ PendingNonce = Len(chain) + 1
  BY LatestType, ChainType DEF RecoveryInv, Wallet
<1>2. h \in Hashes \ {NoHash} /\ \A k \in Tries : k # h
  BY <1>1, HashTypes, TxAssumption
<1>3. chain' = Accepted(h) /\ UNCHANGED <<wire, records, row, call, rec, lease, odd>>
  BY <1>1 DEF Wallet
<1> HIDE DEF h
<1>4. ChainGrows /\ chain' \in Seq(Tx)
  BY <1>1, <1>2, <1>3, AcceptIs
<1>5. TypeOK'
  BY <1>1, <1>3, <1>4 DEF TypeOK, Tx
<1>6. \A k \in Tries : Quiet(k)
  BY <1>1, <1>2, <1>3, AcceptQuiet
<1>7. ChainOK'
  BY <1>1, <1>2, <1>3, AcceptChainOK, ForeignIsNew DEF h
<1>8. WireOK'
  BY <1>1, <1>3, <1>5, <1>6, WireStays DEF RecoveryInv, TypeOK
<1>9. CallOK'
  BY <1>1, <1>3, <1>4, <1>5, <1>6, CallStays DEF RecoveryInv, CallOK
<1>10. ASSUME NEW k \in Tries PROVE RecordOK(k)'
  <2>1. Left(k)' <=> Left(k)
    BY <1>3 DEF Left
  <2> QED
    BY <1>1, <1>3, <1>4, <1>5, <1>6, <2>1, RecordStays DEF RecoveryInv
<1> QED
  BY <1>3, <1>4, <1>5, <1>7, <1>8, <1>9, <1>10, NetworkStep

LEMMA MineStep ==
  ASSUME RecoveryInv, Mine
  PROVE  RecoveryInv'
<1>1. TypeOK /\ ChainOK
  BY DEF RecoveryInv
<1>2. PICK i \in DOMAIN chain, state \in {"mined", "reverted"} :
        chain[i].state = "pending" /\ chain' = [chain EXCEPT ![i].state = state]
  BY DEF Mine, Settled
<1>3. UNCHANGED <<wire, records, row, call, rec, lease, odd>>
  BY DEF Mine
<1>4. PICK t : t = [chain[i] EXCEPT !.state = state]
  OBVIOUS
<1>4a. t \in Tx /\ t.hash = chain[i].hash /\ t.state = state /\ chain' = [chain EXCEPT ![i] = t]
  <2>1. chain[i] \in Tx
    BY <1>1, ChainType
  <2> QED
    BY <1>2, <1>4, <2>1 DEF Tx
<1>5. chain' \in Seq(Tx) /\ DOMAIN chain' = DOMAIN chain
  BY <1>1, <1>4a, ChainType
<1>6. /\ \A j \in DOMAIN chain : chain'[j].hash = chain[j].hash
      /\ \A j \in DOMAIN chain : j # i => chain'[j] = chain[j]
      /\ chain'[i].state = state
  BY <1>1, <1>4a, ChainType
<1>7. TypeOK'
  BY <1>1, <1>3, <1>5 DEF TypeOK, Tx
<1>8. ChainGrows
  BY <1>2, <1>5, <1>6 DEF ChainGrows
<1>9. ASSUME NEW k \in Tries PROVE Quiet(k)
  <2>1. Live(k)' => Live(k)
    <3> SUFFICES ASSUME NEW j \in DOMAIN chain, chain'[j].hash = k, chain'[j].state \in {"pending", "mined"}
                 PROVE  Live(k)
      BY <1>5, <1>7, InStateIs DEF Live, InState
    <3>1. chain[j].hash = k /\ chain[j].state \in {"pending", "mined"}
      BY <1>2, <1>6
    <3> QED
      BY <1>1, <3>1, InStateIs DEF Live
  <2> QED
    BY <1>3, <1>5, <1>6, <2>1 DEF Quiet
<1>10. ChainOK'
  BY <1>1, <1>3, <1>5, <1>6 DEF ChainOK
<1>11. WireOK'
  BY <1>1, <1>3, <1>7, <1>9, WireStays DEF RecoveryInv, TypeOK
<1>12. CallOK'
  BY <1>1, <1>3, <1>7, <1>8, <1>9, CallStays DEF RecoveryInv, CallOK
<1>13. ASSUME NEW k \in Tries PROVE RecordOK(k)'
  <2>1. Left(k)' <=> Left(k)
    BY <1>3 DEF Left
  <2> QED
    BY <1>1, <1>3, <1>7, <1>8, <1>9, <2>1, RecordStays DEF RecoveryInv
<1> QED
  BY <1>3, <1>7, <1>8, <1>10, <1>11, <1>12, <1>13, NetworkStep

\* A try that a node accepts: on the wire until now, or the one being sent.
LEMMA TryAccepted ==
  ASSUME RecoveryInv, TypeOK', NEW k \in Tries, chain' = Accepted(k),
         ~OnChain(k), k <= call.at, wire' \subseteq wire,
         \A request \in wire' : request[1] # k,
         call'.at = call.at, call'.pc \in {"send", "wait"} => call.pc \in {"send", "wait"},
         UNCHANGED <<records, row, rec, odd>>
  PROVE  /\ ChainGrows /\ ChainOK' /\ WireOK'
         /\ \A j \in Tries \ {k} : Quiet(j)
<1>1. TypeOK /\ ChainOK /\ k \in Hashes \ {NoHash} /\ k \in 1..call.at
  BY HashTypes DEF RecoveryInv, TypeOK, Tries
<1>2. ChainGrows
  BY <1>1, AcceptIs
<1>3. ChainOK'
  BY <1>1, AcceptChainOK
<1>4. \A j \in Tries \ {k} : Quiet(j)
  BY <1>1, AcceptQuiet
<1>5. \A request \in wire' : Quiet(request[1])
  BY <1>1, AcceptQuiet
<1>6. WireOK'
  BY <1>1, <1>5, WireStays DEF RecoveryInv
<1> QED
  BY <1>2, <1>3, <1>4, <1>6

LEMMA ArriveStep ==
  ASSUME RecoveryInv, Arrive
  PROVE  RecoveryInv'
<1>1. TypeOK /\ UNCHANGED <<records, row, call, rec, lease, odd>>
  BY DEF RecoveryInv, Arrive
<1>2. PICK request \in wire :
        /\ wire' = wire \ {request}
        /\ chain' = IF request[2] = PendingNonce /\ Len(chain) < MaxNonce
                    THEN Accepted(request[1]) ELSE chain
  BY DEF Arrive
<1>3. PICK k \in Tries, n \in Nat : request = <<k, n>>
  BY <1>1, <1>2 DEF TypeOK
<1>4. /\ k <= call.at /\ (k = call.at => call.pc \notin {"send", "wait"})
      /\ "late" \in odd[k] /\ ~OnChain(k) /\ OnWire(k)
      /\ \A other \in wire : other[1] = k => other[2] = n
  BY <1>2, <1>3 DEF RecoveryInv, WireOK, OnWire
<1>5. \A other \in wire' : other[1] # k
  BY <1>1, <1>2, <1>3, <1>4 DEF TypeOK
<1>6. CASE chain' = chain
  <2>1. TypeOK'
    BY <1>1, <1>2, <1>6 DEF TypeOK
  <2>2. ChainGrows
    BY <1>6 DEF ChainGrows
  <2>3. ASSUME NEW j \in Tries PROVE Quiet(j)
    BY <1>2, <1>6 DEF Quiet, Live, InState
  <2>4. ChainOK'
    BY <1>1, <1>6 DEF RecoveryInv, ChainOK
  <2>5. WireOK'
    BY <1>1, <1>2, <2>1, <2>3, WireStays DEF RecoveryInv, TypeOK
  <2>6. CallOK'
    BY <1>1, <2>1, <2>2, <2>3, CallStays DEF RecoveryInv, CallOK
  <2>7. ASSUME NEW j \in Tries PROVE RecordOK(j)'
    <3>1. Left(j)' <=> Left(j)
      BY <1>1 DEF Left
    <3> QED
      BY <1>1, <2>1, <2>2, <2>3, <3>1, RecordStays DEF RecoveryInv
  <2> QED
    BY <1>1, <2>1, <2>2, <2>4, <2>5, <2>6, <2>7, NetworkStep
<1>7. CASE chain' = Accepted(k) /\ n = Len(chain) + 1
  <2>1. k \in Hashes \ {NoHash}
    BY HashTypes
  <2>2. TypeOK'
    <3>1. chain' \in Seq(Tx)
      BY <1>1, <1>7, <2>1, AcceptIs
    <3> QED
      BY <1>1, <1>2, <3>1 DEF TypeOK, Tx
  <2>3. ChainGrows /\ ChainOK' /\ WireOK' /\ \A j \in Tries \ {k} : Quiet(j)
    BY <1>1, <1>2, <1>4, <1>5, <1>7, <2>2, TryAccepted
  <2>4. \A m : SentWith(k, m) => SentWith(k, m)'
    <3>1. \A i \in DOMAIN chain' : chain'[i].hash = k => i = n
      <4>1. \A i \in DOMAIN chain : chain'[i].hash # k
        BY <1>1, <1>4, <1>7, <2>1, AcceptedAt DEF OnChain
      <4> QED
        BY <1>1, <1>7, <2>1, <4>1, AcceptedAt
    <3> QED
      BY <1>2, <1>3, <1>5, <3>1 DEF SentWith
  <2>5. CallOK'
    <3>1. CASE call.at = k
      <4>1. ~Dead(k)
        BY <1>4 DEF Dead
      <4> QED
        BY <1>1, <1>4, <2>2, <2>3, <2>4, <3>1, <4>1, InStateStays DEF RecoveryInv, CallOK
    <3>2. CASE call.at # k
      BY <1>1, <2>2, <2>3, <3>2, CallStays DEF RecoveryInv, CallOK
    <3> QED
      BY <3>1, <3>2
  <2>6. ASSUME NEW j \in Tries PROVE RecordOK(j)'
    <3>1. Left(j)' <=> Left(j)
      BY <1>1 DEF Left
    <3>2. CASE j # k
      BY <1>1, <2>2, <2>3, <3>1, <3>2, RecordStays DEF RecoveryInv
    <3>3. CASE j = k
      <4>1. RecordOK(k) /\ ~Dead(k) /\ odd'[k] # {}
        BY <1>1, <1>4 DEF RecoveryInv, Dead
      <4>2. records'[k].state = "CONFIRMED" => Backs(k, records[k].hash)'
        BY <1>1, <2>2, <2>3, <4>1, BacksStays DEF RecordOK
      <4>3. records'[k].state = "REVERTED" => InState(records[k].hash, "reverted")'
        BY <1>1, <2>2, <2>3, <4>1, InStateStays DEF RecordOK
      <4>4. ~Recorded(k)' => records'[k] = Unused /\ (Left(k)' => Dead(k)')
        BY <1>1, <3>1, <3>3, <4>1 DEF RecordOK, Recorded
      <4>5. Recorded(k)' => Left(k)' /\ SentWith(k, records[k].nonce)'
        BY <1>1, <2>4, <3>1, <3>3, <4>1 DEF RecordOK, Recorded
      <4> QED
        BY <1>1, <3>3, <4>1, <4>2, <4>3, <4>4, <4>5 DEF RecordOK
    <3> QED
      BY <3>2, <3>3
  <2> QED
    BY <1>1, <2>2, <2>3, <2>5, <2>6, NetworkStep
<1> QED
  BY <1>1, <1>2, <1>3, <1>6, <1>7, LatestType

\* executeTrade moves on and nothing happens to the network.
LEMMA CallMoves ==
  ASSUME RecoveryInv, TypeOK', UNCHANGED <<network, records, rec, odd>>,
         call'.at = call.at, call.pc # "idle",
         call'.pc \in {"send", "wait"} => call.pc \in {"send", "wait"},
         call'.pc = "idle" => Dead(call.at), CallOK', SuccessIsBacked'
  PROVE  RecoveryInv'
<1>1. TypeOK /\ ChainGrows /\ (\A k : Quiet(k)) /\ chain' = chain
  BY NetworkStays DEF RecoveryInv, network
<1>2. Keeps
  BY <1>1, RecordsStay DEF Keeps
<1>3. \A v \in Recoverers : EngineOK(rec[v])'
  BY <1>2, EnginesStay
<1>4. ChainOK'
  BY <1>1 DEF RecoveryInv, ChainOK
<1>5. WireOK'
  BY <1>1, WireStays DEF RecoveryInv, network
<1>6. ASSUME NEW k \in Tries PROVE RecordOK(k)'
  <2>1. Left(k) => Left(k)'
    BY DEF Left
  <2>2. Left(k)' /\ ~Left(k) => Dead(k)'
    <3>1. Left(k)' /\ ~Left(k) => k = call.at /\ call'.pc = "idle"
      BY DEF Left
    <3> QED
      BY <1>1, <3>1, QuietKeeps
  <2> QED
    BY <1>1, <2>1, <2>2, RecordStays DEF RecoveryInv
<1> QED
  BY <1>3, <1>4, <1>5, <1>6 DEF RecoveryInv

LEMMA NotSentStep ==
  ASSUME RecoveryInv, NotSent
  PROVE  RecoveryInv'
<1>1. /\ call.pc = "send" /\ UNCHANGED <<network, records, row, rec, lease, odd>>
      /\ call' = [call EXCEPT !.pc = "finally", !.status = "FAILED", !.unanswered = FALSE]
      /\ TypeOK /\ CallOK /\ WireOK
  BY DEF RecoveryInv, NotSent
<1>2. call'.at = call.at /\ call'.nonce = call.nonce /\ call'.pc = "finally" /\ call'.status = "FAILED"
  BY <1>1 DEF TypeOK
<1>3. TypeOK'
  BY <1>1 DEF TypeOK, network, CallAt
<1>4. ChainGrows /\ \A k : Quiet(k)
  BY <1>1, <1>3, NetworkStays
<1>5. Dead(call.at)
  BY <1>1, LiveIsOnChain DEF CallOK, WireOK, Dead, OnWire
<1>6. CallOK'
  BY <1>1, <1>2, <1>4, <1>5, QuietKeeps DEF CallOK
<1>7. SuccessIsBacked'
  BY <1>1, <1>2, <1>3, <1>4, RecordsStay, RowStays DEF RecoveryInv, Keeps
<1> QED
  BY <1>1, <1>2, <1>3, <1>6, <1>7, CallMoves

LEMMA SwapReceiptStep ==
  ASSUME RecoveryInv, SwapReceipt
  PROVE  RecoveryInv'
<1>1. /\ call.pc = "wait" /\ UNCHANGED <<network, records, row, rec, lease, odd>>
      /\ TypeOK /\ ChainOK /\ CallOK /\ WireOK
  BY DEF RecoveryInv, SwapReceipt
<1>2. PICK state \in {"mined", "reverted"}, status \in {"SUCCESS", "FAILED"} :
        /\ state = "mined" <=> status = "SUCCESS"
        /\ InState(call.at, state)
        /\ call' = [call EXCEPT !.pc = "finally", !.status = status, !.unanswered = FALSE]
  <2>1. PICK outcome \in {<<"mined", "SUCCESS">>, <<"reverted", "FAILED">>} :
          /\ InState(call.at, outcome[1])
          /\ call' = [call EXCEPT !.pc = "finally", !.status = outcome[2], !.unanswered = FALSE]
    BY DEF SwapReceipt
  <2>2. PICK state, status : state = outcome[1] /\ status = outcome[2]
    OBVIOUS
  <2>3. \/ state = "mined" /\ status = "SUCCESS"
        \/ state = "reverted" /\ status = "FAILED"
    BY <2>2
  <2>4. /\ InState(call.at, state)
        /\ call' = [call EXCEPT !.pc = "finally", !.status = status, !.unanswered = FALSE]
    BY <2>1, <2>2
  <2> QED
    BY <2>3, <2>4
<1>3. /\ call'.at = call.at /\ call'.nonce = call.nonce
      /\ call'.pc = "finally" /\ call'.status = status
  BY <1>1, <1>2 DEF TypeOK
<1>4. TypeOK'
  <2>1. call' \in [pc : CallAt, at : Tries \cup {0}, nonce : Nat,
                   status : {"NOT_STARTED", "SUCCESS", "FAILED"}, unanswered : BOOLEAN]
    BY <1>1, <1>2 DEF TypeOK, CallAt
  <2> QED
    BY <1>1, <2>1 DEF TypeOK, network
<1>5. ChainGrows /\ \A k : Quiet(k)
  BY <1>1, <1>4, NetworkStays
<1>6. PICK k \in Tries : k = call.at
  BY <1>1 DEF CallOK
<1>7. CallOK'
  <2>1. \A n : SentWith(k, n) => SentWith(k, n)'
    BY <1>5, QuietKeeps
  <2>2. SentWith(k, call.nonce)'
    BY <1>1, <1>3, <1>6, <2>1 DEF CallOK, SentWith
  <2>3. status = "SUCCESS" => InState(k, "mined")'
    BY <1>1, <1>2, <1>4, <1>5, <1>6, InStateStays
  <2>4. status = "FAILED" => Dead(k)'
    <3>1. status = "FAILED" => ~Live(k)
      BY <1>1, <1>2, <1>6, OneState DEF Live
    <3>2. ~OnWire(k)
      BY <1>1, <1>6 DEF WireOK, OnWire
    <3> QED
      BY <1>5, <3>1, <3>2, QuietKeeps DEF Dead
  <2> QED
    BY <1>3, <1>6, <2>2, <2>3, <2>4 DEF CallOK
<1>8. SuccessIsBacked'
  BY <1>1, <1>3, <1>4, <1>5, RecordsStay, RowStays DEF RecoveryInv, Keeps
<1> QED
  BY <1>1, <1>3, <1>4, <1>7, <1>8, CallMoves

LEMMA FinallyStep ==
  ASSUME RecoveryInv, Finally
  PROVE  RecoveryInv'
<1>1. /\ call.pc = "finally" /\ UNCHANGED <<network, records, rec, lease, odd>>
      /\ TypeOK /\ CallOK /\ call.status \in {"SUCCESS", "FAILED"}
  BY DEF RecoveryInv, CallOK, TypeOK, Finally
<1>2. call' = [call EXCEPT !.pc = IF call.status = "SUCCESS" THEN "over"
                                  ELSE IF call.unanswered THEN "record" ELSE "idle"]
  BY DEF Finally
<1>3. /\ call'.at = call.at /\ call'.nonce = call.nonce
      /\ call'.pc \in {"over", "record", "idle"}
      /\ call'.pc = "idle" => call.status = "FAILED" /\ ~call.unanswered
      /\ call' \in [pc : CallAt, at : Tries \cup {0}, nonce : Nat,
                    status : {"NOT_STARTED", "SUCCESS", "FAILED"}, unanswered : BOOLEAN]
  BY <1>1, <1>2 DEF TypeOK, CallAt
<1>4. \/ row' = row
      \/ row' = [status |-> call.status, hash |-> IF call.status = "SUCCESS" THEN call.at ELSE row.hash]
  BY DEF Finally
<1>5. TypeOK'
  <2>1. row' \in [status : {"NOT_STARTED", "SUCCESS", "FAILED"}, hash : Hashes]
    BY <1>1, <1>4, HashTypes DEF TypeOK, CallOK
  <2> QED
    BY <1>1, <1>3, <2>1 DEF TypeOK, network
<1>6. ChainGrows /\ \A k : Quiet(k)
  BY <1>1, <1>5, NetworkStays
<1>7. Dead(call.at) \/ call'.pc # "idle"
  BY <1>1, <1>3 DEF CallOK
<1>8. CallOK'
  BY <1>1, <1>3, <1>6, QuietKeeps DEF CallOK
<1>9. SuccessIsBacked'
  <2>1. CASE row' = row
    BY <1>1, <1>3, <1>5, <1>6, <2>1, RecordsStay, RowStays DEF RecoveryInv, Keeps
  <2>2. CASE row' = [status |-> call.status, hash |-> IF call.status = "SUCCESS" THEN call.at ELSE row.hash]
    <3>1. PICK k : k = call.at
      OBVIOUS
    <3>2. call.status = "SUCCESS" => InState(k, "mined")'
      BY <1>1, <1>5, <1>6, <3>1, InStateStays DEF CallOK
    <3> QED
      BY <1>1, <1>3, <2>2, <3>1, <3>2 DEF SuccessIsBacked
  <2> QED
    BY <1>4, <2>1, <2>2
<1> QED
  BY <1>1, <1>3, <1>5, <1>7, <1>8, <1>9, CallMoves

LEMMA RetryStep ==
  ASSUME RecoveryInv, Retry
  PROVE  RecoveryInv'
<1>1. /\ call.pc = "idle" /\ call.at < MaxTries /\ row.status # "SUCCESS"
      /\ UNCHANGED <<network, records, row, rec, lease, odd>>
      /\ TypeOK /\ ChainOK /\ WireOK
  BY DEF RecoveryInv, Retry
<1>2. PICK nonce \in Nat : call' = [call EXCEPT !.pc = "send", !.at = call.at + 1, !.nonce = nonce]
  BY <1>1, LatestType DEF Retry, NoNonce
<1>3. PICK k : k = call.at + 1
  OBVIOUS
<1>4. /\ k \in Tries /\ k = call.at + 1 /\ call.at \in Nat
      /\ call'.at = k /\ call'.pc = "send" /\ call'.nonce = nonce
      /\ call' \in [pc : CallAt, at : Tries \cup {0}, nonce : Nat,
                    status : {"NOT_STARTED", "SUCCESS", "FAILED"}, unanswered : BOOLEAN]
  <2>1. k \in Tries /\ k = call.at + 1 /\ call.at \in Nat
    BY <1>1, <1>3, TxAssumption DEF TypeOK, Tries
  <2>2. call' = [call EXCEPT !.pc = "send", !.at = k, !.nonce = nonce]
    BY <1>2, <1>3
  <2> QED
    BY <1>1, <2>1, <2>2 DEF TypeOK, CallAt
<1>5. TypeOK'
  BY <1>1, <1>4 DEF TypeOK, network
<1>6. ChainGrows /\ (\A j : Quiet(j)) /\ chain' = chain /\ wire' = wire /\ odd' = odd
  BY <1>1, <1>5, NetworkStays DEF network
<1>7. ChainOK'
  BY <1>1, <1>4, <1>6 DEF ChainOK
<1>8. ~OnChain(k) /\ ~OnWire(k)
  <2>1. \A i \in DOMAIN chain : Foreign(i) # k
    BY <1>1, <1>4, HashTypes, ChainType
  <2> QED
    BY <1>1, <1>4, <2>1 DEF ChainOK, WireOK, OnChain, OnWire, TypeOK, Tries
<1>9. WireOK'
  <2> SUFFICES ASSUME NEW request \in wire
               PROVE  /\ request[1] <= k
                      /\ request[1] # k
                      /\ "late" \in odd[request[1]]
                      /\ ~OnChain(request[1])'
                      /\ \A other \in wire : other[1] = request[1] => other[2] = request[2]
    BY <1>4, <1>6 DEF WireOK
  <2>1. request[1] \in Nat /\ request[1] <= call.at
    BY <1>1 DEF WireOK, TypeOK, Tries
  <2>2. ~OnChain(request[1])'
    BY <1>1, <1>6, QuietKeeps DEF WireOK
  <2> QED
    BY <1>1, <1>4, <2>1, <2>2 DEF WireOK
<1>10. CallOK'
  <2>1. ~OnChain(k)' /\ SentWith(k, nonce)'
    BY <1>6, <1>8 DEF SentWith, OnChain, OnWire
  <2> QED
    BY <1>4, <2>1 DEF CallOK
<1>11. ASSUME NEW j \in Tries PROVE RecordOK(j)'
  <2>1. Left(j)' <=> Left(j)
    BY <1>1, <1>4 DEF Left, Tries
  <2> QED
    BY <1>1, <1>5, <1>6, <2>1, RecordStays DEF RecoveryInv
<1>12. \A v \in Recoverers : EngineOK(rec[v])'
  BY <1>1, <1>5, <1>6, RecordsStay, EnginesStay DEF Keeps
<1>13. SuccessIsBacked'
  BY <1>1 DEF SuccessIsBacked
<1> QED
  BY <1>5, <1>7, <1>9, <1>10, <1>11, <1>12, <1>13 DEF RecoveryInv

\* The try being sent was never seen before: it is neither on the chain nor on
\* the wire and has no record.
LEMMA SendingIs ==
  ASSUME RecoveryInv, call.pc = "send"
  PROVE  /\ call.at \in Tries /\ ~OnChain(call.at) /\ ~OnWire(call.at)
         /\ ~Recorded(call.at) /\ SentWith(call.at, call.nonce)
<1>1. call.at \in Tries /\ ~OnChain(call.at) /\ SentWith(call.at, call.nonce)
  BY DEF RecoveryInv, CallOK
<1>2. ~OnWire(call.at)
  BY DEF RecoveryInv, WireOK, OnWire
<1>3. ~Left(call.at)
  BY <1>1 DEF Left, Tries
<1> QED
  BY <1>1, <1>2, <1>3 DEF RecoveryInv, RecordOK

\* The node takes the swap being sent, whether or not it answers.
LEMMA SwapAccepted ==
  ASSUME RecoveryInv, call.pc = "send", Usable, chain' = Accepted(call.at),
         UNCHANGED <<wire, records, row, rec, lease, odd>>,
         call' \in [pc : {"wait", "finally"}, at : {call.at}, nonce : {call.nonce},
                    status : {"NOT_STARTED", "SUCCESS", "FAILED"}, unanswered : BOOLEAN],
         call'.pc = "finally" => call'.status = "FAILED" /\ call'.unanswered = TRUE
  PROVE  RecoveryInv'
<1>1. TypeOK /\ ChainOK
  BY DEF RecoveryInv
<1>2. PICK k \in Tries : k = call.at
  BY SendingIs
<1>3. k \in Hashes \ {NoHash} /\ k \in Nat /\ k <= call.at
  BY <1>2, HashTypes
<1>4. call'.at = k /\ call'.nonce = call.nonce /\ call'.pc \in {"wait", "finally"}
  BY <1>2
<1>5. ~OnChain(k) /\ ~OnWire(k) /\ ~Recorded(k) /\ SentWith(k, call.nonce)
  BY <1>2, SendingIs
<1>6. chain' = Accepted(k) /\ chain' \in Seq(Tx)
  BY <1>1, <1>2, <1>3, AcceptIs
<1>7. TypeOK'
  BY <1>1, <1>6 DEF TypeOK, Tx, CallAt
<1>8. ChainGrows /\ ChainOK' /\ WireOK' /\ \A j \in Tries \ {k} : Quiet(j)
  <2>1. \A request \in wire' : request[1] # k
    BY <1>5 DEF OnWire
  <2> QED
    BY <1>2, <1>3, <1>4, <1>5, <1>6, <1>7, <2>1, TryAccepted
<1>9. CallOK'
  <2>1. \A i \in DOMAIN chain' : chain'[i].hash = k => i = PendingNonce
    <3>1. \A i \in DOMAIN chain : chain'[i].hash # k
      BY <1>1, <1>3, <1>5, <1>6, AcceptedAt DEF OnChain
    <3> QED
      BY <1>1, <1>3, <1>6, <3>1, AcceptedAt, LatestType
  <2>2. SentWith(k, call.nonce)'
    BY <1>4, <1>5, <2>1 DEF SentWith, OnWire, Usable
  <2> QED
    BY <1>4, <2>2 DEF CallOK
<1>10. ASSUME NEW j \in Tries PROVE RecordOK(j)'
  <2>1. CASE j # k
    <3>1. Left(j)' <=> Left(j)
      BY <1>2, <1>4, <2>1 DEF Left
    <3> QED
      BY <1>1, <1>7, <1>8, <2>1, <3>1, RecordStays DEF RecoveryInv
  <2>2. CASE j = k
    <3>1. ~Left(k)' /\ records'[k] = Unused
      BY <1>3, <1>4, <1>5 DEF Left, RecoveryInv, RecordOK
    <3> QED
      BY <1>5, <2>2, <3>1 DEF RecordOK, Recorded, Unused
  <2> QED
    BY <2>1, <2>2
<1> QED
  BY <1>2, <1>4, <1>7, <1>8, <1>9, <1>10, NetworkStep

LEMMA AnsweredStep ==
  ASSUME RecoveryInv, Answered
  PROVE  RecoveryInv'
<1>1. call' \in [pc : {"wait", "finally"}, at : {call.at}, nonce : {call.nonce},
                 status : {"NOT_STARTED", "SUCCESS", "FAILED"}, unanswered : BOOLEAN]
      /\ call'.pc = "wait"
  BY DEF RecoveryInv, TypeOK, Answered
<1> QED
  BY <1>1, SwapAccepted DEF Answered

LEMMA UnansweredStep ==
  ASSUME RecoveryInv, Unanswered
  PROVE  RecoveryInv'
<1>1. /\ call.pc = "send" /\ UNCHANGED <<records, row, rec, lease>> /\ TypeOK
      /\ call' = [call EXCEPT !.pc = "finally", !.status = "FAILED", !.unanswered = TRUE]
  BY DEF RecoveryInv, Unanswered
<1>2. /\ call' \in [pc : {"wait", "finally"}, at : {call.at}, nonce : {call.nonce},
                    status : {"NOT_STARTED", "SUCCESS", "FAILED"}, unanswered : BOOLEAN]
      /\ call'.status = "FAILED" /\ call'.unanswered = TRUE /\ call'.pc = "finally"
  BY <1>1 DEF TypeOK
<1>3. PICK k \in Tries : k = call.at
  BY <1>1, SendingIs
<1>4. call'.at = k /\ call'.nonce = call.nonce /\ call'.pc = "finally"
  BY <1>2, <1>3
<1>5. ~OnChain(k) /\ ~OnWire(k) /\ ~Recorded(k) /\ SentWith(k, call.nonce)
  BY <1>1, <1>3, SendingIs
<1>6. CASE Usable /\ chain' = Accepted(call.at) /\ UNCHANGED <<wire, odd>>
  BY <1>1, <1>2, <1>6, SwapAccepted
<1>7. CASE UNCHANGED <<network, odd>>
  <2>1. TypeOK'
    BY <1>1, <1>2, <1>7 DEF TypeOK, network, CallAt
  <2>2. ChainGrows /\ \A j : Quiet(j)
    BY <1>1, <1>7, <2>1, NetworkStays
  <2>3. CallOK'
    <3>1. SentWith(k, call.nonce)'
      BY <1>4, <1>5, <2>2, QuietKeeps DEF SentWith
    <3> QED
      BY <1>2, <1>4, <3>1 DEF CallOK
  <2>4. SuccessIsBacked'
    BY <1>1, <1>3, <1>4, <2>1, <2>2, RecordsStay, RowStays DEF RecoveryInv, Keeps
  <2> QED
    BY <1>1, <1>3, <1>4, <1>7, <2>1, <2>3, <2>4, CallMoves
<1>8. ASSUME NEW n \in Nat, call.nonce # NoNonce => n = call.nonce,
             wire' = wire \cup {<<k, n>>}, chain' = chain,
             odd' = [odd EXCEPT ![k] = @ \cup {"late"}]
      PROVE  RecoveryInv'
  <2>1. odd' \in [Tries -> SUBSET {"late", "unread"}]
    BY <1>1, <1>8 DEF TypeOK
  <2>2. /\ "late" \in odd'[k]
        /\ \A j \in Tries : odd[j] \subseteq odd'[j]
        /\ \A j \in Tries \ {k} : odd'[j] = odd[j]
    BY <1>1, <1>8 DEF TypeOK
  <2>3. TypeOK'
    BY <1>1, <1>2, <1>8, <2>1 DEF TypeOK, CallAt
  <2>4. \A request \in wire : request[1] \in Tries /\ request[1] # k
    BY <1>1, <1>5 DEF TypeOK, OnWire
  <2>5. ChainGrows /\ \A j \in Tries \ {k} : Quiet(j)
    BY <1>8 DEF ChainGrows, Quiet, Live, InState
  <2>6. ChainOK'
    BY <1>3, <1>4, <1>8 DEF RecoveryInv, ChainOK
  <2>7. WireOK'
    <3> SUFFICES ASSUME NEW request \in wire'
                 PROVE  /\ request[1] <= call'.at
                        /\ request[1] = call'.at => call'.pc \notin {"send", "wait"}
                        /\ "late" \in odd'[request[1]]
                        /\ ~OnChain(request[1])'
                        /\ \A other \in wire' : other[1] = request[1] => other[2] = request[2]
      BY DEF WireOK
    <3>1. CASE request \in wire
      <4>1. ~OnChain(request[1])'
        BY <2>4, <2>5, <3>1, QuietKeeps DEF RecoveryInv, WireOK
      <4> QED
        BY <1>3, <1>4, <1>8, <2>2, <2>4, <3>1, <4>1 DEF RecoveryInv, WireOK
    <3>2. CASE request = <<k, n>>
      <4>1. ~OnChain(k)'
        BY <1>5, <1>8 DEF OnChain
      <4>2. \A other \in wire' : other[1] = k => other[2] = n
        BY <1>8, <2>4
      <4> QED
        BY <1>4, <2>2, <3>2, <4>1, <4>2 DEF Tries
    <3> QED
      BY <1>8, <3>1, <3>2
  <2>8. CallOK'
    <3>1. SentWith(k, call.nonce)'
      BY <1>4, <1>5, <1>8, <2>4 DEF SentWith, OnChain
    <3> QED
      BY <1>2, <1>4, <3>1 DEF CallOK
  <2>9. ASSUME NEW j \in Tries PROVE RecordOK(j)'
    <3>1. CASE j # k
      <4>1. Left(j)' <=> Left(j)
        BY <1>3, <1>4, <3>1 DEF Left
      <4> QED
        BY <1>1, <2>2, <2>3, <2>5, <3>1, <4>1, RecordStays DEF RecoveryInv
    <3>2. CASE j = k
      <4>1. ~Left(k)' /\ records'[k] = Unused
        BY <1>1, <1>4, <1>5 DEF Left, RecoveryInv, RecordOK, Tries
      <4> QED
        BY <1>5, <3>2, <4>1 DEF RecordOK, Recorded, Unused
    <3> QED
      BY <3>1, <3>2
  <2> QED
    BY <1>1, <1>3, <1>4, <2>3, <2>5, <2>6, <2>7, <2>8, <2>9, NetworkStep
<1>9. CASE /\ wire' = wire \cup {<<call.at, IF call.nonce = NoNonce THEN PendingNonce ELSE call.nonce>>}
           /\ odd' = [odd EXCEPT ![call.at] = @ \cup {"late"}]
           /\ UNCHANGED chain
  <2>1. PICK n \in Nat : n = IF call.nonce = NoNonce THEN PendingNonce ELSE call.nonce
    BY <1>1, LatestType DEF TypeOK
  <2> QED
    BY <1>3, <1>8, <1>9, <2>1
<1> QED
  BY <1>6, <1>7, <1>9 DEF Unanswered

LEMMA RecordUncertainStep ==
  ASSUME RecoveryInv, RecordUncertain
  PROVE  RecoveryInv'
<1>1. /\ call.pc = "record" /\ call' = [call EXCEPT !.pc = "idle"]
      /\ UNCHANGED <<network, row, rec, lease, odd>>
      /\ TypeOK /\ CallOK /\ WireOK
  BY DEF RecoveryInv, RecordUncertain
<1>2. PICK k \in Tries : k = call.at
  BY <1>1 DEF CallOK
<1>3. PICK hash \in {NoHash, k} :
        records' = [records EXCEPT ![k] =
                      [state |-> "BROADCAST_UNCERTAIN", nonce |-> call.nonce, hash |-> hash]]
  BY <1>2 DEF RecordUncertain
<1>4. /\ call'.at = k /\ call'.pc = "idle" /\ call'.nonce = call.nonce
      /\ call' \in [pc : CallAt, at : Tries \cup {0}, nonce : Nat,
                    status : {"NOT_STARTED", "SUCCESS", "FAILED"}, unanswered : BOOLEAN]
  BY <1>1, <1>2 DEF TypeOK, CallAt
<1>5. PICK r : r = [state |-> "BROADCAST_UNCERTAIN", nonce |-> call.nonce, hash |-> hash]
  OBVIOUS
<1>6. /\ r \in TxRecord /\ r.state = "BROADCAST_UNCERTAIN" /\ r.nonce = call.nonce /\ r.hash = hash
      /\ records' = [records EXCEPT ![k] = r]
  <2>1. "BROADCAST_UNCERTAIN" \in TransactionStates /\ hash \in Hashes
    BY StatesAre, HashTypes, TxAssumption DEF Known, Uncertain, NoHash, Hashes
  <2> QED
    BY <1>1, <1>3, <1>5, <2>1 DEF TypeOK, TxRecord
<1>7. records' \in [Tries -> TxRecord] /\ records'[k] = r /\ \A j \in Tries \ {k} : records'[j] = records[j]
  BY <1>1, <1>6 DEF TypeOK
<1>8. TypeOK'
  BY <1>1, <1>4, <1>7 DEF TypeOK, network
<1>9. ChainGrows /\ (\A j : Quiet(j)) /\ chain' = chain /\ wire' = wire /\ odd' = odd
  BY <1>1, <1>8, NetworkStays DEF network
<1>10. ~Recorded(k)
  BY <1>1, <1>2 DEF RecoveryInv, RecordOK, Left, Tries
<1>11. Keeps
  BY <1>7, <1>9, <1>10 DEF Keeps, RecordKeeps, Recorded
<1>12. \A v \in Recoverers : EngineOK(rec[v])'
  BY <1>1, <1>8, <1>11, EnginesStay
<1>13. SuccessIsBacked'
  BY <1>1, <1>2, <1>4, <1>8, <1>11, RowStays DEF RecoveryInv
<1>14. ChainOK'
  BY <1>2, <1>4, <1>9 DEF RecoveryInv, ChainOK
<1>15. WireOK'
  BY <1>1, <1>2, <1>4, <1>8, <1>9, WireStays
<1>16. CallOK'
  BY <1>4 DEF CallOK
<1>17. ASSUME NEW j \in Tries PROVE RecordOK(j)'
  <2>1. CASE j # k
    <3>1. Left(j)' <=> Left(j)
      BY <1>1, <1>2, <1>4, <2>1 DEF Left
    <3> QED
      BY <1>1, <1>7, <1>8, <1>9, <2>1, <3>1, RecordStays DEF RecoveryInv
  <2>2. CASE j = k
    <3>1. Left(k)'
      BY <1>4 DEF Left
    <3>2. SentWith(k, r.nonce)'
      BY <1>1, <1>2, <1>6, <1>9 DEF CallOK, SentWith
    <3> QED
      BY <1>6, <1>7, <2>2, <3>1, <3>2 DEF RecordOK, Recorded, Uncertain
  <2> QED
    BY <2>1, <2>2
<1> QED
  BY <1>8, <1>12, <1>13, <1>14, <1>15, <1>16, <1>17 DEF RecoveryInv

(***************************************************************************)
(* Steps of a recovery engine.                                             *)
(***************************************************************************)
LEMMA RecoverMove ==
  ASSUME RecoveryInv, TypeOK', UNCHANGED <<network, call>>, Keeps,
         \A k \in Tries : odd[k] \subseteq odd'[k],
         NEW v \in Recoverers, NEW r \in EngineSet, rec' = [rec EXCEPT ![v] = r], EngineOK(r)',
         \A k \in Tries : records'[k] = records[k] \/ RecordOK(k)',
         SuccessIsBacked'
  PROVE  RecoveryInv'
<1>1. TypeOK /\ ChainGrows /\ (\A k : Quiet(k)) /\ chain' = chain /\ wire' = wire /\ call' = call
  BY NetworkStays DEF RecoveryInv, network
<1>2. ChainOK'
  BY <1>1 DEF RecoveryInv, ChainOK
<1>3. WireOK'
  BY <1>1, WireStays DEF RecoveryInv
<1>4. CallOK'
  BY <1>1, CallStays DEF RecoveryInv
<1>5. ASSUME NEW k \in Tries PROVE RecordOK(k)'
  <2>1. Left(k)' <=> Left(k)
    BY <1>1 DEF Left
  <2> QED
    BY <1>1, <2>1, RecordStays DEF RecoveryInv
<1>6. ASSUME NEW u \in Recoverers PROVE EngineOK(rec[u])'
  <2>1. CASE u = v
    <3>1. rec'[u] = r
      BY <1>1, <2>1 DEF TypeOK
    <3> QED
      BY <3>1 DEF EngineOK
  <2>2. CASE u # v
    <3>1. PICK q : q = rec[u]
      OBVIOUS
    <3>2. q \in EngineSet /\ EngineOK(q) /\ rec'[u] = q
      BY <1>1, <2>2, <3>1 DEF RecoveryInv, TypeOK, EngineSet
    <3>3. EngineOK(q)'
      BY <1>1, <3>2, EngineStays DEF RecoveryInv
    <3> QED
      BY <3>2, <3>3 DEF EngineOK
  <2> QED
    BY <2>1, <2>2
<1> QED
  BY <1>2, <1>3, <1>4, <1>5, <1>6 DEF RecoveryInv

LEMMA EngineIs ==
  ASSUME RecoveryInv, NEW v \in Recoverers
  PROVE  rec[v] \in EngineSet /\ EngineOK(rec[v])
BY DEF RecoveryInv, TypeOK, EngineSet

\* The engine moves on without a write.
LEMMA EngineTurns ==
  ASSUME RecoveryInv, UNCHANGED <<network, records, row, call, odd>>,
         lease' \in Recoverers \cup {NoWorker},
         NEW v \in Recoverers, NEW r \in EngineSet, rec' = [rec EXCEPT ![v] = r], EngineOK(r)
  PROVE  RecoveryInv'
<1>1. TypeOK'
  BY DEF RecoveryInv, TypeOK, network, EngineSet
<1>2. Keeps
  BY <1>1, NetworkStays, RecordsStay DEF Keeps, RecoveryInv
<1>3. EngineOK(r)'
  BY <1>1, <1>2, EngineStays DEF RecoveryInv
<1>4. SuccessIsBacked'
  BY <1>1, <1>2, RowStays DEF RecoveryInv
<1> QED
  BY <1>1, <1>2, <1>3, <1>4, RecoverMove

LEMMA IdleIs ==
  /\ Idle \in EngineSet /\ EngineOK(Idle)
  /\ Idle.pc = "idle" /\ Idle.todo = {} /\ Idle.at = 1 /\ Idle.copy = Unused
  /\ \A k \in Tries : Idle.copies[k] = Unused
<1>1. Unused \in TxRecord /\ Unused.hash = NoHash
  BY TxAssumption DEF Unused, TxRecord, NoHash, NoNonce, Hashes
<1>2. 1 \in Tries /\ NoHash \in Hashes
  BY TxAssumption DEF Tries, NoHash, Hashes
<1>3. Idle \in EngineSet
  BY <1>1, <1>2 DEF Idle, EngineSet, RecAt, Verdict
<1>4. EngineOK(Idle)
  BY <1>1 DEF EngineOK, Idle, Asking, KnownHash
<1> QED
  BY <1>3, <1>4 DEF Idle

\* Ends: recoverAll is over, or dead.
LEMMA EndStep ==
  ASSUME RecoveryInv, UNCHANGED <<network, records, row, call, odd>>,
         NEW v \in Recoverers, End(v) \/ (rec' = [rec EXCEPT ![v] = Idle] /\ UNCHANGED lease)
  PROVE  RecoveryInv'
<1>1. rec' = [rec EXCEPT ![v] = Idle] /\ lease' \in Recoverers \cup {NoWorker}
  BY DEF End, RecoveryInv, TypeOK
<1>2. PICK r : r = Idle
  OBVIOUS
<1> QED
  BY <1>1, <1>2, IdleIs, EngineTurns

LEMMA GotoStep ==
  ASSUME RecoveryInv, UNCHANGED <<network, records, row, call, odd, lease>>,
         NEW v \in Recoverers, rec[v].pc \in Asking, NEW pc \in Asking, Goto(v, pc)
  PROVE  RecoveryInv'
<1>1. PICK r : r = [rec[v] EXCEPT !.pc = pc]
  OBVIOUS
<1>2. r \in EngineSet /\ EngineOK(r)
  <2>1. rec[v] \in EngineSet /\ EngineOK(rec[v])
    BY EngineIs
  <2>2. r \in EngineSet
    BY <1>1, <2>1 DEF EngineSet, Asking, RecAt
  <2> QED
    BY <1>1, <2>1, <2>2 DEF EngineSet, EngineOK, Asking
<1>3. rec' = [rec EXCEPT ![v] = r] /\ lease' \in Recoverers \cup {NoWorker}
  BY <1>1 DEF Goto, RecoveryInv, TypeOK
<1> QED
  BY <1>2, <1>3, EngineTurns

LEMMA TreatedIs ==
  ASSUME RecoveryInv, NEW v \in Recoverers, NEW r, r = Treated(rec[v])
  PROVE  r \in EngineSet /\ EngineOK(r)
<1>1. rec[v] \in EngineSet /\ EngineOK(rec[v])
  BY EngineIs
<1>2. Idle \in EngineSet
  BY IdleIs
<1>3. /\ r.pc = "next" /\ r.todo = rec[v].todo \ {rec[v].at} /\ r.copies = rec[v].copies
      /\ r \in EngineSet
  BY <1>1, <1>2 DEF Treated, EngineSet, RecAt
<1> QED
  BY <1>1, <1>3 DEF EngineOK, Asking

\* The engine that Return leaves.
Returned(r) ==
  IF r.inPlan THEN [r EXCEPT !.pc = "after", !.copy = Unused, !.verdict = "NONE", !.hash = NoHash]
  ELSE Treated(r)

LEMMA ReturnIs ==
  ASSUME RecoveryInv, NEW v \in Recoverers, rec[v].pc \notin {"idle", "next", "read"},
         NEW r, r = Returned(rec[v])
  PROVE  r \in EngineSet /\ EngineOK(r) /\ (Return(v) <=> rec' = [rec EXCEPT ![v] = r])
<1>1. Return(v) <=> rec' = [rec EXCEPT ![v] = r]
  BY DEF Return, Returned
<1>2. rec[v] \in EngineSet /\ EngineOK(rec[v])
  BY EngineIs
<1>3. CASE rec[v].inPlan
  <2>1. Unused \in TxRecord /\ NoHash \in Hashes
    BY TxAssumption DEF Unused, TxRecord, NoHash, NoNonce, Hashes
  <2>2. r = [rec[v] EXCEPT !.pc = "after", !.copy = Unused, !.verdict = "NONE", !.hash = NoHash]
    BY <1>3 DEF Returned
  <2>3. /\ r \in EngineSet
        /\ r.pc = "after" /\ r.todo = rec[v].todo /\ r.copies = rec[v].copies /\ r.at = rec[v].at
    BY <1>2, <2>1, <2>2 DEF EngineSet, RecAt, Verdict
  <2> QED
    BY <1>1, <1>2, <2>3 DEF EngineOK, Asking
<1>4. CASE ~rec[v].inPlan
  <2>1. r = Treated(rec[v])
    BY <1>4 DEF Returned
  <2> QED
    BY <1>1, <2>1, TreatedIs
<1> QED
  BY <1>3, <1>4

LEMMA RecordedIs ==
  ASSUME RecoveryInv, NEW k \in Tries, Recorded(k)
  PROVE  /\ records[k] \in TxRecord /\ records[k].state \in Known
         /\ SentWith(k, records[k].nonce) /\ RecordOK(k)
BY DEF RecoveryInv, RecordOK, Recorded, Known, TypeOK

\* A write of record k by engine v that gives it the value q.
LEMMA RecordWritten ==
  ASSUME RecoveryInv, UNCHANGED <<network, row, call>>,
         lease' \in Recoverers \cup {NoWorker},
         odd' \in [Tries -> SUBSET {"late", "unread"}], \A k \in Tries : odd[k] \subseteq odd'[k],
         NEW k \in Tries, Recorded(k),
         NEW q \in TxRecord, records' = [records EXCEPT ![k] = q],
         q.state \in Known, q.nonce = records[k].nonce,
         records[k].state = "CONFIRMED" => q = records[k],
         q.state # "CONFIRMED" => q.hash = records[k].hash,
         q.state = "CONFIRMED" => Backs(k, q.hash),
         q.state = "REVERTED" => InState(q.hash, "reverted"),
         q.state = "BROADCAST_FAILED" /\ odd'[k] = {} => ~OnChain(k),
         NEW v \in Recoverers, NEW r \in EngineSet, rec' = [rec EXCEPT ![v] = r],
         EngineOK(r) \/ (TypeOK' /\ Keeps => EngineOK(r)')
  PROVE  RecoveryInv'
<1>1. records' \in [Tries -> TxRecord] /\ records'[k] = q /\ \A j \in Tries \ {k} : records'[j] = records[j]
  BY DEF RecoveryInv, TypeOK
<1>2. TypeOK'
  BY <1>1 DEF RecoveryInv, TypeOK, network, EngineSet
<1>3. /\ TypeOK /\ ChainGrows /\ (\A j : Quiet(j))
      /\ chain' = chain /\ wire' = wire /\ call' = call
  BY <1>2, NetworkStays DEF RecoveryInv, network
<1>4. q.state # "NONE"
  BY DEF Known, Uncertain
<1>5. Keeps
  BY <1>1, <1>3, <1>4 DEF Keeps, RecordKeeps, Recorded
<1>6. EngineOK(r)'
  BY <1>2, <1>3, <1>5, EngineStays DEF RecoveryInv
<1>7. RecordOK(k)'
  <2>1. RecordOK(k) /\ Left(k)' /\ SentWith(k, q.nonce)'
    BY <1>3, RecordedIs DEF RecordOK, Left, SentWith
  <2>2. Recorded(k)' /\ q.state \in {"NONE", "CONFIRMED", "REVERTED", "BROADCAST_FAILED"} \cup Uncertain
    BY <1>1, <1>4 DEF Recorded, Known
  <2>3. q.state # "CONFIRMED" => q.hash \in {NoHash, k}
    BY <2>1 DEF RecordOK
  <2>4. q.state = "CONFIRMED" => Backs(k, q.hash)'
    BY <1>1, <1>2, <1>3, BacksStays
  <2>5. q.state = "REVERTED" => InState(q.hash, "reverted")'
    BY <1>2, <1>3, InStateStays
  <2>6. q.state = "BROADCAST_FAILED" /\ odd'[k] = {} => ~OnChain(k)'
    BY <1>3, QuietKeeps
  <2> QED
    BY <1>1, <2>1, <2>2, <2>3, <2>4, <2>5, <2>6 DEF RecordOK
<1>8. SuccessIsBacked'
  BY <1>2, <1>3, <1>5, RowStays DEF RecoveryInv
<1> QED
  BY <1>1, <1>2, <1>5, <1>6, <1>7, <1>8, RecoverMove

\* updateTransaction of the engine's record, and what the engine does then.
LEMMA StateWritten ==
  ASSUME RecoveryInv, UNCHANGED <<network, row, call>>,
         lease' \in Recoverers \cup {NoWorker},
         odd' \in [Tries -> SUBSET {"late", "unread"}], \A k \in Tries : odd[k] \subseteq odd'[k],
         NEW v \in Recoverers, rec[v].pc \in Asking,
         NEW state \in {"RECOVERY_REQUIRED", "BROADCAST_FAILED"},
         Writable(v, state), Write(v, state), Return(v),
         state = "BROADCAST_FAILED" /\ odd'[rec[v].at] = {} => ~OnChain(rec[v].at)
  PROVE  RecoveryInv'
<1>1. rec[v] \in EngineSet /\ EngineOK(rec[v])
  BY EngineIs
<1>2. PICK k \in Tries : k = rec[v].at
  BY <1>1 DEF EngineSet
<1>3. Recorded(k)
  BY <1>1, <1>2 DEF EngineOK, Asking
<1>4. PICK q : q = [records[k] EXCEPT !.state = state]
  OBVIOUS
<1>5. state \in Known /\ state \in TransactionStates
  BY StatesAre DEF Known, Uncertain
<1>6. /\ q \in TxRecord /\ q.state = state /\ q.nonce = records[k].nonce /\ q.hash = records[k].hash
      /\ records' = [records EXCEPT ![k] = q]
  BY <1>2, <1>3, <1>4, <1>5, RecordedIs DEF Write, TxRecord
<1>7. records[k].state # "CONFIRMED"
  <2>1. ValidTransaction(records[k].state, state)
    BY <1>2 DEF Writable
  <2> QED
    BY <1>3, <1>5, <2>1, RecordedIs, OnlyUncertainChanges DEF Uncertain
<1>8. PICK r : r = Returned(rec[v])
  OBVIOUS
<1>9. r \in EngineSet /\ EngineOK(r) /\ rec' = [rec EXCEPT ![v] = r]
  BY <1>8, ReturnIs DEF Asking
<1> QED
  BY <1>2, <1>3, <1>5, <1>6, <1>7, <1>9, RecordWritten

\* The verdict of a transaction that recovery takes for the engine's record.
LEMMA JudgeStep ==
  ASSUME RecoveryInv, UNCHANGED <<network, row, call, odd>>,
         NEW v \in Recoverers, NEW k \in Tries, k = rec[v].at, Recorded(k),
         NEW state \in {"CONFIRMED", "REVERTED"}, NEW hash \in Hashes, NEW newHash \in Hashes,
         NEW then \in {"row", "afterRow"},
         state = "CONFIRMED" =>
           Backs(k, hash) /\ newHash = IF records[k].state = "CONFIRMED" THEN records[k].hash ELSE hash,
         state = "REVERTED" =>
           /\ newHash = records[k].hash
           /\ records[k].state # "CONFIRMED" => InState(records[k].hash, "reverted"),
         Judge(v, state, hash, newHash, then)
  PROVE  RecoveryInv'
<1>1. rec[v] \in EngineSet /\ EngineOK(rec[v])
  BY EngineIs
<1>2. CASE ~Writable(v, state) /\ End(v) /\ UNCHANGED records
  BY <1>2, EndStep
<1>3. CASE /\ Writable(v, state)
           /\ records' = [records EXCEPT ![rec[v].at].state = state, ![rec[v].at].hash = newHash]
           /\ rec' = [rec EXCEPT ![v].pc = then, ![v].verdict = state, ![v].hash = hash]
           /\ UNCHANGED lease
  <2>1. PICK q : q = [records[k] EXCEPT !.state = state, !.hash = newHash]
    OBVIOUS
  <2>2. state \in Known /\ state \in TransactionStates
    BY StatesAre DEF Known
  <2>3. /\ q \in TxRecord /\ q.state = state /\ q.nonce = records[k].nonce /\ q.hash = newHash
        /\ records' = [records EXCEPT ![k] = q]
    BY <1>3, <2>1, <2>2, RecordedIs DEF TxRecord
  <2>4. records[k].state = "CONFIRMED" => state = "CONFIRMED"
    <3>1. ValidTransaction(records[k].state, state)
      BY <1>3 DEF Writable
    <3> QED
      BY <2>2, <3>1, RecordedIs, OnlyUncertainChanges DEF Uncertain
  <2>5. records[k].state = "CONFIRMED" => q = records[k]
    BY <2>1, <2>4, RecordedIs DEF TxRecord
  <2>6. q.state = "CONFIRMED" => Backs(k, q.hash)
    BY <2>3, <2>4, RecordedIs DEF RecordOK
  <2>7. q.state = "REVERTED" => InState(q.hash, "reverted")
    BY <2>3, <2>4
  <2>8. PICK r : r = [rec[v] EXCEPT !.pc = then, !.verdict = state, !.hash = hash]
    OBVIOUS
  <2>9. /\ r \in EngineSet /\ r.pc = then /\ r.verdict = state /\ r.hash = hash
        /\ r.todo = rec[v].todo /\ r.at = k /\ r.copies = rec[v].copies
        /\ rec' = [rec EXCEPT ![v] = r]
    BY <1>1, <1>3, <2>8 DEF EngineSet, RecAt, Verdict
  <2>10. TypeOK' /\ Keeps => EngineOK(r)'
    <3> SUFFICES ASSUME TypeOK', Keeps PROVE EngineOK(r)'
      OBVIOUS
    <3>1. (\A j \in r.todo : Recorded(j)') /\ Recorded(r.at)'
      BY <1>1, <2>9 DEF EngineOK, EngineSet, Keeps, RecordKeeps
    <3>2. \A j \in Tries : KnownHash(j, r.copies[j].hash)'
      BY <1>1, <2>9, KnownHashStays DEF EngineOK, Keeps, RecoveryInv
    <3>3. r.verdict = "CONFIRMED" => records'[k].state = "CONFIRMED" /\ Backs(k, r.hash)'
      <4>1. records'[k] = q
        BY <2>3 DEF RecoveryInv, TypeOK
      <4> QED
        BY <2>3, <2>9, <4>1, BacksStays DEF Keeps, RecoveryInv
    <3> QED
      BY <2>9, <3>1, <3>2, <3>3 DEF EngineOK, Asking
  <2>11. /\ lease' \in Recoverers \cup {NoWorker}
         /\ odd' \in [Tries -> SUBSET {"late", "unread"}] /\ \A j \in Tries : odd[j] \subseteq odd'[j]
    BY <1>3 DEF RecoveryInv, TypeOK
  <2> QED
    BY <2>2, <2>3, <2>5, <2>6, <2>7, <2>9, <2>10, <2>11, RecordWritten
<1> QED
  BY <1>2, <1>3 DEF Judge

\* What the chain says of a hash the engine knows counts for its record.
LEMMA HashJudged ==
  ASSUME RecoveryInv, UNCHANGED <<network, row, call, odd>>,
         NEW v \in Recoverers, NEW k \in Tries, k = rec[v].at, Recorded(k),
         NEW hash \in Hashes, KnownHash(k, hash), NEW then \in {"row", "afterRow"},
         ChainVerdict(hash) # "NONE",
         Judge(v, ChainVerdict(hash), hash, records[rec[v].at].hash, then)
  PROVE  RecoveryInv'
<1>1. PICK state : state = ChainVerdict(hash)
  OBVIOUS
<1>2. /\ state \in {"CONFIRMED", "REVERTED"}
      /\ state = "CONFIRMED" => InState(hash, "mined")
      /\ state = "REVERTED" => InState(hash, "reverted")
  BY <1>1 DEF ChainVerdict
<1>3. hash # NoHash
  BY <1>2, InStateIs, ChainType DEF RecoveryInv
<1>4. hash = records[k].hash \/ (records[k].state = "CONFIRMED" /\ hash = k)
  BY <1>3 DEF KnownHash
<1>5. RecordOK(k) /\ records[k].hash \in Hashes
  BY RecordedIs DEF TxRecord
<1>6. state = "CONFIRMED" => Backs(k, hash)
  <2>1. CASE hash = k
    BY <1>2, <2>1 DEF Backs
  <2>2. CASE hash # k
    BY <1>3, <1>4, <1>5, <2>2 DEF RecordOK
  <2> QED
    BY <2>1, <2>2
<1>7. state = "CONFIRMED" => records[k].hash = IF records[k].state = "CONFIRMED" THEN records[k].hash ELSE hash
  BY <1>4
<1>8. state = "REVERTED" /\ records[k].state # "CONFIRMED" => InState(records[k].hash, "reverted")
  BY <1>2, <1>4
<1> QED
  BY <1>1, <1>2, <1>5, <1>6, <1>7, <1>8, JudgeStep

LEMMA QueryReceiptStep ==
  ASSUME RecoveryInv, NEW v \in Recoverers, QueryReceipt(v)
  PROVE  RecoveryInv'
<1>1. rec[v] \in EngineSet /\ EngineOK(rec[v]) /\ rec[v].pc = "receipt"
  BY EngineIs DEF QueryReceipt
<1>2. PICK k \in Tries, hash \in Hashes : k = rec[v].at /\ hash = rec[v].copy.hash
  BY <1>1 DEF EngineSet, TxRecord
<1>3. Recorded(k) /\ KnownHash(k, hash)
  BY <1>1, <1>2 DEF EngineOK, Asking
<1>4. CASE ChainVerdict(hash) # "NONE" /\ Judge(v, ChainVerdict(hash), hash, records[rec[v].at].hash, "row")
  BY <1>2, <1>3, <1>4, HashJudged DEF QueryReceipt
<1>5. CASE Goto(v, "discover") /\ UNCHANGED <<records, lease>>
  BY <1>1, <1>5, GotoStep DEF QueryReceipt, Asking
<1> QED
  BY <1>2, <1>4, <1>5 DEF QueryReceipt

LEMMA QueryCopyStep ==
  ASSUME RecoveryInv, NEW v \in Recoverers, QueryCopy(v)
  PROVE  RecoveryInv'
<1>1. rec[v] \in EngineSet /\ EngineOK(rec[v]) /\ rec[v].pc = "after"
  BY EngineIs DEF QueryCopy
<1>2. PICK k \in Tries, hash \in Hashes : k = rec[v].at /\ hash = rec[v].copies[rec[v].at].hash
  BY <1>1 DEF EngineSet, TxRecord
<1>3. Recorded(k) /\ KnownHash(k, hash)
  BY <1>1, <1>2 DEF EngineOK
<1>4. CASE ChainVerdict(hash) # "NONE" /\ Judge(v, ChainVerdict(hash), hash, records[rec[v].at].hash, "afterRow")
  BY <1>2, <1>3, <1>4, HashJudged DEF QueryCopy
<1>5. CASE rec' = [rec EXCEPT ![v] = Treated(rec[v])] /\ UNCHANGED <<records, lease>>
  <2>1. PICK r : r = Treated(rec[v])
    OBVIOUS
  <2>2. lease' \in Recoverers \cup {NoWorker} /\ UNCHANGED <<network, records, row, call, odd>>
    BY <1>5 DEF RecoveryInv, TypeOK, QueryCopy
  <2> QED
    BY <1>5, <2>1, <2>2, TreatedIs, EngineTurns
<1> QED
  BY <1>2, <1>4, <1>5 DEF QueryCopy

LEMMA DiscoverStep ==
  ASSUME RecoveryInv, NEW v \in Recoverers, Discover(v)
  PROVE  RecoveryInv'
<1>1. rec[v] \in EngineSet /\ EngineOK(rec[v]) /\ rec[v].pc = "discover"
  BY EngineIs DEF Discover
<1>2. PICK k \in Tries, n \in Nat : k = rec[v].at /\ n = rec[v].copy.nonce
  BY <1>1 DEF EngineSet, TxRecord
<1>3. Recorded(k) /\ n = records[k].nonce
  BY <1>1, <1>2 DEF EngineOK, Asking
<1>4. PICK hash : hash = Discovered(v)
  OBVIOUS
<1>5. CASE InState(hash, "mined") /\ Judge(v, "CONFIRMED", hash, hash, "row")
  <2>1. hash # NoHash /\ hash \in Hashes
    BY <1>5, InStateIs, ChainType DEF RecoveryInv
  <2>2. n # NoNonce /\ LatestNonce > n /\ hash = chain[n].hash
    BY <1>2, <1>4, <2>1 DEF Discovered
  <2>3. n \in DOMAIN chain
    BY <2>2, LatestType, ChainType DEF RecoveryInv, NoNonce
  <2>4. Backs(k, hash)
    BY <1>3, <1>5, <2>2, <2>3 DEF Backs
  <2>5. records[k].state = "CONFIRMED" => hash = records[k].hash
    BY <1>3, <2>4, RecordedIs, BacksOne DEF RecoveryInv, RecordOK
  <2> QED
    BY <1>2, <1>3, <1>5, <2>1, <2>4, <2>5, JudgeStep DEF Discover
<1>6. CASE Goto(v, "latest") /\ UNCHANGED <<records, lease>>
  BY <1>1, <1>6, GotoStep DEF Discover, Asking
<1> QED
  BY <1>4, <1>5, <1>6 DEF Discover

\* The row gets a success only from a record that is CONFIRMED.
LEMMA WriteRowStep ==
  ASSUME RecoveryInv, NEW v \in Recoverers, WriteRow(v)
  PROVE  RecoveryInv'
<1>1. rec[v] \in EngineSet /\ EngineOK(rec[v]) /\ rec[v].pc \in {"row", "afterRow"}
  BY EngineIs DEF WriteRow
<1>2. PICK k \in Tries, hash \in Hashes, status \in {"SUCCESS", "FAILED"} :
        k = rec[v].at /\ hash = rec[v].hash /\ status = RowStatus(rec[v].verdict)
  BY <1>1 DEF EngineSet, RowStatus
<1>3. UNCHANGED <<network, records, call, odd>>
  BY DEF WriteRow
<1>4. CASE End(v) /\ UNCHANGED row
  BY <1>3, <1>4, EndStep
<1>5. CASE /\ row' = [status |-> status, hash |-> IF status = "SUCCESS" THEN hash ELSE row.hash]
           /\ IF rec[v].pc = "row" THEN Return(v) ELSE rec' = [rec EXCEPT ![v] = Treated(rec[v])]
           /\ UNCHANGED lease
  <2>1. PICK r : r = IF rec[v].pc = "row" THEN Returned(rec[v]) ELSE Treated(rec[v])
    OBVIOUS
  <2>2. r \in EngineSet /\ EngineOK(r) /\ rec' = [rec EXCEPT ![v] = r]
    BY <1>1, <1>5, <2>1, ReturnIs, TreatedIs
  <2>3. row' \in [status : {"NOT_STARTED", "SUCCESS", "FAILED"}, hash : Hashes]
    BY <1>5 DEF RecoveryInv, TypeOK
  <2>4. TypeOK'
    BY <1>3, <1>5, <2>2, <2>3 DEF RecoveryInv, TypeOK, network, EngineSet
  <2>5. Keeps
    BY <1>3, <2>4, NetworkStays, RecordsStay DEF Keeps, RecoveryInv
  <2>6. EngineOK(r)'
    BY <2>2, <2>4, <2>5, EngineStays DEF RecoveryInv
  <2>7. SuccessIsBacked'
    <3>1. CASE status = "FAILED"
      BY <1>5, <3>1 DEF SuccessIsBacked
    <3>2. CASE status = "SUCCESS"
      <4>1. rec[v].verdict = "CONFIRMED"
        BY <1>2, <3>2 DEF RowStatus
      <4>2. records[k].state = "CONFIRMED" /\ Backs(k, hash)
        BY <1>1, <1>2, <4>1 DEF EngineOK
      <4>3. Recorded(k) /\ Backs(k, records[k].hash)
        BY <4>2 DEF RecoveryInv, RecordOK, Recorded
      <4>4. hash = records[k].hash
        BY <4>2, <4>3, RecordedIs, BacksOne DEF RecoveryInv
      <4>5. InState(hash, "mined")'
        BY <2>4, <2>5, <4>2, InStateStays DEF Backs, Keeps, RecoveryInv
      <4>6. row'.hash = hash /\ records'[k].state = "CONFIRMED" /\ hash = records'[k].hash
        BY <1>3, <1>5, <3>2, <4>2, <4>4
      <4> QED
        BY <4>5, <4>6 DEF SuccessIsBacked
    <3> QED
      BY <3>1, <3>2
  <2> QED
    BY <1>3, <2>2, <2>4, <2>5, <2>6, <2>7, RecoverMove
<1> QED
  BY <1>2, <1>4, <1>5 DEF WriteRow

LEMMA ReadLatestStep ==
  ASSUME RecoveryInv, NEW v \in Recoverers, ReadLatest(v)
  PROVE  RecoveryInv'
<1>1. rec[v].pc \in Asking /\ UNCHANGED <<network, row, call, lease, odd>>
  BY DEF ReadLatest, Asking
<1>2. CASE Writable(v, "RECOVERY_REQUIRED") /\ Write(v, "RECOVERY_REQUIRED") /\ Return(v)
  <2>1. /\ lease' \in Recoverers \cup {NoWorker}
        /\ odd' \in [Tries -> SUBSET {"late", "unread"}] /\ \A j \in Tries : odd[j] \subseteq odd'[j]
    BY <1>1 DEF RecoveryInv, TypeOK
  <2> QED
    BY <1>1, <1>2, <2>1, StateWritten
<1>3. CASE (Goto(v, "pending") \/ Goto(v, "fallback")) /\ UNCHANGED records
  BY <1>1, <1>3, GotoStep DEF Asking
<1> QED
  BY <1>2, <1>3 DEF ReadLatest

\* Only a pending count that was read and equals the nonce of the record calls
\* a try failed without leaving a trace: then no transaction has that nonce.
LEMMA ReadPendingStep ==
  ASSUME RecoveryInv, NEW v \in Recoverers, ReadPending(v)
  PROVE  RecoveryInv'
<1>1. rec[v].pc = "pending" /\ UNCHANGED <<network, row, call, lease>>
  BY DEF ReadPending
<1>2. rec[v] \in EngineSet /\ EngineOK(rec[v])
  BY EngineIs
<1>3. PICK k \in Tries : k = rec[v].at
  BY <1>2 DEF EngineSet
<1>4. Recorded(k) /\ rec[v].copy.nonce = records[k].nonce
  BY <1>1, <1>2, <1>3 DEF EngineOK, Asking
<1>5. PICK unread \in BOOLEAN :
        LET unseen == unread \/ PendingNonce = rec[v].copy.nonce
        IN \/ /\ unseen /\ Writable(v, "BROADCAST_FAILED")
              /\ Write(v, "BROADCAST_FAILED")
              /\ Return(v)
              /\ odd' = [odd EXCEPT ![rec[v].at] = IF unread THEN @ \cup {"unread"} ELSE @]
           \/ /\ ~unseen \/ ~Writable(v, "BROADCAST_FAILED")
              /\ Goto(v, "fallback")
              /\ UNCHANGED <<records, odd>>
  BY DEF ReadPending
<1>6. CASE /\ unread \/ PendingNonce = records[k].nonce
           /\ Writable(v, "BROADCAST_FAILED") /\ Write(v, "BROADCAST_FAILED") /\ Return(v)
           /\ odd' = [odd EXCEPT ![k] = IF unread THEN @ \cup {"unread"} ELSE @]
  <2>1. /\ lease' \in Recoverers \cup {NoWorker}
        /\ odd' \in [Tries -> SUBSET {"late", "unread"}] /\ \A j \in Tries : odd[j] \subseteq odd'[j]
        /\ unread => odd'[k] # {}
    BY <1>1, <1>6 DEF RecoveryInv, TypeOK
  <2>2. odd'[k] = {} => ~OnChain(k)
    <3> SUFFICES ASSUME ~unread PROVE ~OnChain(k)
      BY <2>1
    <3>1. records[k].nonce = Len(chain) + 1 /\ records[k].nonce # NoNonce
      BY <1>6, LatestType, ChainType DEF RecoveryInv, NoNonce
    <3>2. \A i \in DOMAIN chain : i # Len(chain) + 1
      BY ChainType DEF RecoveryInv
    <3> QED
      BY <1>4, <3>1, <3>2, RecordedIs DEF SentWith, OnChain
  <2> QED
    BY <1>1, <1>3, <1>6, <2>1, <2>2, StateWritten DEF Asking
<1>7. CASE Goto(v, "fallback") /\ UNCHANGED <<records, odd>>
  BY <1>1, <1>7, GotoStep DEF Asking
<1> QED
  BY <1>3, <1>4, <1>5, <1>6, <1>7

LEMMA FallbackStep ==
  ASSUME RecoveryInv, NEW v \in Recoverers, Fallback(v)
  PROVE  RecoveryInv'
<1>1. rec[v].pc \in Asking /\ UNCHANGED <<network, row, call, odd>>
  BY DEF Fallback, Asking
<1>2. CASE /\ Writable(v, "RECOVERY_REQUIRED") /\ Write(v, "RECOVERY_REQUIRED") /\ Return(v)
           /\ UNCHANGED lease
  <2>1. /\ lease' \in Recoverers \cup {NoWorker}
        /\ odd' \in [Tries -> SUBSET {"late", "unread"}] /\ \A j \in Tries : odd[j] \subseteq odd'[j]
    BY <1>1, <1>2 DEF RecoveryInv, TypeOK
  <2> QED
    BY <1>1, <1>2, <2>1, StateWritten
<1>3. CASE End(v) /\ UNCHANGED records
  BY <1>1, <1>3, EndStep
<1> QED
  BY <1>2, <1>3 DEF Fallback

LEMMA BeginStep ==
  ASSUME RecoveryInv, NEW v \in Recoverers, Begin(v)
  PROVE  RecoveryInv'
<1>1. PICK r : r = [Idle EXCEPT !.pc = "next", !.todo = {k \in Tries : records[k].state \in Uncertain}]
  OBVIOUS
<1>2. rec' = [rec EXCEPT ![v] = r]
  BY <1>1 DEF Begin
<1>3. /\ r \in EngineSet /\ r.pc = "next" /\ r.todo = {k \in Tries : records[k].state \in Uncertain}
      /\ \A k \in Tries : r.copies[k] = Unused
  BY <1>1, IdleIs DEF EngineSet, RecAt
<1>4. EngineOK(r)
  BY <1>3 DEF EngineOK, Asking, Recorded, Uncertain, KnownHash, Unused
<1>5. lease' \in Recoverers \cup {NoWorker} /\ UNCHANGED <<network, records, row, call, odd>>
  BY DEF Begin, RecoveryInv, TypeOK
<1> QED
  BY <1>2, <1>3, <1>4, <1>5, EngineTurns

LEMMA NextRecordStep ==
  ASSUME RecoveryInv, NEW v \in Recoverers, NextRecord(v)
  PROVE  RecoveryInv'
<1>1. /\ rec[v] \in EngineSet /\ EngineOK(rec[v]) /\ rec[v].todo # {}
      /\ UNCHANGED <<network, records, row, call, lease, odd>>
  BY EngineIs DEF NextRecord
<1>2. PICK k : k = Min(rec[v].todo)
  OBVIOUS
<1>3. k \in Tries /\ Recorded(k)
  <2>1. rec[v].todo \subseteq Tries /\ rec[v].todo \subseteq Nat
    BY <1>1 DEF EngineSet, Tries
  <2>2. k \in rec[v].todo
    BY <1>1, <1>2, <2>1, MinIsIn
  <2> QED
    BY <1>1, <2>1, <2>2 DEF EngineOK
<1>4. PICK pc \in {"after", "receipt", "discover"}, copy \in TxRecord :
        /\ rec' = [rec EXCEPT ![v].at = k, ![v].copy = copy, ![v].pc = pc]
        /\ pc \in Asking => copy = records[k]
  <2> DEFINE inner == ~rec[v].inPlan \/ rec[v].copies[k].state = "BROADCAST_UNCERTAIN"
  <2>1. PICK copy, pc :
          /\ copy = IF inner THEN records[k] ELSE rec[v].copy
          /\ pc = IF ~inner THEN "after"
                  ELSE IF records[k].hash # NoHash THEN "receipt"
                  ELSE "discover"
    OBVIOUS
  <2>2. rec' = [rec EXCEPT ![v].at = k, ![v].copy = copy, ![v].pc = pc]
    BY <1>2, <2>1 DEF NextRecord
  <2>3. records[k] \in TxRecord /\ rec[v].copy \in TxRecord
    BY <1>1, <1>3 DEF RecoveryInv, TypeOK, EngineSet
  <2>4. pc \in {"after", "receipt", "discover"} /\ copy \in TxRecord
    BY <2>1, <2>3
  <2>5. pc \in Asking => copy = records[k]
    BY <2>1 DEF Asking
  <2> QED
    BY <2>2, <2>4, <2>5
<1>5. PICK r : r = [rec[v] EXCEPT !.at = k, !.copy = copy, !.pc = pc]
  OBVIOUS
<1>6. /\ r \in EngineSet /\ r.pc = pc /\ r.at = k /\ r.copy = copy
      /\ r.todo = rec[v].todo /\ r.copies = rec[v].copies
      /\ rec' = [rec EXCEPT ![v] = r]
  BY <1>1, <1>3, <1>4, <1>5 DEF EngineSet, RecAt
<1>7. EngineOK(r)
  <2>1. pc \in Asking => copy.nonce = records[k].nonce /\ KnownHash(k, copy.hash)
    BY <1>3, <1>4 DEF KnownHash
  <2> QED
    BY <1>1, <1>3, <1>6, <2>1 DEF EngineOK
<1>8. lease' \in Recoverers \cup {NoWorker}
  BY <1>1 DEF RecoveryInv, TypeOK
<1> QED
  BY <1>1, <1>6, <1>7, <1>8, EngineTurns

LEMMA StartPlanStep ==
  ASSUME RecoveryInv, NEW v \in Recoverers, StartPlan(v)
  PROVE  RecoveryInv'
<1>1. /\ rec[v] \in EngineSet /\ EngineOK(rec[v])
      /\ UNCHANGED <<network, records, row, call, odd>>
  BY EngineIs DEF StartPlan
<1>2. CASE End(v)
  BY <1>1, <1>2, EndStep
<1>3. CASE lease' = v /\ rec' = [rec EXCEPT ![v].pc = "read", ![v].inPlan = TRUE]
  <2>1. PICK r : r = [rec[v] EXCEPT !.pc = "read", !.inPlan = TRUE]
    OBVIOUS
  <2>2. /\ r \in EngineSet /\ r.pc = "read" /\ r.todo = rec[v].todo /\ r.copies = rec[v].copies
        /\ rec' = [rec EXCEPT ![v] = r]
    BY <1>1, <1>3, <2>1 DEF EngineSet, RecAt
  <2>3. EngineOK(r)
    BY <1>1, <2>2 DEF EngineOK, Asking
  <2> QED
    BY <1>1, <1>3, <2>2, <2>3, EngineTurns
<1> QED
  BY <1>2, <1>3 DEF StartPlan

LEMMA ReadPlanStep ==
  ASSUME RecoveryInv, NEW v \in Recoverers, ReadPlan(v)
  PROVE  RecoveryInv'
<1>1. /\ rec[v] \in EngineSet /\ EngineOK(rec[v])
      /\ UNCHANGED <<network, records, row, call, lease, odd>>
  BY EngineIs DEF ReadPlan
<1>2. PICK todo \in SUBSET Tries :
        /\ todo \subseteq {k \in Tries : records[k] # Unused}
        /\ rec' = [rec EXCEPT ![v].pc = "next", ![v].copies = records, ![v].todo = todo]
  BY DEF ReadPlan
<1>3. PICK copies : copies = records
  OBVIOUS
<1>4. PICK r : r = [rec[v] EXCEPT !.pc = "next", !.copies = copies, !.todo = todo]
  OBVIOUS
<1>5. /\ r \in EngineSet /\ r.pc = "next" /\ r.todo = todo /\ r.copies = records
      /\ rec' = [rec EXCEPT ![v] = r]
  BY <1>1, <1>2, <1>3, <1>4 DEF EngineSet, RecAt, RecoveryInv, TypeOK
<1>6. \A k \in Tries : records[k] # Unused => Recorded(k)
  BY DEF RecoveryInv, RecordOK
<1>7. \A k \in Tries : KnownHash(k, records[k].hash)
  BY <1>6 DEF KnownHash, Unused
<1>8. EngineOK(r)
  BY <1>2, <1>5, <1>6, <1>7 DEF EngineOK, Asking
<1>9. lease' \in Recoverers \cup {NoWorker}
  BY <1>1 DEF RecoveryInv, TypeOK
<1> QED
  BY <1>1, <1>5, <1>8, <1>9, EngineTurns

(***************************************************************************)
(* The invariant holds.                                                    *)
(***************************************************************************)
LEMMA RecoveryInit == Init => RecoveryInv
<1> SUFFICES ASSUME Init PROVE RecoveryInv
  OBVIOUS
<1>1. Unused \in TxRecord /\ NoHash \in Hashes /\ 0 \in Nat
  BY TxAssumption DEF Unused, TxRecord, NoHash, NoNonce, Hashes
<1>2. rec \in [Recoverers -> EngineSet]
  BY IdleIs DEF Init
<1>3. TypeOK
  BY <1>1, <1>2 DEF Init, TypeOK, EngineSet, CallAt, NoHash, NoNonce
<1>4. DOMAIN chain = {}
  BY DEF Init
<1>5. ChainOK /\ WireOK /\ CallOK
  BY <1>4 DEF Init, ChainOK, WireOK, CallOK
<1>6. ASSUME NEW k \in Tries PROVE RecordOK(k)
  BY <1>4, <1>6 DEF Init, RecordOK, Recorded, Unused, Left, Tries
<1>7. ASSUME NEW v \in Recoverers PROVE EngineOK(rec[v])
  BY IdleIs DEF Init
<1>8. SuccessIsBacked
  BY DEF Init, SuccessIsBacked
<1> QED
  BY <1>3, <1>5, <1>6, <1>7, <1>8 DEF RecoveryInv

LEMMA RecoveryStep == RecoveryInv /\ [Next]_vars => RecoveryInv'
<1> SUFFICES ASSUME RecoveryInv, [Next]_vars PROVE RecoveryInv'
  OBVIOUS
<1>1. CASE Mine \/ Wallet \/ Arrive \/ Retry
  BY <1>1, MineStep, WalletStep, ArriveStep, RetryStep
<1>2. CASE CallStep
  BY <1>2, AnsweredStep, NotSentStep, UnansweredStep, SwapReceiptStep, FinallyStep, RecordUncertainStep
     DEF CallStep
<1>3. CASE Lapse \/ UNCHANGED vars
  <2>1. lease' \in Recoverers \cup {NoWorker} /\ UNCHANGED <<network, records, row, call, rec, odd>>
    BY <1>3 DEF Lapse, vars, network, RecoveryInv, TypeOK
  <2>2. TypeOK'
    BY <2>1 DEF RecoveryInv, TypeOK, network
  <2> QED
    BY <2>1, <2>2 DEF RecoveryInv, ChainOK, WireOK, CallOK, RecordOK, EngineOK, SuccessIsBacked, network,
       SentWith, OnChain, OnWire, Dead, Live, InState, Left, Recorded, Backs, KnownHash
<1>4. ASSUME NEW v \in Recoverers, Begin(v) \/ RecoverStep(v) \/ Crash(v)
      PROVE  RecoveryInv'
  <2>1. CASE Begin(v) \/ NextRecord(v) \/ QueryReceipt(v) \/ Discover(v) \/ WriteRow(v)
    BY <2>1, BeginStep, NextRecordStep, QueryReceiptStep, DiscoverStep, WriteRowStep
  <2>2. CASE ReadLatest(v) \/ ReadPending(v) \/ Fallback(v) \/ StartPlan(v) \/ ReadPlan(v) \/ QueryCopy(v)
    BY <2>2, ReadLatestStep, ReadPendingStep, FallbackStep, StartPlanStep, ReadPlanStep, QueryCopyStep
  <2>3. CASE EndPlan(v) \/ Crash(v)
    BY <2>3, EndStep DEF EndPlan, Crash
  <2> QED
    BY <1>4, <2>1, <2>2, <2>3 DEF RecoverStep
<1> QED
  BY <1>1, <1>2, <1>3, <1>4 DEF Next

LEMMA RecoveryHolds == Spec => []RecoveryInv
BY RecoveryInit, RecoveryStep, PTL DEF Spec

\* A record says CONFIRMED or REVERTED only of a transaction the chain settled
\* so, and BROADCAST_FAILED only of a try that is not on the chain, unless its
\* request was delayed or its pending count unread.
THEOREM RecordsTellTheChain == Spec => []VerdictsHold
<1>1. RecoveryInv => VerdictsHold
  <2> SUFFICES ASSUME RecoveryInv, NEW k \in Tries
               PROVE  /\ records[k].state = "CONFIRMED" => InState(records[k].hash, "mined")
                      /\ records[k].state = "REVERTED"  => InState(records[k].hash, "reverted")
                      /\ records[k].state = "BROADCAST_FAILED" /\ odd[k] = {} => ~Live(k)
    BY DEF VerdictsHold, RecoveryInv
  <2>1. TypeOK /\ RecordOK(k)
    BY DEF RecoveryInv
  <2> QED
    BY <2>1, LiveIsOnChain DEF RecordOK, Backs
<1> QED
  BY <1>1, RecoveryHolds, PTL

\* A row that says SUCCESS names a mined transaction, the one executeTrade saw
\* or that of a record which is CONFIRMED.
THEOREM RowsAreBacked == Spec => []SuccessIsBacked
<1>1. RecoveryInv => SuccessIsBacked
  BY DEF RecoveryInv
<1> QED
  BY <1>1, RecoveryHolds, PTL

\* executeTrade sends the swap beside an earlier try that may still execute or
\* has executed only after recovery confirmed that try, or gave it up on a
\* delayed request or an unread pending count.
THEOREM RebroadcastsHaveCauses == Spec => RebroadcastHasCause
<1> DEFINE Caused ==
      call'.at # call.at =>
        \A k \in 1..call.at :
          Live(k) \/ (\E n \in 1..MaxNonce : <<k, n>> \in wire /\ n = PendingNonce) =>
            \/ records[k].state = "CONFIRMED"
            \/ records[k].state = "BROADCAST_FAILED" /\ odd[k] # {}
<1>1. ASSUME RecoveryInv, [Next]_vars PROVE [Caused]_vars
  <2> SUFFICES ASSUME call'.at # call.at, NEW k \in 1..call.at,
                      Live(k) \/ (\E n \in 1..MaxNonce : <<k, n>> \in wire /\ n = PendingNonce)
               PROVE  \/ records[k].state = "CONFIRMED"
                      \/ records[k].state = "BROADCAST_FAILED" /\ odd[k] # {}
    OBVIOUS
  <2>1. Retry
    <3>1. call \in [pc : CallAt, at : Tries \cup {0}, nonce : Nat,
                    status : {"NOT_STARTED", "SUCCESS", "FAILED"}, unanswered : BOOLEAN]
      BY <1>1 DEF RecoveryInv, TypeOK
    <3>2. CASE CallStep
      BY <3>1, <3>2 DEF CallStep, Answered, NotSent, Unanswered, SwapReceipt, Finally, RecordUncertain
    <3>3. ASSUME NEW v \in Recoverers, Begin(v) \/ RecoverStep(v) \/ Crash(v) PROVE call' = call
      BY <3>3 DEF Begin, RecoverStep, Crash, NextRecord, QueryReceipt, Discover, WriteRow, ReadLatest,
         ReadPending, Fallback, StartPlan, ReadPlan, QueryCopy, EndPlan
    <3> QED
      BY <1>1, <3>2, <3>3 DEF Next, Mine, Wallet, Arrive, Lapse, vars
  <2>2. k \in Tries /\ k <= call.at /\ call.pc = "idle" /\ records[k].state \notin Uncertain
    BY <1>1, <2>1, TxAssumption DEF Retry, RecoveryInv, TypeOK, Tries
  <2>3. TypeOK /\ ChainOK /\ WireOK /\ RecordOK(k) /\ Left(k)
    BY <1>1, <2>2 DEF RecoveryInv, Left, TypeOK, Tries
  <2>4. ~Dead(k)
    BY DEF Dead, OnWire
  <2>5. Recorded(k)
    BY <2>3, <2>4 DEF RecordOK
  <2>6. records[k].state # "REVERTED"
    <3> SUFFICES ASSUME records[k].state = "REVERTED" PROVE FALSE
      OBVIOUS
    <3>1. InState(k, "reverted")
      <4>1. records[k].hash # NoHash
        BY <2>3, InStateIs, ChainType DEF RecordOK
      <4> QED
        BY <2>3, <4>1 DEF RecordOK
    <3>2. ~Live(k)
      BY <2>3, <3>1, OneState DEF Live
    <3>3. ~OnWire(k)
      BY <2>3, <3>1, InStateIs DEF WireOK, OnWire, OnChain
    <3> QED
      BY <2>4, <3>2, <3>3 DEF Dead
  <2>7. records[k].state = "BROADCAST_FAILED" => odd[k] # {}
    <3>1. OnChain(k) \/ OnWire(k)
      BY <2>3, <2>4, LiveIsOnChain DEF Dead
    <3> QED
      BY <2>3, <3>1 DEF RecordOK, WireOK, OnWire
  <2> QED
    BY <2>2, <2>3, <2>5, <2>6, <2>7 DEF RecordOK, Recorded
<1>2. RecoveryInv /\ [Next]_vars => [Caused]_vars
  BY <1>1
<1> QED
  BY <1>2, RecoveryHolds, PTL DEF Spec, RebroadcastHasCause
=============================================================================
