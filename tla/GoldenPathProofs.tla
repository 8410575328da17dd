--------------------------- MODULE GoldenPathProofs ---------------------------
(***************************************************************************)
(* What executeOrResume promises of a plan, for any number of processes    *)
(* and calls and whatever reverts, is lost or crashes: no row and no       *)
(* settlement ahead of the chain, no transaction sent twice and no amount  *)
(* but the mined one without one of few causes.                            *)
(***************************************************************************)
EXTENDS GoldenPath, TLAPS

Amounts    == {None, "mined", "fixed"}
CallStates == [pc : {"idle", "steps", "act", "write", "intent", "create", "record", "complete"},
               phase : 1..7, rows : Rows, receipt : {None, "good", "reverted"},
               amount : Amounts, quote : Amounts, fill : BOOLEAN, known : BOOLEAN]
Chains     == [sent : [Sends -> Nat], allowance : BOOLEAN, paid : Amounts,
               fill : {None, "OPEN", "FILLED"}]
Plans      == [intent : BOOLEAN, settled : BOOLEAN, hash : BOOLEAN, completed : BOOLEAN]
Pasts      == [runs : 0..MaxRuns, torn : SUBSET Sends, overlap : BOOLEAN, split : BOOLEAN]

Settling == {"intent", "create", "record", "complete"}

-----------------------------------------------------------------------------
(* The invariant.                                                          *)

\* What a call knows is in the rows, and so is each phase it has behind it,
\* but for the last two, which it may pass without a row.
CallFacts(k) ==
  /\ k.pc \in {"idle", "steps"} => k.phase = 1 /\ k.receipt = None
  /\ k.pc \in Settling => k.phase = 7
  /\ k.rows.done \subseteq rows.done
  /\ \A i \in 1..5 : i < k.phase => Order[i] \in rows.done
  /\ k.pc = "write" /\ Order[k.phase] \in {"swap", "deposit"} => chain.sent[Order[k.phase]] > 0
  /\ k.pc = "write" /\ k.phase = 1 => k.receipt # None

\* The rows and the settlement are not ahead of the chain.
Backing ==
  /\ \A p \in {"swap", "deposit"} : p \in rows.done => chain.sent[p] > 0
  /\ "deposit" \in rows.done => {"quote", "approval"} \subseteq rows.done
  /\ plan.settled => {"swap", "deposit"} \subseteq rows.done

\* Without an overlap one call is at work, and its copy of the rows is true of
\* the phases that it has yet to do.
Alone ==
  ~past.overlap =>
    /\ \A c, d \in Callers : ~At(c, "idle") /\ ~At(d, "idle") => c = d
    /\ \A c \in Callers : call[c].pc \in {"act", "write"} =>
         \A i \in call[c].phase..7 : Order[i] \in rows.done <=> Order[i] \in call[c].rows.done

\* A transaction that was sent has its row, or a call that is about to write it.
Writing(c, p) == At(c, "write") /\ Phase(c) = p /\ call[c].known
Once ==
  \A p \in Sends :
    \/ p \in past.torn \/ past.overlap
    \/ chain.sent[p] = 0
    \/ chain.sent[p] = 1 /\ (p \in rows.done \/ \E c \in Callers : Writing(c, p))

\* The program's constant is nowhere, and a swap whose output has no row is
\* that of a call which holds its receipt.
Calm == ~past.split /\ "swap" \notin past.torn /\ ~past.overlap
Unfixed(k) == "fixed" \notin {k.amount, k.quote, k.rows.amount, k.rows.quote}
Mined ==
  Calm => /\ "fixed" \notin {rows.amount, rows.quote, chain.paid}
          /\ \A c \in Callers : Unfixed(call[c])
          /\ "swap" \in rows.done /\ "output" \notin rows.done
               => \E c \in Callers : call[c].receipt # None

Safe   == TypeOK /\ (\A c \in Callers : CallFacts(call[c])) /\ Backing
Causes == Alone /\ Once /\ Mined
GoldenInv == Safe /\ Causes

-----------------------------------------------------------------------------
(* The types.                                                              *)

LEMMA TypesAre ==
  TypeOK <=> /\ rows \in Rows /\ chain \in Chains /\ plan \in Plans
             /\ call \in [Callers -> CallStates] /\ past \in Pasts
BY DEF TypeOK, Chains, Plans, CallStates, Amounts, Pasts

LEMMA OrderIs ==
  /\ Order[1] = "swap" /\ Order[2] = "output" /\ Order[3] = "quote" /\ Order[4] = "approval"
  /\ Order[5] = "deposit" /\ Order[6] = "relay" /\ Order[7] = "dest"
  /\ \A i \in 1..7 : Order[i] \in Phases
  /\ \A i, j \in 1..7 : Order[i] = Order[j] => i = j
<1>1. /\ Order[1] = "swap" /\ Order[2] = "output" /\ Order[3] = "quote" /\ Order[4] = "approval"
      /\ Order[5] = "deposit" /\ Order[6] = "relay" /\ Order[7] = "dest"
  BY DEF Order
<1>2. \A i \in 1..7 : i \in {1, 2, 3, 4, 5, 6, 7}
  OBVIOUS
<1>3. \A i, j \in {1, 2, 3, 4, 5, 6, 7} : Order[i] = Order[j] => i = j
  BY <1>1
<1> QED
  BY <1>1, <1>2, <1>3 DEF Phases

LEMMA IdleIs == Idle \in CallStates /\ Idle.pc = "idle"
BY DEF Idle, CallStates, NoRows, Rows, Amounts, None

\* Where a call goes when it leaves its phase, and what it forgets.
LEMMA BeyondIs ==
  ASSUME NEW k \in CallStates
  PROVE  /\ Beyond(k) \in CallStates
         /\ k.phase = 7 => Beyond(k).pc = "intent" /\ Beyond(k).phase = 7
         /\ k.phase < 7 => Beyond(k).pc = "act" /\ Beyond(k).phase = k.phase + 1
         /\ Beyond(k).rows.done = k.rows.done \ {Order[k.phase]}
         /\ Beyond(k).receipt = IF k.phase >= 2 THEN None ELSE k.receipt
         /\ Beyond(k).amount \in {None, k.amount} /\ Beyond(k).quote \in {None, k.quote}
         /\ Beyond(k).rows.amount \in {None, k.rows.amount}
         /\ Beyond(k).rows.quote \in {None, k.rows.quote}
<1> DEFINE f == Forget(k)
           r == [k.rows EXCEPT !.done = k.rows.done \ {Order[k.phase]},
                               !.amount = IF k.phase >= 2 THEN None ELSE k.rows.amount,
                               !.quote = IF k.phase >= 3 THEN None ELSE k.rows.quote]
<1>1. r \in Rows /\ r.done = k.rows.done \ {Order[k.phase]}
      /\ r.amount \in {None, k.rows.amount} /\ r.quote \in {None, k.rows.quote}
  BY DEF CallStates, Rows, None
<1>2. f = [k EXCEPT !.known = FALSE, !.rows = r,
                    !.receipt = IF k.phase >= 2 THEN None ELSE k.receipt,
                    !.amount = IF k.phase >= 3 THEN None ELSE k.amount,
                    !.quote = IF k.phase >= 5 THEN None ELSE k.quote]
  BY DEF Forget
<1> HIDE DEF r
<1>3. /\ f \in CallStates /\ f.phase = k.phase /\ f.rows = r
      /\ f.receipt = IF k.phase >= 2 THEN None ELSE k.receipt
      /\ f.amount \in {None, k.amount} /\ f.quote \in {None, k.quote}
  BY <1>1, <1>2 DEF CallStates, Amounts, None
<1>4. Beyond(k) = IF k.phase = 7 THEN [f EXCEPT !.pc = "intent"]
                  ELSE [f EXCEPT !.pc = "act", !.phase = f.phase + 1]
  BY DEF Beyond
<1> HIDE DEF f
<1>5. CASE k.phase = 7
  BY <1>1, <1>3, <1>4, <1>5 DEF CallStates
<1>6. CASE k.phase < 7
  <2>1. k.phase \in 1..7 /\ k.phase # 7 /\ k.phase + 1 \in 1..7
    BY <1>6 DEF CallStates
  <2>2. Beyond(k) = [f EXCEPT !.pc = "act", !.phase = k.phase + 1]
    BY <1>3, <1>4, <2>1
  <2>3. Beyond(k) \in CallStates /\ Beyond(k).pc = "act" /\ Beyond(k).phase = k.phase + 1
    BY <1>3, <2>1, <2>2 DEF CallStates
  <2>4. /\ Beyond(k).rows = f.rows /\ Beyond(k).receipt = f.receipt
        /\ Beyond(k).amount = f.amount /\ Beyond(k).quote = f.quote
    BY <1>3, <2>2 DEF CallStates
  <2> QED
    BY <1>1, <1>3, <2>1, <2>3, <2>4
<1> QED
  BY <1>5, <1>6 DEF CallStates

LEMMA EndedIs ==
  ASSUME TypeOK, NEW c \in Callers
  PROVE  /\ EndedHistory(c) \in Pasts /\ EndedHistory(c).overlap = past.overlap
         /\ past.torn \subseteq EndedHistory(c).torn
         /\ \A p \in Sends : Writing(c, p) => p \in EndedHistory(c).torn
         /\ EndedHistory(c).split = (past.split \/ (call[c].receipt # None /\ "output" \notin rows.done))
<1> DEFINE h == EndedHistory(c)
           torn == IF At(c, "write") /\ Phase(c) \in Sends /\ call[c].known
                   THEN past.torn \cup {Phase(c)} ELSE past.torn
           split == past.split \/ (call[c].receipt # None /\ "output" \notin rows.done)
<1>1. h = [past EXCEPT !.torn = torn, !.split = split]
  BY DEF EndedHistory
<1>2. torn \in SUBSET Sends /\ split \in BOOLEAN /\ past.torn \subseteq torn
  BY TypesAre DEF Pasts
<1>3. \A p \in Sends : Writing(c, p) => p \in torn
  BY DEF Writing
<1> HIDE DEF torn
<1>4. h \in Pasts /\ h.overlap = past.overlap /\ h.torn = torn /\ h.split = split
  BY <1>1, <1>2, TypesAre DEF Pasts
<1> QED
  BY <1>2, <1>3, <1>4

-----------------------------------------------------------------------------
(* Safety of a step that changes one call.                                 *)

\* Rows and sends are never taken back.
Grows == /\ rows.done \subseteq rows'.done
         /\ \A p \in Sends : chain.sent[p] > 0 => chain'.sent[p] > 0

LEMMA SafeStep ==
  ASSUME Safe, Grows, NEW c \in Callers, NEW k \in CallStates, call' = [call EXCEPT ![c] = k],
         rows' \in Rows, chain' \in Chains, plan' \in Plans, past' \in Pasts,
         CallFacts(k)', Backing'
  PROVE  Safe'
<1>1. TypeOK'
  <2>1. call' \in [Callers -> CallStates]
    BY TypesAre DEF Safe
  <2> QED
    BY <2>1 DEF TypeOK, Chains, Plans, CallStates, Amounts, Pasts
<1>2. ASSUME NEW d \in Callers PROVE CallFacts(call[d])'
  <2>1. CASE d = c
    <3>1. call'[d] = k
      BY <2>1, TypesAre DEF Safe
    <3> QED
      BY <3>1 DEF CallFacts
  <2>2. CASE d # c
    <3>1. call'[d] = call[d]
      BY <2>2, TypesAre DEF Safe
    <3> QED
      BY <3>1 DEF Safe, CallFacts, Grows, Sends
  <2> QED
    BY <2>1, <2>2
<1> QED
  BY <1>1, <1>2 DEF Safe

LEMMA SameBacking ==
  ASSUME Safe, UNCHANGED rows, Grows, plan'.settled = plan.settled
  PROVE  Backing'
BY DEF Safe, Backing, Grows, Sends

\* Nothing is asked of a call that has ended.
LEMMA IdleFacts == Safe => \A k : k = Idle => CallFacts(k)'
<1> SUFFICES ASSUME NEW k, k = Idle PROVE CallFacts(k)'
  OBVIOUS
<1>1. k.pc = "idle" /\ k.phase = 1 /\ k.receipt = None /\ k.rows.done = {}
  BY DEF Idle, NoRows
<1> QED
  BY <1>1 DEF CallFacts, Settling

-----------------------------------------------------------------------------
(* The causes, in a step that changes one call.                            *)

LEMMA AloneStep ==
  ASSUME TypeOK, Alone, NEW c \in Callers, ~At(c, "idle"), NEW k,
         call' = [call EXCEPT ![c] = k], past'.overlap = past.overlap,
         k.pc \in {"act", "write"} /\ ~past.overlap =>
           \A i \in k.phase..7 : Order[i] \in rows'.done <=> Order[i] \in k.rows.done
  PROVE  Alone'
<1> SUFFICES ASSUME ~past.overlap
             PROVE  /\ \A d, e \in Callers : call'[d].pc # "idle" /\ call'[e].pc # "idle" => d = e
                    /\ \A d \in Callers : call'[d].pc \in {"act", "write"} =>
                         \A i \in call'[d].phase..7 :
                           Order[i] \in rows'.done <=> Order[i] \in call'[d].rows.done
  BY DEF Alone, At
<1>1. \A d \in Callers : d # c => call'[d].pc = "idle"
  BY TypesAre DEF Alone, At
<1>2. call'[c] = k
  BY TypesAre
<1> QED
  BY <1>1, <1>2

LEMMA MinedStep ==
  ASSUME TypeOK, Mined, NEW c \in Callers, NEW k, call' = [call EXCEPT ![c] = k],
         Calm' => Calm,
         Calm' => /\ "fixed" \notin {rows'.amount, rows'.quote, chain'.paid} /\ Unfixed(k)
                  /\ "swap" \in rows'.done /\ "output" \notin rows'.done =>
                       \/ k.receipt # None
                       \/ /\ call[c].receipt = None
                          /\ "swap" \in rows.done /\ "output" \notin rows.done
  PROVE  Mined'
<1>1. \A d \in Callers : call'[d] = IF d = c THEN k ELSE call[d]
  BY TypesAre
<1> SUFFICES ASSUME Calm' PROVE Mined!2'
  BY DEF Mined
<1> QED
  BY <1>1 DEF Mined, Unfixed

\* Who is not about to write a row backs no send.
LEMMA OnceSame ==
  ASSUME TypeOK, Once, NEW c \in Callers, ~At(c, "write"), NEW k,
         call' = [call EXCEPT ![c] = k], UNCHANGED <<rows, chain>>,
         past.torn \subseteq past'.torn, past.overlap => past'.overlap
  PROVE  Once'
<1>1. \A d \in Callers : d # c => call'[d] = call[d]
  BY TypesAre
<1>2. \A p \in Sends, d \in Callers : Writing(d, p) => d # c /\ Writing(d, p)'
  BY <1>1 DEF Writing, At, Phase
<1> QED
  BY <1>2 DEF Once

-----------------------------------------------------------------------------
(* The kinds of steps.                                                     *)

\* A call ends without a send.
LEMMA EndKeeps ==
  ASSUME GoldenInv, NEW c \in Callers, ~At(c, "idle"), Throw(c), UNCHANGED <<rows, chain>>,
         plan' \in Plans, plan'.settled = plan.settled
  PROVE  GoldenInv'
<1> USE DEF GoldenInv, Safe, Causes
<1>1. PICK k : k = Idle
  OBVIOUS
<1>2. k \in CallStates /\ k.pc = "idle" /\ Unfixed(k)
  BY <1>1, IdleIs DEF Unfixed, Idle, NoRows, None
<1>3. call' = [call EXCEPT ![c] = k] /\ past' = EndedHistory(c)
  BY <1>1 DEF Throw, Ended
<1>4. /\ past' \in Pasts /\ past'.overlap = past.overlap /\ past.torn \subseteq past'.torn
      /\ \A p \in Sends : Writing(c, p) => p \in past'.torn
      /\ past'.split = (past.split \/ (call[c].receipt # None /\ "output" \notin rows.done))
  BY <1>3, EndedIs
<1>5. Safe'
  <2>1. Grows
    BY DEF Grows
  <2> QED
    BY <1>1, <1>2, <1>3, <1>4, <2>1, TypesAre, IdleFacts, SameBacking, SafeStep
<1>6. Alone'
  BY <1>2, <1>3, <1>4, AloneStep
<1>7. Once'
  <2>1. \A d \in Callers : d # c => call'[d] = call[d]
    BY <1>3, TypesAre
  <2>2. \A p \in Sends, d \in Callers : Writing(d, p) => p \in past'.torn \/ Writing(d, p)'
    BY <1>4, <2>1 DEF Writing, At, Phase
  <2> QED
    BY <1>4, <2>2 DEF Once
<1>8. Mined'
  BY <1>2, <1>3, <1>4, MinedStep DEF Mined, Calm
<1> QED
  BY <1>5, <1>6, <1>7, <1>8

\* A call is past a phase that it skips, or that wrote no row.
LEMMA AdvanceKeeps ==
  ASSUME GoldenInv, NEW c \in Callers, At(c, "act"), NEW local \in CallStates,
         local.phase = call[c].phase, local.rows = call[c].rows,
         local.receipt = call[c].receipt,
         call' = [call EXCEPT ![c] = Beyond(local)], UNCHANGED <<rows, chain, plan, past>>,
         local.phase <= 5 => Order[local.phase] \in rows.done,
         Calm => Unfixed(local)
  PROVE  GoldenInv'
<1> USE DEF GoldenInv, Safe, Causes
<1> DEFINE k == Beyond(local)
<1>1. CallFacts(call[c]) /\ local.phase \in 1..7
  BY DEF CallStates
<1>2. /\ k \in CallStates
      /\ local.phase = 7 => k.pc = "intent" /\ k.phase = 7
      /\ local.phase < 7 => k.pc = "act" /\ k.phase = local.phase + 1
      /\ k.rows.done = local.rows.done \ {Order[local.phase]}
      /\ k.receipt = IF local.phase >= 2 THEN None ELSE local.receipt
      /\ k.amount \in {None, local.amount} /\ k.quote \in {None, local.quote}
      /\ k.rows.amount \in {None, local.rows.amount}
      /\ k.rows.quote \in {None, local.rows.quote}
  BY BeyondIs
<1> HIDE DEF k
<1>3. call' = [call EXCEPT ![c] = k]
  BY DEF k
<1>4. \A i \in 1..5 : i < k.phase => Order[i] \in rows.done
  BY <1>1, <1>2 DEF CallFacts
<1>5. Safe'
  <2>1. Grows
    BY DEF Grows
  <2>2. CallFacts(k)'
    BY <1>1, <1>2, <1>4 DEF CallFacts, Settling, k
  <2> QED
    BY <1>2, <1>3, <2>1, <2>2, TypesAre, SameBacking, SafeStep
<1>6. Alone'
  <2>1. ASSUME ~past.overlap, k.pc \in {"act", "write"}, NEW i \in k.phase..7
        PROVE  Order[i] \in rows.done <=> Order[i] \in k.rows.done
    <3>1. local.phase < 7 /\ i \in local.phase..7 /\ i \in 1..7 /\ i # local.phase
      BY <1>1, <1>2, <2>1
    <3>2. Order[i] \in rows.done <=> Order[i] \in call[c].rows.done
      BY <2>1, <3>1 DEF Alone, At
    <3>3. Order[i] # Order[local.phase]
      BY <1>1, <3>1, OrderIs
    <3> QED
      BY <1>2, <3>2, <3>3
  <2> QED
    BY <1>3, <2>1, AloneStep DEF At
<1>7. Once'
  BY <1>3, OnceSame DEF At
<1>8. Mined'
  <2>1. Calm => Unfixed(k)
    BY <1>2 DEF Unfixed, None
  <2>2. k.receipt = call[c].receipt \/ "output" \in rows.done
    <3>1. CASE local.phase = 1
      BY <1>2, <3>1
    <3>2. CASE local.phase >= 2
      BY <1>1, <1>2, <1>4, <3>2, OrderIs
    <3> QED
      BY <1>1, <3>1, <3>2
  <2> QED
    BY <1>3, <2>1, <2>2, MinedStep DEF Mined, Calm
<1> QED
  BY <1>5, <1>6, <1>7, <1>8

\* A phase that sends nothing has acted.
LEMMA ActKeeps ==
  ASSUME GoldenInv, NEW c \in Callers, At(c, "act"), NEW local \in CallStates,
         local.phase = call[c].phase, local.rows = call[c].rows,
         local.receipt = call[c].receipt,
         Acted(c, local), UNCHANGED <<rows, chain, plan, past>>,
         Phase(c) \notin {"swap", "deposit"}, Calm => Unfixed(local)
  PROVE  GoldenInv'
<1> USE DEF GoldenInv, Safe, Causes
<1>1. PICK k : k = [local EXCEPT !.pc = "write"]
  OBVIOUS
<1>2. /\ k \in CallStates /\ k.pc = "write" /\ k.phase = call[c].phase
      /\ k.rows = call[c].rows /\ k.receipt = call[c].receipt
      /\ k.amount = local.amount /\ k.quote = local.quote
  BY <1>1 DEF CallStates
<1>3. call' = [call EXCEPT ![c] = k]
  BY <1>1 DEF Acted
<1>4. Safe'
  <2>1. Grows
    BY DEF Grows
  <2>2. CallFacts(k)'
    BY <1>2, OrderIs DEF CallFacts, Settling, Phase
  <2> QED
    BY <1>2, <1>3, <2>1, <2>2, TypesAre, SameBacking, SafeStep
<1>5. Alone'
  BY <1>2, <1>3, AloneStep DEF Alone, At
<1>6. Once'
  BY <1>3, OnceSame DEF At
<1>7. Mined'
  BY <1>2, <1>3, MinedStep DEF Mined, Calm, Unfixed
<1> QED
  BY <1>4, <1>5, <1>6, <1>7

\* A transaction was sent, and its answer came or was lost.  Alone, the call
\* has found no row of it, and none is about to be written.
LEMMA SendKeeps ==
  ASSUME GoldenInv, NEW c \in Callers, NEW p \in Sends, Acting(c, p), ~Done(c, p),
         NEW effect \in Chains, effect.sent = chain.sent,
         Calm => effect.paid # "fixed",
         NEW local \in CallStates, local.phase = call[c].phase, local.rows = call[c].rows,
         IF p = "swap" THEN local.receipt # None ELSE local.receipt = call[c].receipt,
         Calm => Unfixed(local),
         Send(c, p, effect, local), UNCHANGED <<rows, plan>>
  PROVE  GoldenInv'
<1> USE DEF GoldenInv, Safe, Causes
<1>1. At(c, "act") /\ Order[call[c].phase] = p /\ call[c].phase \in 1..7
  BY TypesAre DEF Acting, Phase, CallStates
<1>2. CASE Throw(c) /\ UNCHANGED chain
  BY <1>1, <1>2, EndKeeps, TypesAre DEF At
<1>3. CASE ~(Throw(c) /\ UNCHANGED chain)
  <2>1. chain' = [effect EXCEPT !.sent[p] = effect.sent[p] + 1]
    BY <1>3 DEF Send
  <2>2. /\ chain' \in Chains /\ chain'.paid = effect.paid
        /\ chain'.sent = [chain.sent EXCEPT ![p] = chain.sent[p] + 1]
    BY <2>1, TypesAre DEF Chains
  <2>3. chain.sent \in [Sends -> Nat]
    BY TypesAre DEF Chains
  <2>4. Grows /\ chain'.sent[p] > 0
    BY <2>2, <2>3 DEF Grows
  <2>5. ~past.overlap => p \notin rows.done /\ \A d \in Callers : ~Writing(d, p)
    <3> SUFFICES ASSUME ~past.overlap PROVE p \notin rows.done /\ \A d \in Callers : ~Writing(d, p)
      OBVIOUS
    <3>1. \A d \in Callers : ~At(d, "idle") => d = c
      BY <1>1 DEF Alone, At
    <3>2. p \notin rows.done
      BY <1>1 DEF Alone, Done, At
    <3> QED
      BY <1>1, <3>1, <3>2 DEF Writing, At
  <2>6. p \in past.torn \/ past.overlap \/ (chain.sent[p] = 0 /\ chain'.sent[p] = 1)
    BY <2>2, <2>3, <2>5 DEF Once
  <2>7. \A r \in Sends : r # p => chain'.sent[r] = chain.sent[r]
    BY <2>2, <2>3
  <2>8. PICK k : /\ call' = [call EXCEPT ![c] = k]
                 /\ \/ /\ k = [[local EXCEPT !.known = TRUE] EXCEPT !.pc = "write"]
                       /\ past' = past
                    \/ k = Idle /\ past' = [EndedHistory(c) EXCEPT !.torn = EndedHistory(c).torn \cup {p}]
    BY <1>3 DEF Send, Acted, Ended
  <2>9. CASE /\ k = [[local EXCEPT !.known = TRUE] EXCEPT !.pc = "write"]
             /\ past' = past
    <3>1. /\ k \in CallStates /\ k.pc = "write" /\ k.phase = call[c].phase /\ k.known = TRUE
          /\ k.rows = call[c].rows /\ k.receipt = local.receipt
          /\ k.amount = local.amount /\ k.quote = local.quote
      BY <2>9 DEF CallStates
    <3>2. Safe'
      <4>1. CallFacts(k)'
        BY <1>1, <2>4, <3>1, OrderIs DEF CallFacts, Settling
      <4> QED
        BY <2>2, <2>4, <2>8, <2>9, <3>1, <4>1, TypesAre, SameBacking, SafeStep
    <3>3. Alone'
      BY <1>1, <2>8, <2>9, <3>1, AloneStep DEF Alone, At
    <3>4. Once'
      <4>1. \A d \in Callers : call'[d] = IF d = c THEN k ELSE call[d]
        BY <2>8, TypesAre
      <4>2. Writing(c, p)'
        BY <1>1, <3>1, <4>1 DEF Writing, At, Phase
      <4>3. \A r \in Sends, d \in Callers : Writing(d, r) => Writing(d, r)'
        BY <1>1, <4>1 DEF Writing, At, Phase
      <4>4. ASSUME NEW r \in Sends
            PROVE  \/ r \in past'.torn \/ past'.overlap
                   \/ chain'.sent[r] = 0
                   \/ chain'.sent[r] = 1 /\ (r \in rows'.done \/ \E d \in Callers : Writing(d, r)')
        <5>1. CASE r = p
          BY <2>6, <2>9, <4>2, <5>1
        <5>2. CASE r # p
          BY <2>7, <2>9, <4>3, <5>2 DEF Once
        <5> QED
          BY <5>1, <5>2
      <4> QED
        BY <4>4 DEF Once
    <3>5. Mined'
      <4>1. call[c].receipt # None => k.receipt # None
        BY <3>1
      <4> QED
        BY <2>2, <2>8, <2>9, <3>1, <4>1, MinedStep DEF Mined, Calm, Unfixed
    <3> QED
      BY <3>2, <3>3, <3>4, <3>5
  <2>10. CASE k = Idle /\ past' = [EndedHistory(c) EXCEPT !.torn = EndedHistory(c).torn \cup {p}]
    <3>1. k \in CallStates /\ k.pc = "idle" /\ Unfixed(k)
      BY <2>10, IdleIs DEF Unfixed, Idle, NoRows, None
    <3>2. /\ past' \in Pasts /\ past'.overlap = past.overlap
          /\ past.torn \subseteq past'.torn /\ p \in past'.torn
          /\ past'.split = (past.split \/ (call[c].receipt # None /\ "output" \notin rows.done))
      <4>1. /\ EndedHistory(c) \in Pasts /\ EndedHistory(c).overlap = past.overlap
            /\ past.torn \subseteq EndedHistory(c).torn
            /\ EndedHistory(c).split = (past.split \/ (call[c].receipt # None /\ "output" \notin rows.done))
        BY EndedIs
      <4> QED
        BY <2>10, <4>1 DEF Pasts
    <3>3. Safe'
      BY <2>2, <2>4, <2>8, <2>10, <3>1, <3>2, TypesAre, IdleFacts, SameBacking, SafeStep
    <3>4. Alone'
      BY <1>1, <2>8, <3>1, <3>2, AloneStep DEF At
    <3>5. Once'
      <4>1. \A d \in Callers : d # c => call'[d] = call[d]
        BY <2>8, TypesAre
      <4>2. \A r \in Sends, d \in Callers : Writing(d, r) => Writing(d, r)'
        BY <1>1, <4>1 DEF Writing, At, Phase
      <4> QED
        BY <2>7, <3>2, <4>2 DEF Once
    <3>6. Mined'
      BY <2>2, <2>8, <3>1, <3>2, MinedStep DEF Mined, Calm
    <3> QED
      BY <3>3, <3>4, <3>5, <3>6
  <2> QED
    BY <2>8, <2>9, <2>10
<1> QED
  BY <1>2, <1>3

\* The row of a phase is written: what was sent is now in the rows, and so is
\* the output if a receipt is forgotten.
LEMMA WriteKeeps ==
  ASSUME GoldenInv, NEW c \in Callers, WriteRow(c)
  PROVE  GoldenInv'
<1> USE DEF GoldenInv, Safe, Causes
<1> DEFINE p == Phase(c)
           n == call[c].phase
<1>1. /\ call[c] \in CallStates /\ call[c].pc = "write" /\ p = Order[n] /\ n \in 1..7
      /\ CallFacts(call[c])
  BY TypesAre DEF WriteRow, At, Phase, CallStates
<1>2. /\ rows'.done = rows.done \cup {p}
      /\ rows'.amount = IF p = "output" THEN call[c].amount ELSE rows.amount
      /\ rows'.quote = IF p = "quote" THEN call[c].quote ELSE rows.quote
      /\ rows'.hash \subseteq {"relay", "dest"}
      /\ rows' = [done |-> rows'.done, amount |-> rows'.amount, quote |-> rows'.quote,
                  hash |-> rows'.hash]
      /\ UNCHANGED <<chain, plan>>
  BY TypesAre DEF WriteRow, Rows
<1>3. rows' \in Rows
  BY <1>1, <1>2, OrderIs, TypesAre DEF Rows, CallStates, Amounts
<1> HIDE DEF p, n
<1>4. Grows
  BY <1>2 DEF Grows
<1>5. Backing'
  <2>1. \A q \in {"swap", "deposit"} : q \in rows'.done => chain'.sent[q] > 0
    BY <1>1, <1>2 DEF Backing, CallFacts, n
  <2>2. "deposit" \in rows'.done => {"quote", "approval"} \subseteq rows'.done
    <3>1. CASE p = "deposit"
      <4>1. n = 5
        <5>1. Order[n] = Order[5] /\ 5 \in 1..7
          BY <1>1, <3>1, OrderIs
        <5> QED
          BY <1>1, <5>1, OrderIs
      <4>2. Order[3] \in rows.done /\ Order[4] \in rows.done
        BY <1>1, <4>1 DEF CallFacts, n
      <4> QED
        BY <1>2, <4>2, OrderIs
    <3>2. CASE p # "deposit"
      BY <1>2, <3>2 DEF Backing
    <3> QED
      BY <3>1, <3>2
  <2> QED
    BY <1>2, <2>1, <2>2 DEF Backing
<1>6. n >= 2 => "output" \in rows'.done
  <2>1. CASE n = 2
    BY <1>1, <1>2, <2>1, OrderIs
  <2>2. CASE n > 2
    BY <1>1, <1>2, <2>2, OrderIs DEF CallFacts, n
  <2> QED
    BY <1>1, <2>1, <2>2
<1>7. Calm => "fixed" \notin {rows'.amount, rows'.quote, chain'.paid}
  BY <1>2 DEF Mined, Unfixed
<1>8. ASSUME NEW k, call' = [call EXCEPT ![c] = k], past.torn \subseteq past'.torn,
             past'.overlap = past.overlap
      PROVE  Once'
  <2>1. \A d \in Callers : d # c => call'[d] = call[d]
    BY <1>8, TypesAre
  <2>2. \A q \in Sends, d \in Callers : Writing(d, q) => q \in rows'.done \/ Writing(d, q)'
    BY <1>1, <1>2, <2>1 DEF Writing, At, Phase, p
  <2> QED
    BY <1>2, <1>8, <2>2 DEF Once
<1>9. CASE call' = [call EXCEPT ![c] = Beyond(call[c])] /\ UNCHANGED past
  <2>1. PICK k : k = Beyond(call[c])
    OBVIOUS
  <2>2. /\ k \in CallStates
        /\ n = 7 => k.pc = "intent" /\ k.phase = 7
        /\ n < 7 => k.pc = "act" /\ k.phase = n + 1
        /\ k.rows.done = call[c].rows.done \ {p}
        /\ k.receipt = IF n >= 2 THEN None ELSE call[c].receipt
        /\ k.amount \in {None, call[c].amount} /\ k.quote \in {None, call[c].quote}
        /\ k.rows.amount \in {None, call[c].rows.amount}
        /\ k.rows.quote \in {None, call[c].rows.quote}
    BY <1>1, <2>1, BeyondIs DEF n
  <2>3. CallFacts(k)'
    <3>1. \A i \in 1..5 : i < k.phase => Order[i] \in rows'.done
      BY <1>1, <1>2, <2>2 DEF CallFacts, n
    <3> QED
      BY <1>1, <1>2, <2>2, <3>1 DEF CallFacts, Settling
  <2>4. Safe'
    BY <1>2, <1>3, <1>4, <1>5, <1>9, <2>1, <2>2, <2>3, TypesAre, SafeStep
  <2>5. Alone'
    <3>1. ASSUME ~past.overlap, k.pc \in {"act", "write"}, NEW i \in k.phase..7
          PROVE  Order[i] \in rows'.done <=> Order[i] \in k.rows.done
      <4>1. n < 7 /\ i \in n..7 /\ i \in 1..7 /\ i # n
        BY <1>1, <2>2, <3>1
      <4>2. Order[i] \in rows.done <=> Order[i] \in call[c].rows.done
        BY <1>1, <3>1, <4>1 DEF Alone, n
      <4>3. Order[i] # p
        BY <1>1, <4>1, OrderIs
      <4> QED
        BY <1>2, <2>2, <4>2, <4>3
    <3> QED
      BY <1>1, <1>9, <2>1, <3>1, AloneStep DEF At
  <2>6. Once'
    BY <1>8, <1>9
  <2>7. Mined'
    <3>1. Calm => Unfixed(k)
      BY <2>2 DEF Mined, Unfixed, None
    <3>2. "output" \notin rows'.done => k.receipt # None
      BY <1>1, <1>6, <2>2 DEF CallFacts, n
    <3> QED
      BY <1>7, <1>9, <2>1, <3>1, <3>2, MinedStep DEF Calm
  <2> QED
    BY <2>4, <2>5, <2>6, <2>7
<1>10. CASE /\ Ended(c)
            /\ past' = [past EXCEPT !.split = past.split \/ (call[c].receipt # None
                                                            /\ "output" \notin rows'.done)]
  <2>1. PICK k : k = Idle
    OBVIOUS
  <2>2. /\ k \in CallStates /\ k.pc = "idle" /\ Unfixed(k)
        /\ call' = [call EXCEPT ![c] = k]
    BY <1>10, <2>1, IdleIs DEF Ended, Unfixed, Idle, NoRows, None
  <2>3. /\ past' \in Pasts /\ past'.overlap = past.overlap /\ past'.torn = past.torn
        /\ past'.split = (past.split \/ (call[c].receipt # None /\ "output" \notin rows'.done))
    <3>1. (past.split \/ (call[c].receipt # None /\ "output" \notin rows'.done)) \in BOOLEAN
      OBVIOUS
    <3> QED
      BY <1>10, <3>1, TypesAre DEF Pasts
  <2>4. Safe'
    BY <1>2, <1>3, <1>4, <1>5, <2>1, <2>2, <2>3, TypesAre, IdleFacts, SafeStep
  <2>5. Alone'
    BY <1>1, <2>2, <2>3, AloneStep DEF At
  <2>6. Once'
    BY <1>8, <2>2, <2>3
  <2>7. Mined'
    <3>1. Calm' => Calm /\ "output" \in rows'.done
      <4> SUFFICES ASSUME Calm' PROVE Calm /\ "output" \in rows'.done
        OBVIOUS
      <4>1. ~past'.split /\ "swap" \notin past'.torn /\ ~past'.overlap
        BY DEF Calm
      <4>2. ~past.split /\ (call[c].receipt = None \/ "output" \in rows'.done)
        BY <2>3, <4>1
      <4>3. call[c].receipt = None => n >= 2
        BY <1>1 DEF CallFacts, n
      <4>4. "output" \in rows'.done
        BY <1>6, <4>2, <4>3
      <4> QED
        BY <2>3, <4>1, <4>2, <4>4 DEF Calm
    <3> QED
      BY <1>7, <2>2, <3>1, MinedStep
  <2> QED
    BY <2>4, <2>5, <2>6, <2>7
<1> QED
  BY <1>9, <1>10 DEF WriteRow

\* A call that has all its phases behind it records the settlement.
LEMMA SettleKeeps ==
  ASSUME GoldenInv, NEW c \in Callers, call[c].pc \in Settling, NEW pc \in Settling,
         Step(c, pc), UNCHANGED <<rows, chain, past>>, plan' \in Plans
  PROVE  GoldenInv'
<1> USE DEF GoldenInv, Safe, Causes
<1>1. PICK k : k = [call[c] EXCEPT !.pc = pc]
  OBVIOUS
<1>2. /\ k \in CallStates /\ k.pc = pc /\ k.phase = call[c].phase /\ k.rows = call[c].rows
      /\ k.receipt = call[c].receipt /\ k.amount = call[c].amount /\ k.quote = call[c].quote
  BY <1>1, TypesAre DEF CallStates, Settling
<1>3. call' = [call EXCEPT ![c] = k]
  BY <1>1 DEF Step
<1>4. Safe'
  <2>1. Grows
    BY DEF Grows
  <2>2. CallFacts(k)'
    BY <1>2 DEF CallFacts, Settling
  <2>3. call[c].phase = 7
    BY DEF CallFacts
  <2>4. "swap" \in rows.done /\ "deposit" \in rows.done
    BY <2>3, OrderIs DEF CallFacts
  <2>5. Backing'
    BY <2>4 DEF Backing
  <2> QED
    BY <1>2, <1>3, <2>1, <2>2, <2>5, TypesAre, SafeStep
<1>5. Alone'
  BY <1>2, <1>3, AloneStep DEF At, Settling
<1>6. Once'
  BY <1>3, OnceSame DEF At, Settling
<1>7. Mined'
  BY <1>2, <1>3, MinedStep DEF Mined, Calm, Unfixed
<1> QED
  BY <1>4, <1>5, <1>6, <1>7

\* A call begins: without an overlap it finds no other at work.
LEMMA BeginKeeps ==
  ASSUME GoldenInv, NEW c \in Callers, ReadSettlement(c)
  PROVE  GoldenInv'
<1> USE DEF GoldenInv, Safe, Causes
<1> DEFINE overlap == past.overlap \/ \E d \in Callers : ~At(d, "idle")
<1>1. /\ past' \in Pasts /\ past'.torn = past.torn /\ past'.split = past.split
      /\ past'.overlap = overlap /\ UNCHANGED <<rows, chain, plan>>
  <2>1. past' = [past EXCEPT !.runs = past.runs + 1, !.overlap = overlap] /\ past.runs < MaxRuns
        /\ UNCHANGED <<rows, chain, plan>>
    BY DEF ReadSettlement
  <2>2. overlap \in BOOLEAN
    BY TypesAre DEF Pasts
  <2> HIDE DEF overlap
  <2>3. past.runs + 1 \in 0..MaxRuns
    BY <2>1, TypesAre, GoldenAssumption DEF Pasts
  <2> QED
    BY <2>1, <2>2, <2>3, TypesAre DEF Pasts
<1>2. PICK k : /\ call' = [call EXCEPT ![c] = k]
               /\ k \in {call[c], [call[c] EXCEPT !.pc = "steps"]}
  <2>1. call = [call EXCEPT ![c] = call[c]]
    BY TypesAre
  <2>2. call' = call \/ call' = [call EXCEPT ![c] = [call[c] EXCEPT !.pc = "steps"]]
    BY DEF ReadSettlement
  <2> QED
    BY <2>1, <2>2
<1>3. call[c].pc = "idle" /\ call[c] \in CallStates
  BY TypesAre DEF ReadSettlement, At
<1>4. /\ k \in CallStates /\ k.pc \in {"idle", "steps"} /\ k.phase = call[c].phase
      /\ k.rows = call[c].rows /\ k.receipt = call[c].receipt
      /\ k.amount = call[c].amount /\ k.quote = call[c].quote
  <2>1. CASE k = call[c]
    BY <1>3, <2>1
  <2>2. CASE k = [call[c] EXCEPT !.pc = "steps"]
    BY <1>3, <2>2 DEF CallStates
  <2> QED
    BY <1>2, <2>1, <2>2
<1>5. Safe'
  <2>1. Grows
    BY <1>1 DEF Grows
  <2>2. CallFacts(k)'
    BY <1>1, <1>3, <1>4 DEF CallFacts, Settling
  <2> QED
    BY <1>1, <1>2, <1>4, <2>1, <2>2, TypesAre, SameBacking, SafeStep
<1>6. \A d \in Callers : call'[d] = IF d = c THEN k ELSE call[d]
  BY <1>2, TypesAre
<1>7. Alone'
  <2>1. ~past'.overlap => \A d \in Callers : d # c => call'[d].pc = "idle"
    BY <1>1, <1>6 DEF At
  <2> QED
    BY <1>4, <1>6, <2>1 DEF Alone, At
<1>8. Once'
  BY <1>1, <1>2, <1>3, OnceSame DEF At
<1>9. Mined'
  <2>1. Calm' => Calm
    BY <1>1 DEF Calm
  <2> QED
    BY <1>1, <1>2, <1>4, <2>1, MinedStep DEF Mined, Unfixed
<1> QED
  BY <1>5, <1>7, <1>8, <1>9

LEMMA StepsKeep ==
  ASSUME GoldenInv, NEW c \in Callers, ReadSteps(c)
  PROVE  GoldenInv'
<1> USE DEF GoldenInv, Safe, Causes
<1>1. PICK k : k = [call[c] EXCEPT !.pc = "act", !.rows = rows]
  OBVIOUS
<1>2. call[c].pc = "steps" /\ call[c] \in CallStates /\ CallFacts(call[c]) /\ rows \in Rows
  BY TypesAre DEF ReadSteps, At
<1>3. /\ k \in CallStates /\ k.pc = "act" /\ k.phase = call[c].phase /\ k.rows = rows
      /\ k.receipt = call[c].receipt /\ k.amount = call[c].amount /\ k.quote = call[c].quote
  BY <1>1, <1>2 DEF CallStates
<1>4. call' = [call EXCEPT ![c] = k] /\ UNCHANGED <<rows, chain, plan, past>>
  BY <1>1 DEF ReadSteps
<1>5. Safe'
  <2>1. Grows
    BY <1>4 DEF Grows
  <2>2. CallFacts(k)'
    BY <1>2, <1>3, <1>4 DEF CallFacts, Settling
  <2> QED
    BY <1>3, <1>4, <2>1, <2>2, TypesAre, SameBacking, SafeStep
<1>6. Alone'
  BY <1>2, <1>3, <1>4, AloneStep DEF At
<1>7. Once'
  BY <1>2, <1>4, OnceSame DEF At
<1>8. Mined'
  BY <1>3, <1>4, MinedStep DEF Mined, Calm, Unfixed
<1> QED
  BY <1>5, <1>6, <1>7, <1>8

\* A fill, and a step that changes nothing.
LEMMA FillKeeps ==
  ASSUME GoldenInv, Fill \/ UNCHANGED vars
  PROVE  GoldenInv'
<1> USE DEF GoldenInv, Safe, Causes
<1>1. UNCHANGED <<rows, plan, call, past>>
  BY DEF Fill, vars
<1>2. chain' \in Chains /\ chain'.sent = chain.sent /\ chain'.paid = chain.paid
  <2>1. CASE Fill
    BY <2>1, TypesAre DEF Fill, Chains
  <2>2. CASE UNCHANGED vars
    BY <2>2, TypesAre DEF vars
  <2> QED
    BY <2>1, <2>2
<1>3. TypeOK'
  BY <1>1, <1>2, TypesAre DEF TypeOK, Chains
<1>4. Safe'
  BY <1>1, <1>2, <1>3 DEF CallFacts, Backing
<1>5. Causes'
  BY <1>1, <1>2 DEF Alone, Once, Mined, Calm, Unfixed, Writing, At, Phase
<1> QED
  BY <1>4, <1>5

-----------------------------------------------------------------------------
(* The phases.                                                             *)

\* A copy of the call that differs in what the phase has found.
Alike(local, k) == /\ local \in CallStates /\ local.phase = k.phase
                   /\ local.rows = k.rows /\ local.receipt = k.receipt

LEMMA LeaveKeeps ==
  ASSUME GoldenInv, NEW c \in Callers, At(c, "act"), NEW local, Alike(local, call[c]),
         Leave(c, local), UNCHANGED <<rows, chain, plan>>,
         local.phase <= 5 => Order[local.phase] \in rows.done,
         Calm => Unfixed(local)
  PROVE  GoldenInv'
<1>1. CASE Ended(c) /\ past' = EndedHistory(c)
  BY <1>1, EndKeeps, TypesAre DEF Throw, At, GoldenInv, Safe
<1>2. CASE call' = [call EXCEPT ![c] = Beyond(local)] /\ UNCHANGED past
  BY <1>2, AdvanceKeeps DEF Alike
<1> QED
  BY <1>1, <1>2 DEF Leave

LEMMA SkipKeeps ==
  ASSUME GoldenInv, NEW c \in Callers, At(c, "act"), NEW local, Alike(local, call[c]),
         Skip(c, local), Calm => Unfixed(local)
  PROVE  GoldenInv'
<1>1. Phase(c) \in rows.done /\ Phase(c) = Order[local.phase]
  BY DEF Skip, Skippable, Done, GoldenInv, Safe, CallFacts, Phase, Alike
<1> QED
  BY <1>1, LeaveKeeps DEF Skip

LEMMA ThrowKeeps ==
  ASSUME GoldenInv, NEW c \in Callers, ~At(c, "idle"), Throw(c), UNCHANGED <<rows, chain, plan>>
  PROVE  GoldenInv'
BY EndKeeps, TypesAre DEF GoldenInv, Safe

LEMMA CallIs ==
  ASSUME GoldenInv, NEW c \in Callers
  PROVE  /\ call[c] \in CallStates /\ Alike(call[c], call[c]) /\ CallFacts(call[c])
         /\ Calm => Unfixed(call[c]) /\ "fixed" \notin {rows.amount, rows.quote, chain.paid}
         /\ chain \in Chains
BY TypesAre DEF GoldenInv, Safe, Causes, Mined, Alike

LEMMA SwapKeeps ==
  ASSUME GoldenInv, NEW c \in Callers, Swap(c)
  PROVE  GoldenInv'
<1>1. At(c, "act")
  BY DEF Swap, Acting
<1>2. CASE Skip(c, call[c])
  BY <1>1, <1>2, CallIs, SkipKeeps
<1>3. CASE /\ ~Skippable(c, "swap") /\ UNCHANGED <<rows, plan>>
           /\ \E r \in {"good", "reverted"} :
                Send(c, "swap", chain, [call[c] EXCEPT !.receipt = r])
  <2> PICK r \in {"good", "reverted"} : Send(c, "swap", chain, [call[c] EXCEPT !.receipt = r])
    BY <1>3
  <2>1. PICK effect, local : /\ effect = chain /\ local = [call[c] EXCEPT !.receipt = r]
                             /\ Send(c, "swap", effect, local)
    OBVIOUS
  <2>2. /\ local \in CallStates /\ local.phase = call[c].phase /\ local.rows = call[c].rows
        /\ local.receipt = r /\ local.amount = call[c].amount /\ local.quote = call[c].quote
    BY <2>1, CallIs DEF CallStates
  <2>3. r # None /\ (Calm => Unfixed(local)) /\ (Calm => effect.paid # "fixed")
    BY <2>1, <2>2, CallIs DEF Unfixed, None
  <2>4. ~Done(c, "swap") /\ "swap" \in Sends /\ Acting(c, "swap")
    BY <1>3 DEF Skippable, Sends, Swap
  <2> QED
    BY <1>3, <2>1, <2>2, <2>3, <2>4, CallIs, SendKeeps
<1> QED
  BY <1>2, <1>3 DEF Swap

\* The call that holds no receipt at the output is not alone, or another died
\* with it.
LEMMA OutputKeeps ==
  ASSUME GoldenInv, NEW c \in Callers, Output(c)
  PROVE  GoldenInv'
<1>1. At(c, "act") /\ Phase(c) = "output" /\ call[c].phase = 2
  <2>1. At(c, "act") /\ Phase(c) = "output"
    BY DEF Output, Acting
  <2>2. Order[call[c].phase] = Order[2] /\ call[c].phase \in 1..7
    BY <2>1, OrderIs, CallIs DEF Phase, CallStates
  <2> QED
    BY <2>1, <2>2, OrderIs
<1>2. CASE Skip(c, [call[c] EXCEPT !.amount = call[c].rows.amount])
  <2>1. PICK local : local = [call[c] EXCEPT !.amount = call[c].rows.amount]
    OBVIOUS
  <2>2. Alike(local, call[c]) /\ local.amount = call[c].rows.amount /\ local.quote = call[c].quote
    BY <2>1, CallIs DEF Alike, CallStates, Rows, Amounts
  <2>3. Calm => Unfixed(local)
    BY <2>2, CallIs DEF Unfixed, Alike
  <2> QED
    BY <1>1, <1>2, <2>1, <2>2, <2>3, SkipKeeps
<1>3. CASE /\ ~Skippable(c, "output") /\ call[c].receipt # "reverted"
           /\ Acted(c, [call[c] EXCEPT !.amount = IF call[c].receipt = "good" THEN "mined"
                                                 ELSE "fixed"])
           /\ UNCHANGED <<rows, chain, plan, past>>
  <2>1. PICK local : local = [call[c] EXCEPT !.amount = IF call[c].receipt = "good" THEN "mined"
                                                        ELSE "fixed"]
    OBVIOUS
  <2>2. Alike(local, call[c]) /\ local.quote = call[c].quote
        /\ local.amount = IF call[c].receipt = "good" THEN "mined" ELSE "fixed"
    BY <2>1, CallIs DEF Alike, CallStates, Amounts
  <2>3. Calm => call[c].receipt = "good"
    <3> SUFFICES ASSUME Calm PROVE call[c].receipt # None
      BY <1>3, CallIs DEF CallStates
    <3>1. Order[1] \in rows.done /\ "output" \notin call[c].rows.done
      BY <1>1, <1>3, CallIs DEF CallFacts, Skippable, Done
    <3>2. Order[2] \notin rows.done
      <4>1. Order[2] \in rows.done <=> Order[2] \in call[c].rows.done
        BY <1>1 DEF GoldenInv, Causes, Alone, Calm, At
      <4> QED
        BY <3>1, <4>1, OrderIs
    <3>3. PICK d \in Callers : call[d].receipt # None
      BY <3>1, <3>2, OrderIs DEF GoldenInv, Causes, Mined
    <3>4. ~At(d, "idle")
      BY <3>3, CallIs DEF CallFacts, At
    <3>5. d = c
      BY <1>1, <3>4 DEF GoldenInv, Causes, Alone, Calm, At
    <3> QED
      BY <3>3, <3>5
  <2>4. Calm => Unfixed(local)
    BY <2>2, <2>3, CallIs DEF Unfixed, Alike
  <2> QED
    BY <1>1, <1>3, <2>1, <2>2, <2>4, ActKeeps DEF Alike
<1>4. CASE Throw(c) /\ UNCHANGED <<rows, chain, plan>>
  BY <1>1, <1>4, ThrowKeeps DEF At
<1> QED
  BY <1>2, <1>3, <1>4 DEF Output

\* Where a call at a phase is.
LEMMA ActingIs ==
  ASSUME GoldenInv, NEW c \in Callers, NEW i \in 1..7, Acting(c, Order[i])
  PROVE  At(c, "act") /\ ~At(c, "idle") /\ Phase(c) = Order[i] /\ call[c].phase = i
<1>1. At(c, "act") /\ Order[call[c].phase] = Order[i] /\ call[c].phase \in 1..7
  BY CallIs DEF Acting, Phase, CallStates
<1> QED
  BY <1>1, OrderIs DEF At, Phase

LEMMA QuoteKeeps ==
  ASSUME GoldenInv, NEW c \in Callers, Quote(c)
  PROVE  GoldenInv'
<1>1. At(c, "act") /\ ~At(c, "idle") /\ Phase(c) = "quote"
  BY OrderIs, ActingIs DEF Quote
<1>2. CASE Skip(c, [call[c] EXCEPT !.quote = call[c].rows.quote])
  <2>1. PICK local : local = [call[c] EXCEPT !.quote = call[c].rows.quote]
    OBVIOUS
  <2>2. Alike(local, call[c]) /\ local.quote = call[c].rows.quote /\ local.amount = call[c].amount
    BY <2>1, CallIs DEF Alike, CallStates, Rows, Amounts
  <2>3. Calm => Unfixed(local)
    BY <2>2, CallIs DEF Unfixed, Alike
  <2> QED
    BY <1>1, <1>2, <2>1, <2>2, <2>3, SkipKeeps
<1>3. CASE Acted(c, [call[c] EXCEPT !.quote = call[c].amount]) /\ UNCHANGED <<rows, chain, plan, past>>
  <2>1. PICK local : local = [call[c] EXCEPT !.quote = call[c].amount]
    OBVIOUS
  <2>2. Alike(local, call[c]) /\ local.quote = call[c].amount /\ local.amount = call[c].amount
    BY <2>1, CallIs DEF Alike, CallStates, Amounts
  <2>3. Calm => Unfixed(local)
    BY <2>2, CallIs DEF Unfixed, Alike
  <2> QED
    BY <1>1, <1>3, <2>1, <2>2, <2>3, ActKeeps DEF Alike
<1>4. CASE Throw(c) /\ UNCHANGED <<rows, chain, plan>>
  BY <1>1, <1>4, ThrowKeeps
<1> QED
  BY <1>2, <1>3, <1>4 DEF Quote

LEMMA ApprovalKeeps ==
  ASSUME GoldenInv, NEW c \in Callers, Approval(c)
  PROVE  GoldenInv'
<1>1. At(c, "act") /\ Phase(c) = "approval" /\ Acting(c, "approval")
  BY OrderIs, ActingIs DEF Approval
<1>2. CASE Skip(c, call[c])
  BY <1>1, <1>2, CallIs, SkipKeeps
<1>3. CASE Acted(c, [call[c] EXCEPT !.known = FALSE]) /\ UNCHANGED <<rows, chain, plan, past>>
  <2>1. PICK local : local = [call[c] EXCEPT !.known = FALSE]
    OBVIOUS
  <2>2. Alike(local, call[c]) /\ local.quote = call[c].quote /\ local.amount = call[c].amount
    BY <2>1, CallIs DEF Alike, CallStates
  <2>3. Calm => Unfixed(local)
    BY <2>2, CallIs DEF Unfixed, Alike
  <2> QED
    BY <1>1, <1>3, <2>1, <2>2, <2>3, ActKeeps DEF Alike
<1>4. CASE /\ ~Skippable(c, "approval") /\ UNCHANGED <<rows, plan>>
           /\ \E ok \in BOOLEAN : Send(c, "approval", [chain EXCEPT !.allowance = ok], call[c])
  <2> PICK ok \in BOOLEAN : Send(c, "approval", [chain EXCEPT !.allowance = ok], call[c])
    BY <1>4
  <2>1. PICK effect, local : /\ effect = [chain EXCEPT !.allowance = ok] /\ local = call[c]
                             /\ Send(c, "approval", effect, local)
    OBVIOUS
  <2>2. effect \in Chains /\ effect.sent = chain.sent /\ effect.paid = chain.paid
    BY <2>1, CallIs DEF Chains
  <2>3. ~Done(c, "approval") /\ "approval" \in Sends
    BY <1>4 DEF Skippable, Sends
  <2> QED
    BY <1>1, <1>4, <2>1, <2>2, <2>3, CallIs, SendKeeps DEF Alike
<1> QED
  BY <1>2, <1>3, <1>4 DEF Approval

LEMMA DepositKeeps ==
  ASSUME GoldenInv, NEW c \in Callers, Deposit(c)
  PROVE  GoldenInv'
<1>1. At(c, "act") /\ Phase(c) = "deposit" /\ Acting(c, "deposit")
  BY OrderIs, ActingIs DEF Deposit
<1>2. CASE Skip(c, call[c])
  BY <1>1, <1>2, CallIs, SkipKeeps
<1>3. CASE ~Skippable(c, "deposit") /\ UNCHANGED <<rows, plan>>
  <2> DEFINE opened == [chain EXCEPT !.allowance = FALSE, !.paid = call[c].quote,
                                     !.fill = IF chain.fill = None THEN "OPEN" ELSE chain.fill]
  <2>1. PICK effect, local : /\ effect \in {chain, opened} /\ local = call[c]
                             /\ Send(c, "deposit", effect, local)
    BY <1>1, <1>2, <1>3 DEF Deposit, Skip
  <2>2. /\ effect \in Chains /\ effect.sent = chain.sent
        /\ effect.paid \in {chain.paid, call[c].quote}
    <3>1. CASE effect = chain
      BY <3>1, CallIs
    <3>2. CASE effect = opened
      BY <3>2, CallIs DEF Chains, CallStates
    <3> QED
      BY <2>1, <3>1, <3>2
  <2>3. ~Done(c, "deposit") /\ "deposit" \in Sends
    BY <1>3 DEF Skippable, Sends
  <2>4. Calm => effect.paid # "fixed"
    BY <2>2, CallIs DEF Unfixed
  <2> QED
    BY <1>1, <1>3, <2>1, <2>2, <2>3, <2>4, CallIs, SendKeeps DEF Alike
<1> QED
  BY <1>2, <1>3 DEF Deposit

LEMMA RelayKeeps ==
  ASSUME GoldenInv, NEW c \in Callers, Relay(c)
  PROVE  GoldenInv'
<1>1. At(c, "act") /\ ~At(c, "idle") /\ Phase(c) = "relay" /\ call[c].phase = 6
  BY OrderIs, ActingIs DEF Relay
<1>2. PICK local : local = [call[c] EXCEPT !.fill = TRUE]
  OBVIOUS
<1>3. Alike(local, call[c]) /\ local.quote = call[c].quote /\ local.amount = call[c].amount
  BY <1>2, CallIs DEF Alike, CallStates
<1>4. Calm => Unfixed(local)
  BY <1>3, CallIs DEF Unfixed, Alike
<1>5. CASE Skip(c, local)
  BY <1>1, <1>3, <1>4, <1>5, SkipKeeps
<1>6. CASE Acted(c, local) /\ UNCHANGED <<rows, chain, plan, past>>
  BY <1>1, <1>3, <1>4, <1>6, ActKeeps DEF Alike
<1>7. CASE Leave(c, call[c]) /\ UNCHANGED <<rows, chain, plan>>
  BY <1>1, <1>7, CallIs, LeaveKeeps
<1>8. CASE Throw(c) /\ UNCHANGED <<rows, chain, plan>>
  BY <1>1, <1>8, ThrowKeeps
<1> QED
  BY <1>2, <1>5, <1>6, <1>7, <1>8 DEF Relay

LEMMA DestKeeps ==
  ASSUME GoldenInv, NEW c \in Callers, Dest(c)
  PROVE  GoldenInv'
<1>1. At(c, "act") /\ ~At(c, "idle") /\ Phase(c) = "dest"
  BY OrderIs, ActingIs DEF Dest
<1>2. CASE Skip(c, call[c])
  BY <1>1, <1>2, CallIs, SkipKeeps
<1>3. CASE Acted(c, call[c]) /\ UNCHANGED <<rows, chain, plan, past>>
  BY <1>1, <1>3, CallIs, ActKeeps
<1>4. CASE Throw(c) /\ UNCHANGED <<rows, chain, plan>>
  BY <1>1, <1>4, ThrowKeeps
<1> QED
  BY <1>2, <1>3, <1>4 DEF Dest

-----------------------------------------------------------------------------
(* The theorems.                                                           *)

LEMMA GoldenInit == Init => GoldenInv
<1> SUFFICES ASSUME Init PROVE GoldenInv
  OBVIOUS
<1> USE DEF Init
<1>1. Idle.phase = 1 /\ Idle.receipt = None /\ Idle.rows = NoRows
      /\ Idle.amount = None /\ Idle.quote = None /\ Idle.pc = "idle"
  BY DEF Idle
<1>2. TypeOK
  <2>1. call \in [Callers -> CallStates]
    BY IdleIs
  <2>2. past \in Pasts
    BY GoldenAssumption DEF Pasts
  <2>3. rows \in Rows /\ plan \in Plans
    BY DEF NoRows, Rows, Plans, None
  <2>4. chain \in Chains
    BY DEF Chains, Amounts, None
  <2> QED
    BY <2>1, <2>2, <2>3, <2>4, TypesAre
<1>3. Safe
  BY <1>1, <1>2 DEF Safe, CallFacts, Backing, NoRows, Settling
<1>4. Causes
  BY <1>1 DEF Causes, Alone, Once, Mined, Unfixed, At, NoRows, None
<1> QED
  BY <1>3, <1>4 DEF GoldenInv

LEMMA GoldenStep == GoldenInv /\ [Next]_vars => GoldenInv'
<1> SUFFICES ASSUME GoldenInv, [Next]_vars PROVE GoldenInv'
  OBVIOUS
<1>1. CASE Fill \/ UNCHANGED vars
  BY <1>1, FillKeeps
<1>2. ASSUME NEW c \in Callers, ReadSettlement(c) PROVE GoldenInv'
  BY <1>2, BeginKeeps
<1>3. ASSUME NEW c \in Callers, CrashCaller(c) PROVE GoldenInv'
  BY <1>3, ThrowKeeps DEF CrashCaller
<1>4. ASSUME NEW c \in Callers, Go(c) PROVE GoldenInv'
  <2>1. plan \in Plans
    BY TypesAre DEF GoldenInv, Safe
  <2>2. CASE Swap(c) \/ Output(c) \/ Quote(c) \/ Approval(c) \/ Deposit(c)
    BY <2>2, SwapKeeps, OutputKeeps, QuoteKeeps, ApprovalKeeps, DepositKeeps
  <2>3. CASE ReadSteps(c) \/ Relay(c) \/ Dest(c) \/ WriteRow(c)
    BY <2>3, StepsKeep, RelayKeeps, DestKeeps, WriteKeeps
  <2>4. CASE GetIntent(c)
    <3>1. call[c].pc \in Settling /\ \E pc \in Settling : Step(c, pc)
      BY <2>4 DEF GetIntent, At, Settling
    <3> QED
      BY <2>1, <2>4, <3>1, SettleKeeps DEF GetIntent
  <2>5. CASE CreateIntent(c)
    <3>1. call[c].pc \in Settling /\ ~At(c, "idle") /\ "record" \in Settling
      BY <2>5 DEF CreateIntent, At, Settling
    <3>2. CASE plan' = [plan EXCEPT !.intent = TRUE] /\ Step(c, "record") /\ UNCHANGED <<rows, chain, past>>
      <4>1. plan' \in Plans
        BY <2>1, <3>2 DEF Plans
      <4> QED
        BY <3>1, <3>2, <4>1, SettleKeeps
    <3>3. CASE Throw(c) /\ UNCHANGED <<rows, chain, plan>>
      BY <3>1, <3>3, ThrowKeeps
    <3> QED
      BY <2>5, <3>2, <3>3 DEF CreateIntent
  <2>6. CASE RecordSettlement(c)
    <3>1. call[c].pc \in Settling /\ "complete" \in Settling
      BY <2>6 DEF RecordSettlement, At, Settling
    <3>2. plan' \in Plans
      BY <2>1, <2>6, CallIs DEF RecordSettlement, Plans, CallStates
    <3> QED
      BY <2>6, <3>1, <3>2, SettleKeeps DEF RecordSettlement
  <2>7. CASE CompletePlan(c)
    <3>1. plan' \in Plans /\ plan'.settled = plan.settled
      BY <2>1, <2>7 DEF CompletePlan, Plans
    <3> QED
      BY <2>7, <3>1, EndKeeps DEF CompletePlan, At
  <2> QED
    BY <1>4, <2>2, <2>3, <2>4, <2>5, <2>6, <2>7 DEF Go
<1> QED
  BY <1>1, <1>2, <1>3, <1>4 DEF Next

LEMMA GoldenHolds == Spec => []GoldenInv
BY GoldenInit, GoldenStep, PTL DEF Spec

\* executeOrResume sends a transaction twice only after a call ended between a
\* send and its row, or beside another call for the plan.
THEOREM RepeatsHaveCauses == Spec => []RepeatHasCause
<1>1. GoldenInv => RepeatHasCause
  BY DEF GoldenInv, Causes, Once, RepeatHasCause
<1> QED
  BY <1>1, GoldenHolds, PTL

\* executeOrResume pays the bridge its own constant only after a call ended
\* between the swap and the row of its output, or beside another call.
THEOREM PaidIsMined == Spec => []PaidWasMined
<1>1. GoldenInv => PaidWasMined
  BY DEF GoldenInv, Causes, Mined, Calm, PaidWasMined
<1> QED
  BY <1>1, GoldenHolds, PTL

\* The rows and the settlement that executeOrResume writes are never ahead of
\* what it sent, however its calls interleave and die.
THEOREM SettledIsSent == Spec => []SettledWasSent
<1>1. GoldenInv => SettledWasSent
  BY DEF GoldenInv, Safe, Backing, SettledWasSent
<1> QED
  BY <1>1, GoldenHolds, PTL
=============================================================================
