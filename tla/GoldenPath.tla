----------------------------- MODULE GoldenPath -----------------------------
(***************************************************************************)
(* executeOrResume of the golden path coordinator: seven phases and the    *)
(* settlement, each skipped when the copy of its row, read once at the     *)
(* start, says SUCCESS.  A phase first acts on the chain, the bridge or    *)
(* the caller's memory and then, after an await, writes its row; the call  *)
(* may stop after any phase, throw or die anywhere, and be called again,   *)
(* also while another call for the same plan is at work: it takes no lease.*)
(***************************************************************************)
EXTENDS Naturals, FiniteSets

CONSTANTS
  Callers,   \* processes that may run or resume the plan
  MaxRuns,   \* calls of executeOrResume, of all callers together
  Faults     \* what may go wrong: a subset of FaultKinds

\* revert: a transaction is mined and reverts; lost: the adapter throws after
\* it has sent; crash: a process dies.
FaultKinds == {"revert", "lost", "crash"}

ASSUME GoldenAssumption == MaxRuns \in Nat /\ Faults \subseteq FaultKinds

None   == "NONE"
Order  == <<"swap", "output", "quote", "approval", "deposit", "relay", "dest">>
Phases == {Order[i] : i \in 1..7}
Sends  == {"swap", "approval", "deposit"}

VARIABLES
  rows,    \* the plan's step rows: those SUCCESS, and what they carry
  chain,   \* how often each transaction was sent; what the chain and bridge hold
  plan,    \* the intent, the settlement and the plan's overall status
  call,    \* per caller: the local state of its executeOrResume
  past     \* history: runs begun; sends whose row was not written by their
           \* sender; whether calls overlapped; whether a call ended between
           \* the swap and the row of its output

vars == <<rows, chain, plan, call, past>>

NoRows == [done |-> {}, amount |-> None, quote |-> None, hash |-> {}]
Rows   == [done : SUBSET Phases, amount : {None, "mined", "fixed"},
           quote : {None, "mined", "fixed"}, hash : SUBSET {"relay", "dest"}]

Idle == [pc |-> "idle", phase |-> 1, rows |-> NoRows, receipt |-> None, amount |-> None,
         quote |-> None, fill |-> FALSE, known |-> FALSE]

TypeOK ==
  /\ rows \in Rows
  /\ chain \in [sent : [Sends -> Nat], allowance : BOOLEAN, paid : {None, "mined", "fixed"},
                fill : {None, "OPEN", "FILLED"}]
  /\ plan \in [intent : BOOLEAN, settled : BOOLEAN, hash : BOOLEAN, completed : BOOLEAN]
  /\ call \in [Callers -> [pc : {"idle", "steps", "act", "write", "intent", "create", "record",
                                 "complete"},
                           phase : 1..7, rows : Rows, receipt : {None, "good", "reverted"},
                           amount : {None, "mined", "fixed"}, quote : {None, "mined", "fixed"},
                           fill : BOOLEAN, known : BOOLEAN]]
  /\ past \in [runs : 0..MaxRuns, torn : SUBSET Sends, overlap : BOOLEAN, split : BOOLEAN]

Init ==
  /\ rows = NoRows
  /\ chain = [sent |-> [p \in Sends |-> 0], allowance |-> FALSE, paid |-> None, fill |-> None]
  /\ plan = [intent |-> FALSE, settled |-> FALSE, hash |-> FALSE, completed |-> FALSE]
  /\ call = [c \in Callers |-> Idle]
  /\ past = [runs |-> 0, torn |-> {}, overlap |-> FALSE, split |-> FALSE]

(***************************************************************************)
(* The chain and the bridge.                                               *)
(***************************************************************************)
Fill ==
  /\ chain.fill = "OPEN"
  /\ chain' = [chain EXCEPT !.fill = "FILLED"]
  /\ UNCHANGED <<rows, plan, call, past>>

(***************************************************************************)
(* The start and the end of a call.                                        *)
(***************************************************************************)
At(c, pc)   == call[c].pc = pc
Phase(c)    == Order[call[c].phase]
Acting(c, p) == At(c, "act") /\ Phase(c) = p
Done(c, p)  == p \in call[c].rows.done

\* The call ends at whatever await it has reached.
Ended(c) == call' = [call EXCEPT ![c] = Idle]
EndedHistory(c) ==
  [past EXCEPT !.torn = IF At(c, "write") /\ Phase(c) \in Sends /\ call[c].known
                        THEN @ \cup {Phase(c)} ELSE @,
               !.split = @ \/ (call[c].receipt # None /\ "output" \notin rows.done)]

\* getSettlement, then getExecutionPlan: a verified settlement is the answer.
ReadSettlement(c) ==
  /\ At(c, "idle")
  /\ past.runs < MaxRuns
  /\ past' = [past EXCEPT !.runs = @ + 1, !.overlap = @ \/ \E d \in Callers : ~At(d, "idle")]
  /\ call' = IF plan.settled THEN call ELSE [call EXCEPT ![c].pc = "steps"]
  /\ UNCHANGED <<rows, chain, plan>>

ReadSteps(c) ==
  /\ At(c, "steps")
  /\ call' = [call EXCEPT ![c].pc = "act", ![c].rows = rows]
  /\ UNCHANGED <<rows, chain, plan, past>>

\* What no later phase reads again is left out of the local state.
Forget(local) ==
  LET p == Order[local.phase]
      extracted == local.phase >= 2
      kept == [local.rows EXCEPT !.done   = local.rows.done \ {p},
                                 !.amount = IF extracted THEN None ELSE @,
                                 !.quote  = IF local.phase >= 3 THEN None ELSE @]
  IN  [local EXCEPT !.known = FALSE, !.rows = kept,
                    !.receipt = IF extracted THEN None ELSE @,
                    !.amount  = IF local.phase >= 3 THEN None ELSE @,
                    !.quote   = IF local.phase >= 5 THEN None ELSE @]

\* A phase is over: the call goes on, or stopAfterPhase ends it.
Beyond(local) ==
  IF local.phase = 7 THEN [Forget(local) EXCEPT !.pc = "intent"]
  ELSE [Forget(local) EXCEPT !.pc = "act", !.phase = @ + 1]

Leave(c, local) ==
  \/ call' = [call EXCEPT ![c] = Beyond(local)] /\ UNCHANGED past
  \/ Ended(c) /\ past' = EndedHistory(c)

\* The action of the phase is done: its row is next.
Acted(c, local) == call' = [call EXCEPT ![c] = [local EXCEPT !.pc = "write"]]

Throw(c) == Ended(c) /\ past' = EndedHistory(c)

(***************************************************************************)
(* The phases.                                                             *)
(***************************************************************************)
\* Variant: an approval is decided by the allowance alone.
SkippableUnapproved(c, p) == Done(c, p) /\ p # "approval"

\* Whether the copy of the row lets the phase be skipped.
Skippable(c, p) ==
  /\ Done(c, p)
  /\ p \in {"relay", "dest"} => p \in call[c].rows.hash

Skip(c, local) ==
  /\ Skippable(c, Phase(c))
  /\ Leave(c, local)
  /\ UNCHANGED <<rows, chain, plan>>

\* Variant: what the adapter throws is swallowed.
SendSwallowed(c, p, effect, local) ==
  \E k \in 0..1 :
    /\ chain' = IF k = 0 THEN chain ELSE [effect EXCEPT !.sent[p] = @ + 1]
    /\ Acted(c, [local EXCEPT !.known = TRUE])
    /\ UNCHANGED past

\* The adapter sends p; what the chain makes of it is in effect.  It returns
\* with a receipt whose status only the output extractor looks at, or throws.
Send(c, p, effect, local) ==
  \/ /\ chain' = [effect EXCEPT !.sent[p] = @ + 1]
     /\ Acted(c, [local EXCEPT !.known = TRUE])
     /\ UNCHANGED past
  \/ /\ "lost" \in Faults
     /\ chain' = [effect EXCEPT !.sent[p] = @ + 1]
     /\ Ended(c)
     /\ past' = [EndedHistory(c) EXCEPT !.torn = @ \cup {p}]
  \/ Throw(c) /\ UNCHANGED chain                              \* nothing was sent

Swap(c) ==
  /\ Acting(c, "swap")
  /\ \/ Skip(c, call[c])
     \/ /\ ~Skippable(c, "swap")
        /\ \E r \in {"good"} \cup (IF "revert" \in Faults THEN {"reverted"} ELSE {}) :
             Send(c, "swap", chain, [call[c] EXCEPT !.receipt = r])
        /\ UNCHANGED <<rows, plan>>

\* Variant: a receipt that is refused is replaced by the constant.
OutputFixed(c) ==
  /\ Acting(c, "output")
  /\ \/ Skip(c, [call[c] EXCEPT !.amount = call[c].rows.amount])
     \/ /\ ~Skippable(c, "output")
        /\ Acted(c, [call[c] EXCEPT !.amount = IF call[c].receipt = "good" THEN "mined" ELSE "fixed"])
        /\ UNCHANGED <<rows, chain, plan, past>>

\* From the receipt if this call holds it, which may be refused; otherwise a
\* constant of the program.
Output(c) ==
  /\ Acting(c, "output")
  /\ \/ Skip(c, [call[c] EXCEPT !.amount = call[c].rows.amount])
     \/ /\ ~Skippable(c, "output")
        /\ IF call[c].receipt = "reverted" THEN Throw(c)
           ELSE /\ Acted(c, [call[c] EXCEPT !.amount =
                               IF call[c].receipt = "good" THEN "mined" ELSE "fixed"])
                /\ UNCHANGED past
        /\ UNCHANGED <<rows, chain, plan>>

Quote(c) ==
  /\ Acting(c, "quote")
  /\ \/ Skip(c, [call[c] EXCEPT !.quote = call[c].rows.quote])
     \/ /\ ~Skippable(c, "quote")
        /\ \/ Acted(c, [call[c] EXCEPT !.quote = call[c].amount]) /\ UNCHANGED past
           \/ Throw(c)
        /\ UNCHANGED <<rows, chain, plan>>

\* checkAllowance, and the approval if it is too low.
Approval(c) ==
  /\ Acting(c, "approval")
  /\ \/ Skip(c, call[c])
     \/ /\ ~Skippable(c, "approval")
        /\ IF chain.allowance
           THEN Acted(c, [call[c] EXCEPT !.known = FALSE]) /\ UNCHANGED <<chain, past>>
           ELSE \E ok \in {TRUE} \cup (IF "revert" \in Faults THEN {FALSE} ELSE {}) :
                  Send(c, "approval", [chain EXCEPT !.allowance = ok], call[c])
        /\ UNCHANGED <<rows, plan>>

\* A deposit that succeeds spends the allowance and opens the relay.
Deposit(c) ==
  /\ Acting(c, "deposit")
  /\ \/ Skip(c, call[c])
     \/ /\ ~Skippable(c, "deposit")
        /\ \/ /\ chain.allowance
              /\ Send(c, "deposit", [chain EXCEPT !.allowance = FALSE, !.paid = call[c].quote,
                                       !.fill = IF @ = None THEN "OPEN" ELSE @], call[c])
           \/ /\ ~chain.allowance \/ "revert" \in Faults
              /\ Send(c, "deposit", chain, call[c])
        /\ UNCHANGED <<rows, plan>>

\* One poll: without a fill no row is written and the call goes on.
Relay(c) ==
  /\ Acting(c, "relay")
  /\ \/ Skip(c, [call[c] EXCEPT !.fill = TRUE])
     \/ /\ ~Skippable(c, "relay")
        /\ \/ chain.fill = "FILLED" /\ Acted(c, [call[c] EXCEPT !.fill = TRUE]) /\ UNCHANGED past
           \/ chain.fill # "FILLED" /\ Leave(c, call[c])
           \/ Throw(c)
        /\ UNCHANGED <<rows, chain, plan>>

\* The receipt is fetched, and nothing of it is looked at.
Dest(c) ==
  /\ Acting(c, "dest")
  /\ \/ Skip(c, call[c])
     \/ /\ ~Skippable(c, "dest")
        /\ \/ Acted(c, call[c]) /\ UNCHANGED past
           \/ Throw(c)
        /\ UNCHANGED <<rows, chain, plan>>

\* updatePlanStep of the phase's row to SUCCESS, over whatever it says.
WriteRow(c) ==
  /\ At(c, "write")
  /\ LET p == Phase(c)
     IN  rows' = [done   |-> rows.done \cup {p},
                  amount |-> IF p = "output" THEN call[c].amount ELSE rows.amount,
                  quote  |-> IF p = "quote" THEN call[c].quote ELSE rows.quote,
                  hash   |-> IF p \in {"relay", "dest"} /\ call[c].fill
                             THEN rows.hash \cup {p} ELSE rows.hash \ ({p} \cap {"dest"})]
  /\ \/ call' = [call EXCEPT ![c] = Beyond(call[c])] /\ UNCHANGED past
     \/ /\ Ended(c)
        /\ past' = [past EXCEPT !.split =
                      @ \/ (call[c].receipt # None /\ "output" \notin rows'.done)]
  /\ UNCHANGED <<chain, plan>>

(***************************************************************************)
(* The settlement.                                                         *)
(***************************************************************************)
Step(c, pc) == call' = [call EXCEPT ![c].pc = pc]

GetIntent(c) ==
  /\ At(c, "intent")
  /\ Step(c, IF plan.intent THEN "record" ELSE "create")
  /\ UNCHANGED <<rows, chain, plan, past>>

\* Variant: the call waits until it can create the intent.
CreateIntentWaits(c) ==
  /\ At(c, "create") /\ ~plan.intent
  /\ plan' = [plan EXCEPT !.intent = TRUE]
  /\ Step(c, "record")
  /\ UNCHANGED <<rows, chain, past>>

\* createIntent throws when another call has created the intent meanwhile.
CreateIntent(c) ==
  /\ At(c, "create")
  /\ \/ ~plan.intent /\ plan' = [plan EXCEPT !.intent = TRUE] /\ Step(c, "record") /\ UNCHANGED past
     \/ plan.intent /\ Throw(c) /\ UNCHANGED plan
  /\ UNCHANGED <<rows, chain>>

RecordSettlement(c) ==
  /\ At(c, "record")
  /\ plan' = [plan EXCEPT !.settled = TRUE, !.hash = call[c].fill]
  /\ Step(c, "complete")
  /\ UNCHANGED <<rows, chain, past>>

CompletePlan(c) ==
  /\ At(c, "complete")
  /\ plan' = [plan EXCEPT !.completed = TRUE]
  /\ Throw(c)
  /\ UNCHANGED <<rows, chain>>

CrashCaller(c) ==
  /\ "crash" \in Faults
  /\ ~At(c, "idle")
  /\ Throw(c)
  /\ UNCHANGED <<rows, chain, plan>>

(***************************************************************************)
(* Next.                                                                   *)
(***************************************************************************)
Go(c) ==
  \/ ReadSteps(c) \/ Swap(c) \/ Output(c) \/ Quote(c) \/ Approval(c) \/ Deposit(c)
  \/ Relay(c) \/ Dest(c) \/ WriteRow(c) \/ GetIntent(c) \/ CreateIntent(c)
  \/ RecordSettlement(c) \/ CompletePlan(c)

Next == Fill \/ \E c \in Callers : ReadSettlement(c) \/ Go(c) \/ CrashCaller(c)

Spec == Init /\ [][Next]_vars /\ \A c \in Callers : WF_vars(Go(c))

(***************************************************************************)
(* Properties.                                                             *)
(***************************************************************************)
\* A transaction is sent twice only if a call ended between a send and its
\* row, or two calls for the plan overlapped: resuming after a completed phase,
\* or after an error before a send, never sends again.
RepeatHasCause ==
  \A p \in Sends : chain.sent[p] > 1 => p \in past.torn \/ past.overlap

\* The bridge is paid an amount other than the one the swap's receipt shows
\* only if a call ended between the swap and the row of its output, or the
\* transaction's row was written by another call: the constant that stands in
\* for the receipt is never used by the call that holds one.
PaidWasMined ==
  chain.paid = "fixed" => past.split \/ "swap" \in past.torn \/ past.overlap

\* The rows never run ahead of the chain: a deposit row needs a quote row for
\* the recorded amount, and a settlement a deposit and a swap that were sent,
\* though each call decides by rows that it read before the others wrote.
SettledWasSent ==
  /\ TypeOK
  /\ "deposit" \in rows.done => chain.sent["deposit"] > 0 /\ {"quote", "approval"} \subseteq rows.done
  /\ plan.settled => \A p \in {"swap", "deposit"} : chain.sent[p] > 0 /\ p \in rows.done

\* Every call ends, also one that another call overtakes.
CallEnds == \A c \in Callers : At(c, "steps") ~> At(c, "idle")

\* Not guaranteed: a settlement that is recorded as verified names the fill it rests on.
SettledHasFill == plan.settled => plan.hash
=============================================================================
