-------------------------- MODULE TradeStoreProofs --------------------------
(***************************************************************************)
(* For every set of chains, accounts, amounts and calls, and however often *)
(* the user, the wallet and the timers act: a quote that is left standing  *)
(* is of the form and the account, and a disconnect lasts.                 *)
(***************************************************************************)
EXTENDS TradeStore, TLAPS

Calling == [pc : {"idle", "switch", "signer", "running", "refresh"},
            user : Accounts \cup {None}, signer : Accounts \cup {None},
            ask : Asks \cup {None}]

Wallets == [connected : BOOLEAN, address : Accounts \cup {None},
            signer : Accounts \cup {None}, heard : BOOLEAN]

Waiting == [kind : {"connect", "restore", "account", "chain"},
            pc : {"asked", "signer", "refresh", "plan"}, account : Accounts \cup {None}]

Pasts == [edits : 0..MaxEdits, moves : 0..MaxMoves, emptied : BOOLEAN, left : BOOLEAN,
          late : BOOLEAN, resumed : BOOLEAN]

Typed ==
  /\ form \in Forms /\ timer \in BOOLEAN
  /\ asks \subseteq [ask : Asks, latest : BOOLEAN]
  /\ quote \in Asks \cup {None}
  /\ wallet \in Wallets
  /\ selected \in Accounts
  /\ tasks \subseteq Waiting
  /\ executing \in BOOLEAN
  /\ call \in [Calls -> Calling]
  /\ stored \in [off : BOOLEAN, session : BOOLEAN, plan : BOOLEAN]
  /\ past \in Pasts

\* What is asked for, or shown, is of form f and, where wallet w is connected,
\* of its account.
Fits(q, f, w) == q.form = f /\ (w.connected => q.user = w.address)

\* Another quote will be asked for: the amount's timer runs, or a connection
\* or a wallet's event is about to ask.
Settling == timer \/ \E t \in tasks : t.pc = "refresh"

\* The latest quote that is asked for fits and, with none, the one shown does.
\* A timer runs for an amount only, and a form without one is not being asked
\* about: that is what the exception stands for.
AskOK ==
  /\ timer => form.amount # 0
  /\ form.amount = 0 /\ Asking => past.emptied
  /\ ~Settling /\ ~past.emptied =>
       /\ \A a \in asks : a.latest => Fits(a.ask, form, wallet)
       /\ ~Asking /\ quote # None => Fits(quote, form, wallet)

\* Who left is not remembered, and nothing awaits the wallet that would bring
\* a connection back.
LeftOK ==
  past.left /\ ~past.late =>
    /\ ~wallet.connected /\ stored.off /\ ~stored.session
    /\ \A t \in tasks : t.pc \notin {"asked", "signer"}

StoreInv == Typed /\ AskOK /\ LeftOK

LEMMA InvImpliesTypes == StoreInv => TypeOK
<1> SUFFICES ASSUME Typed PROVE TypeOK
  BY DEF StoreInv
<1>1. \A c \in Calls : call[c] \in Calling
  BY DEF Typed
<1> QED
  BY <1>1 DEF Typed, TypeOK, Calling, Wallets, Waiting, Pasts

-----------------------------------------------------------------------------
(***************************************************************************)
(* The form.                                                               *)
(***************************************************************************)
LEMMA TokenTypes ==
  /\ \A ch \in Chains : Native(ch) \in Tokens /\ Stable(ch) \in Tokens
  /\ \A t \in Tokens : t[1] \in Chains /\ Other(t) \in Tokens
<1>1. \A ch \in Chains : Native(ch) \in Tokens /\ Stable(ch) \in Tokens
  BY DEF Native, Stable, Tokens, Kinds
<1>2. ASSUME NEW t \in Tokens PROVE t[1] \in Chains /\ Other(t) \in Tokens
  <2>1. PICK ch \in Chains, k \in Kinds : t = <<ch, k>>
    BY DEF Tokens
  <2>2. t[1] = ch
    BY <2>1
  <2>3. <<ch, "native">> # <<ch, "stable">>
    OBVIOUS
  <2>4. \E u \in Tokens : u[1] = t[1] /\ u # t
    <3>1. CASE k = "native"
      <4>1. Stable(ch) \in Tokens /\ Stable(ch)[1] = ch /\ Stable(ch) # t
        BY <1>1, <2>1, <2>3, <3>1 DEF Stable
      <4> QED
        BY <4>1, <2>2
    <3>2. CASE k = "stable"
      <4>1. Native(ch) \in Tokens /\ Native(ch)[1] = ch /\ Native(ch) # t
        BY <1>1, <2>1, <2>3, <3>2 DEF Native
      <4> QED
        BY <4>1, <2>2
    <3> QED
      BY <3>1, <3>2 DEF Kinds
  <2> QED
    BY <2>2, <2>4 DEF Other
<1> QED
  BY <1>1, <1>2

LEMMA PairType ==
  ASSUME NEW f \in Forms, NEW in \in Tokens, NEW out \in Tokens
  PROVE  Pair(f, in, out) \in Forms /\ Pair(f, in, out).amount = f.amount
BY DEF Pair, Forms

LEMMA DefaultType == Default \in Forms /\ Default.amount = 1
BY StoreAssumption, TokenTypes DEF Default, Forms

\* Every setter of a chain or a token leaves the amount.
LEMMA SettersType ==
  ASSUME form \in Forms
  PROVE  /\ \A ch \in Chains : /\ SourceChainSet(ch) \in Forms
                               /\ DestChainSet(ch) \in Forms
         /\ \A t \in Tokens : TokenInSet(t) \in Forms /\ TokenOutSet(t) \in Forms
         /\ TokensSwitched \in Forms
         /\ \A f \in OnChain : f \in Forms /\ f.amount = form.amount
<1>1. form.in \in Tokens /\ form.out \in Tokens
  BY DEF Forms
<1>2. ASSUME NEW ch \in Chains
      PROVE  SourceChainSet(ch) \in Forms /\ DestChainSet(ch) \in Forms
  BY <1>1, TokenTypes, PairType DEF SourceChainSet, DestChainSet
<1>3. ASSUME NEW t \in Tokens
      PROVE  TokenInSet(t) \in Forms /\ TokenOutSet(t) \in Forms
  <2>1. /\ Stable(t[1]) \in Tokens /\ Other(t) \in Tokens
    BY TokenTypes
  <2>2. Other(form.in) \in Tokens
    BY <1>1, TokenTypes
  <2>3. TokenInSet(t) \in Forms
    BY <1>1, <2>1, PairType DEF TokenInSet
  <2>4. TokenOutSet(t) \in Forms
    BY <1>1, <2>1, PairType DEF TokenOutSet
  <2> QED
    BY <2>3, <2>4
<1>4. TokensSwitched \in Forms
  BY <1>1, PairType DEF TokensSwitched
<1>5. \A f \in OnChain : f \in Forms /\ f.amount = form.amount
  BY TokenTypes, PairType DEF OnChain
<1> QED
  BY <1>2, <1>3, <1>4, <1>5

-----------------------------------------------------------------------------
(***************************************************************************)
(* What every action relies on.                                            *)
(***************************************************************************)
\* A move changes nothing of the history but what it says.
LEMMA MovePast ==
  ASSUME past \in Pasts, NEW p \in Pasts, p.moves = past.moves, p.edits = past.edits,
         Move(p) \/ Edited(p)
  PROVE  /\ past' \in Pasts /\ past'.emptied = p.emptied /\ past'.left = p.left
         /\ past'.late = p.late /\ past'.resumed = p.resumed
<1>1. past.moves \in 0..MaxMoves /\ past.edits \in 0..MaxEdits
  BY DEF Pasts
<1>2. CASE Move(p)
  <2>1. past.moves + 1 \in 0..MaxMoves
    BY <1>1, <1>2, StoreAssumption DEF Move
  <2> QED
    BY <1>2, <2>1 DEF Move, Pasts
<1>3. CASE Edited(p)
  <2>1. past.edits + 1 \in 0..MaxEdits
    BY <1>1, <1>3, StoreAssumption DEF Edited
  <2> QED
    BY <1>3, <2>1 DEF Edited, Pasts
<1> QED
  BY <1>2, <1>3

LEMMA AskEffect ==
  ASSUME asks \subseteq [ask : Asks, latest : BOOLEAN], quote \in Asks \cup {None},
         NEW f \in Forms, NEW u \in Accounts \cup {None}, Ask(f, u)
  PROVE  /\ timer' = FALSE
         /\ asks' \subseteq [ask : Asks, latest : BOOLEAN] /\ quote' \in Asks \cup {None}
         /\ f.amount = 0 => asks' = asks /\ quote' = None
         /\ f.amount # 0 =>
              /\ Asking' /\ quote' = quote
              /\ \A a \in asks' : a.latest => a.ask = [form |-> f, user |-> u]
<1>1. timer' = FALSE
  BY DEF Ask
<1>2. CASE f.amount = 0
  BY <1>1, <1>2 DEF Ask
<1>3. CASE f.amount # 0
  <2> DEFINE q == [form |-> f, user |-> u]
             old == {[a EXCEPT !.latest = FALSE] : a \in asks}
             new == [ask |-> q, latest |-> TRUE]
  <2>1. asks' = old \cup {new} /\ quote' = quote
    BY <1>3 DEF Ask
  <2>2. q \in Asks
    BY DEF Asks
  <2>3. \A a \in old : a \in [ask : Asks, latest : BOOLEAN] /\ ~a.latest
    OBVIOUS
  <2>4. new \in [ask : Asks, latest : BOOLEAN] /\ new.latest /\ new.ask = q
    BY <2>2
  <2>5. Asking'
    BY <2>1, <2>4 DEF Asking
  <2> HIDE DEF q, old, new
  <2>6. asks' \subseteq [ask : Asks, latest : BOOLEAN]
    BY <2>1, <2>3, <2>4
  <2>7. \A a \in asks' : a.latest => a.ask = q
    BY <2>1, <2>3, <2>4
  <2> QED
    BY <1>1, <1>3, <2>1, <2>5, <2>6, <2>7 DEF q
<1> QED
  BY <1>2, <1>3

\* A quote is asked for.
LEMMA AskedFits ==
  ASSUME Typed, AskOK, form' \in Forms, form'.amount = form.amount,
         Ask(form', wallet.address),
         wallet'.connected = wallet.connected, wallet'.address = wallet.address,
         past'.emptied = (past.emptied /\ form'.amount = 0)
  PROVE  AskOK'
<1> PICK f \in Forms : f = form'
  OBVIOUS
<1> PICK u \in Accounts \cup {None} : u = wallet.address
  BY DEF Typed, Wallets
<1>1. /\ timer' = FALSE
      /\ f.amount = 0 => asks' = asks /\ quote' = None
      /\ f.amount # 0 =>
           /\ Asking' /\ quote' = quote
           /\ \A a \in asks' : a.latest => a.ask = [form |-> f, user |-> u]
  BY AskEffect DEF Typed
<1>2. CASE f.amount = 0
  BY <1>1, <1>2 DEF AskOK, Asking
<1>3. CASE f.amount # 0
  <2>1. ASSUME NEW a \in asks', a.latest PROVE Fits(a.ask, form, wallet)'
    <3>1. a.ask.form = f /\ a.ask.user = u
      BY <1>1, <1>3, <2>1
    <3> QED
      BY <3>1 DEF Fits
  <2> QED
    BY <1>1, <1>3, <2>1 DEF AskOK
<1> QED
  BY <1>2, <1>3

\* Nothing of the form and the quotes changes, and the account only leaves.
LEMMA AskKept ==
  ASSUME AskOK, UNCHANGED <<form, timer, asks, quote>>,
         \A t \in tasks : t.pc = "refresh" => \E s \in tasks' : s.pc = "refresh",
         past'.emptied = past.emptied,
         wallet'.connected => wallet.connected /\ wallet'.address = wallet.address
  PROVE  AskOK'
<1>1. Settling => Settling'
  BY DEF Settling
<1>2. Asking' <=> Asking
  BY DEF Asking
<1>3. \A q : Fits(q, form, wallet) => Fits(q, form, wallet)'
  BY DEF Fits
<1> QED
  BY <1>1, <1>2, <1>3 DEF AskOK

\* The form moves to a chain, or the account changes, until a quote is asked for.
LEMMA AskAwaited ==
  ASSUME AskOK, UNCHANGED <<timer, asks, quote, past>>, form'.amount = form.amount,
         \E t \in tasks' : t.pc = "refresh"
  PROVE  AskOK'
BY DEF AskOK, Asking, Settling

LEMMA LeftKept ==
  ASSUME LeftOK, past'.left = past.left, past'.late = past.late,
         stored'.off = stored.off, stored'.session = stored.session,
         wallet'.connected => wallet.connected,
         \A t \in tasks' : t.pc \in {"asked", "signer"} => t \in tasks
  PROVE  LeftOK'
<1> QED
  BY DEF LeftOK

LEMMA TaskTypes ==
  ASSUME NEW kind \in {"connect", "restore", "account", "chain"},
         NEW pc \in {"asked", "signer", "refresh", "plan"}, NEW a \in Accounts \cup {None}
  PROVE  Task(kind, pc, a) \in Waiting /\ Task(kind, pc, a).pc = pc
BY DEF Task, Waiting

\* A task that goes on to pc is the only one that is new there.
LEMMA IntoTypes ==
  ASSUME tasks \subseteq Waiting, NEW t \in tasks,
         NEW pc \in {"asked", "signer", "refresh", "plan"}, Into(t, pc)
  PROVE  /\ tasks' \subseteq Waiting
         /\ \E s \in tasks' : s.pc = pc
         /\ \A s \in tasks' : s \in tasks \/ s.pc = pc
         /\ \A s \in tasks : s # t => s \in tasks'
<1>1. [t EXCEPT !.pc = pc] \in Waiting /\ [t EXCEPT !.pc = pc].pc = pc
  BY DEF Waiting
<1>2. PICK s : s = [t EXCEPT !.pc = pc]
  OBVIOUS
<1> QED
  BY <1>1, <1>2 DEF Into

-----------------------------------------------------------------------------
(***************************************************************************)
(* The form and its quotes.                                                *)
(***************************************************************************)
LEMMA FetchHolds ==
  ASSUME StoreInv, NEW f \in Forms, f.amount = form.amount, Fetch(f)
  PROVE  StoreInv'
<1>1. Typed /\ AskOK /\ LeftOK
  BY DEF StoreInv
<1> PICK p : p = [past EXCEPT !.emptied = @ /\ f.amount = 0]
  OBVIOUS
<1>2. /\ p \in Pasts /\ p.moves = past.moves /\ p.edits = past.edits
      /\ p.emptied = (past.emptied /\ f.amount = 0)
      /\ p.left = past.left /\ p.late = past.late
  BY <1>1 DEF Typed, Pasts
<1>3. Edited(p)
  BY DEF Fetch
<1>4. /\ past' \in Pasts /\ past'.emptied = p.emptied /\ past'.left = p.left
      /\ past'.late = p.late
  BY <1>1, <1>2, <1>3, MovePast DEF Typed
<1>5. /\ form' = f /\ Ask(f, wallet.address)
      /\ UNCHANGED <<wallet, selected, tasks, executing, call, stored>>
  BY DEF Fetch
<1>6. wallet.address \in Accounts \cup {None}
  BY <1>1 DEF Typed, Wallets
<1>7. /\ timer' = FALSE /\ asks' \subseteq [ask : Asks, latest : BOOLEAN]
      /\ quote' \in Asks \cup {None}
  BY <1>1, <1>5, <1>6, AskEffect DEF Typed
<1>8. Typed'
  BY <1>1, <1>4, <1>5, <1>7 DEF Typed
<1>9. AskOK'
  BY <1>1, <1>2, <1>4, <1>5, AskedFits
<1>10. LeftOK'
  BY <1>1, <1>2, <1>4, <1>5, LeftKept
<1> QED
  BY <1>8, <1>9, <1>10 DEF StoreInv

LEMMA SettersKeepAmount ==
  ASSUME form \in Forms
  PROVE  /\ \A ch \in Chains : /\ SourceChainSet(ch).amount = form.amount
                               /\ DestChainSet(ch).amount = form.amount
         /\ \A t \in Tokens : /\ TokenInSet(t).amount = form.amount
                              /\ TokenOutSet(t).amount = form.amount
         /\ TokensSwitched.amount = form.amount
<1>1. \A in, out : Pair(form, in, out).amount = form.amount
  BY DEF Pair, Forms
<1> QED
  BY <1>1 DEF SourceChainSet, DestChainSet, TokenInSet, TokenOutSet, TokensSwitched

LEMMA EditHolds == ASSUME StoreInv, Edit PROVE StoreInv'
<1>1. form \in Forms
  BY DEF StoreInv, Typed
<1>2. \E f \in Forms : f.amount = form.amount /\ Fetch(f)
  <2>1. CASE \E ch \in Chains : Fetch(SourceChainSet(ch)) \/ Fetch(DestChainSet(ch))
    BY <1>1, <2>1, SettersType, SettersKeepAmount
  <2>2. CASE \E t \in Tokens : Fetch(TokenInSet(t)) \/ Fetch(TokenOutSet(t))
    BY <1>1, <2>2, SettersType, SettersKeepAmount
  <2>3. CASE Fetch(TokensSwitched)
    BY <1>1, <2>3, SettersType, SettersKeepAmount
  <2>4. CASE Fetch(form)
    BY <1>1, <2>4
  <2> QED
    BY <2>1, <2>2, <2>3, <2>4 DEF Edit
<1> QED
  BY <1>2, FetchHolds

LEMMA SetAmountHolds ==
  ASSUME StoreInv, NEW x \in Amounts \cup {0}, SetAmountIn(x)
  PROVE  StoreInv'
<1>1. Typed /\ AskOK /\ LeftOK
  BY DEF StoreInv
<1> PICK p : p = [past EXCEPT !.emptied = @ \/ (x = 0 /\ Asking)]
  OBVIOUS
<1>2. /\ p \in Pasts /\ p.moves = past.moves /\ p.edits = past.edits
      /\ p.emptied = (past.emptied \/ (x = 0 /\ Asking))
      /\ p.left = past.left /\ p.late = past.late
  BY <1>1 DEF Typed, Pasts, Asking
<1>3. Edited(p)
  BY DEF SetAmountIn
<1>4. /\ past' \in Pasts /\ past'.emptied = p.emptied /\ past'.left = p.left
      /\ past'.late = p.late
  BY <1>1, <1>2, <1>3, MovePast DEF Typed
<1>5. /\ form' = [form EXCEPT !.amount = x]
      /\ timer' = (x > 0) /\ quote' = IF x = 0 THEN None ELSE quote
      /\ UNCHANGED <<asks, wallet, selected, tasks, executing, call, stored>>
  BY DEF SetAmountIn
<1>6. x \in Nat /\ (x > 0 <=> x # 0)
  BY StoreAssumption
<1>7. form' \in Forms /\ form'.amount = x
  BY <1>1, <1>5 DEF Typed, Forms
<1>8. Typed'
  BY <1>1, <1>4, <1>5, <1>7 DEF Typed
<1>9. AskOK'
  <2>1. CASE x = 0
    <3>1. ~timer' /\ quote' = None
      BY <1>5, <1>6, <2>1
    <3>2. Asking' => past'.emptied
      BY <1>2, <1>4, <1>5, <2>1 DEF Asking
    <3> QED
      BY <1>5, <3>1, <3>2 DEF AskOK, Asking
  <2>2. CASE x # 0
    BY <1>5, <1>6, <1>7, <2>2 DEF AskOK, Settling
  <2> QED
    BY <2>1, <2>2
<1>10. LeftOK'
  BY <1>1, <1>2, <1>4, <1>5, LeftKept
<1> QED
  BY <1>8, <1>9, <1>10 DEF StoreInv

LEMMA DebouncedHolds == ASSUME StoreInv, Debounced PROVE StoreInv'
<1>1. Typed /\ AskOK /\ LeftOK
  BY DEF StoreInv
<1>2. /\ timer /\ Ask(form, wallet.address)
      /\ past' = [past EXCEPT !.emptied = FALSE]
      /\ UNCHANGED <<form, wallet, selected, tasks, executing, call, stored>>
  BY DEF Debounced
<1>3. form.amount # 0
  BY <1>1, <1>2 DEF AskOK
<1>4. /\ past' \in Pasts /\ past'.emptied = FALSE /\ past'.left = past.left
      /\ past'.late = past.late
  BY <1>1, <1>2 DEF Typed, Pasts
<1>5. wallet.address \in Accounts \cup {None}
  BY <1>1 DEF Typed, Wallets
<1>6. /\ timer' = FALSE /\ asks' \subseteq [ask : Asks, latest : BOOLEAN]
      /\ quote' \in Asks \cup {None}
  BY <1>1, <1>2, <1>5, AskEffect DEF Typed
<1>7. Typed'
  BY <1>1, <1>2, <1>4, <1>6 DEF Typed
<1>8. AskOK'
  BY <1>1, <1>2, <1>3, <1>4, AskedFits DEF Typed
<1>9. LeftOK'
  BY <1>1, <1>2, <1>4, LeftKept
<1> QED
  BY <1>7, <1>8, <1>9 DEF StoreInv

\* An answer to an older request changes nothing; one to the latest fits.
LEMMA AnswerHolds == ASSUME StoreInv, NEW a \in asks, Answer(a) PROVE StoreInv'
<1>1. Typed /\ AskOK /\ LeftOK
  BY DEF StoreInv
<1>2. /\ asks' = asks \ {a}
      /\ quote' \in IF a.latest THEN {a.ask, None} ELSE {quote}
      /\ UNCHANGED <<form, timer, wallet, selected, tasks, executing, call, stored, past>>
  BY DEF Answer
<1>3. a.ask \in Asks
  BY <1>1 DEF Typed
<1>4. Typed'
  BY <1>1, <1>2, <1>3 DEF Typed
<1>5. AskOK'
  <2>1. Asking' => Asking
    BY <1>2 DEF Asking
  <2>2. ASSUME ~Settling, ~past.emptied, ~Asking', quote' # None
        PROVE  Fits(quote, form, wallet)'
    <3>1. CASE a.latest
      <4>1. Fits(a.ask, form, wallet) /\ quote' = a.ask
        BY <1>1, <1>2, <2>2, <3>1 DEF AskOK
      <4> QED
        BY <1>2, <4>1 DEF Fits
    <3>2. CASE ~a.latest
      <4>1. ~Asking /\ quote' = quote
        BY <1>2, <2>2, <3>2 DEF Asking
      <4> QED
        BY <1>1, <1>2, <2>2, <4>1 DEF AskOK, Fits
    <3> QED
      BY <3>1, <3>2
  <2> QED
    BY <1>1, <1>2, <2>1, <2>2 DEF AskOK, Settling, Fits
<1>6. LeftOK'
  BY <1>1, <1>2, LeftKept
<1> QED
  BY <1>4, <1>5, <1>6 DEF StoreInv

-----------------------------------------------------------------------------
(***************************************************************************)
(* The wallet.                                                             *)
(***************************************************************************)
LEMMA ConnectHolds == ASSUME StoreInv, Connect PROVE StoreInv'
<1>1. Typed /\ AskOK
  BY DEF StoreInv
<1> PICK p : p = [past EXCEPT !.left = FALSE, !.late = FALSE]
  OBVIOUS
<1>2. /\ p \in Pasts /\ p.moves = past.moves /\ p.edits = past.edits
      /\ p.emptied = past.emptied /\ ~p.left
  BY <1>1 DEF Typed, Pasts
<1>3. Move(p)
  BY DEF Connect
<1>4. past' \in Pasts /\ past'.emptied = p.emptied /\ past'.left = p.left
  BY <1>1, <1>2, <1>3, MovePast DEF Typed
<1>5. /\ tasks' = tasks \cup {Task("connect", "asked", None)}
      /\ wallet' = [wallet EXCEPT !.heard = FALSE]
      /\ stored' = [stored EXCEPT !.off = FALSE]
      /\ UNCHANGED <<form, timer, asks, quote, selected, executing, call>>
  BY DEF Connect
<1>6. wallet' \in Wallets /\ wallet'.connected = wallet.connected
      /\ wallet'.address = wallet.address
  BY <1>1, <1>5 DEF Typed, Wallets
<1>7. tasks' \subseteq Waiting
  BY <1>1, <1>5, TaskTypes DEF Typed
<1>8. Typed'
  BY <1>1, <1>4, <1>5, <1>6, <1>7 DEF Typed
<1>9. AskOK'
  BY <1>1, <1>2, <1>4, <1>5, <1>6, AskKept
<1>10. LeftOK'
  BY <1>2, <1>4 DEF LeftOK
<1> QED
  BY <1>8, <1>9, <1>10 DEF StoreInv

LEMMA ConnectAnsweredHolds ==
  ASSUME StoreInv, NEW t \in tasks, ConnectAnswered(t)
  PROVE  StoreInv'
<1>1. Typed /\ AskOK /\ LeftOK
  BY DEF StoreInv
<1>2. t.pc = "asked" /\ t \in Waiting
  BY <1>1 DEF ConnectAnswered, Typed
<1>3. UNCHANGED <<form, timer, asks, quote, selected, executing, call, stored, past>>
  BY DEF ConnectAnswered
<1>4. /\ wallet' \in Wallets /\ wallet'.address = wallet.address
      /\ wallet'.connected => wallet.connected
  <2>1. CASE wallet' = wallet
    BY <1>1, <2>1 DEF Typed
  <2>2. CASE wallet' = [wallet EXCEPT !.connected = FALSE]
    BY <1>1, <2>2 DEF Typed, Wallets
  <2> QED
    BY <2>1, <2>2 DEF ConnectAnswered
<1>5. tasks' \subseteq Waiting /\ \A s \in tasks : s.pc = "refresh" => s \in tasks'
  <2>1. CASE tasks' = (tasks \ {t}) \cup {Task(t.kind, "signer", selected)}
    <3>1. t.kind \in {"connect", "restore", "account", "chain"} /\ selected \in Accounts
      BY <1>1, <1>2 DEF Waiting, Typed
    <3>2. Task(t.kind, "signer", selected) \in Waiting
      BY <3>1, TaskTypes
    <3> QED
      BY <1>1, <1>2, <2>1, <3>2 DEF Typed
  <2>2. CASE Over(t)
    BY <1>1, <1>2, <2>2 DEF Over, Typed
  <2>3. CASE Into(t, "plan")
    BY <1>1, <1>2, <2>3, IntoTypes DEF Typed
  <2> QED
    BY <2>1, <2>2, <2>3 DEF ConnectAnswered
<1>6. Typed'
  BY <1>1, <1>3, <1>4, <1>5 DEF Typed
<1>7. AskOK'
  BY <1>1, <1>3, <1>4, <1>5, AskKept
<1>8. LeftOK'
  BY <1>1, <1>2, <1>3 DEF LeftOK
<1> QED
  BY <1>6, <1>7, <1>8 DEF StoreInv

LEMMA SessionTypes ==
  ASSUME stored \in [off : BOOLEAN, session : BOOLEAN, plan : BOOLEAN], SessionStored
  PROVE  stored' \in [off : BOOLEAN, session : BOOLEAN, plan : BOOLEAN]
BY DEF SessionStored

LEMMA ConnectSignedHolds ==
  ASSUME StoreInv, NEW t \in tasks, ConnectSigned(t)
  PROVE  StoreInv'
<1>1. Typed /\ AskOK /\ LeftOK
  BY DEF StoreInv
<1>2. /\ t.pc = "signer" /\ Into(t, "refresh") /\ SessionStored /\ form' \in OnChain
      /\ UNCHANGED <<timer, asks, quote, selected, executing, call, past>>
  BY DEF ConnectSigned
<1>3. form' \in Forms /\ form'.amount = form.amount
  BY <1>1, <1>2, SettersType DEF Typed
<1>4. wallet' \in Wallets
  <2>1. PICK s \in Signers :
          wallet' = [wallet EXCEPT !.connected = TRUE, !.address = t.account, !.signer = s]
    BY DEF ConnectSigned
  <2>2. s \in Accounts \cup {None} /\ t.account \in Accounts \cup {None}
    BY <1>1 DEF Typed, Signers, Waiting
  <2> QED
    BY <1>1, <2>1, <2>2 DEF Typed, Wallets
<1>5. tasks' \subseteq Waiting /\ \E s \in tasks' : s.pc = "refresh"
  BY <1>1, <1>2, IntoTypes DEF Typed
<1>6. Typed'
  BY <1>1, <1>2, <1>3, <1>4, <1>5, SessionTypes DEF Typed
<1>7. AskOK'
  BY <1>1, <1>2, <1>3, <1>5, AskAwaited
<1>8. LeftOK'
  BY <1>1, <1>2 DEF LeftOK
<1> QED
  BY <1>6, <1>7, <1>8 DEF StoreInv

LEMMA AccountSignedHolds ==
  ASSUME StoreInv, NEW t \in tasks, AccountSigned(t)
  PROVE  StoreInv'
<1>1. Typed /\ AskOK /\ LeftOK
  BY DEF StoreInv
<1>2. /\ t.pc = "signer" /\ Into(t, "refresh") /\ SessionStored
      /\ UNCHANGED <<form, timer, asks, quote, selected, executing, call, past>>
  BY DEF AccountSigned
<1>3. wallet' \in Wallets
  <2>1. PICK s \in Signers : wallet' = [wallet EXCEPT !.address = t.account, !.signer = s]
    BY DEF AccountSigned
  <2>2. s \in Accounts \cup {None} /\ t.account \in Accounts \cup {None}
    BY <1>1 DEF Typed, Signers, Waiting
  <2> QED
    BY <1>1, <2>1, <2>2 DEF Typed, Wallets
<1>4. tasks' \subseteq Waiting /\ \E s \in tasks' : s.pc = "refresh"
  BY <1>1, <1>2, IntoTypes DEF Typed
<1>5. Typed'
  BY <1>1, <1>2, <1>3, <1>4, SessionTypes DEF Typed
<1>6. AskOK'
  BY <1>1, <1>2, <1>4, AskAwaited
<1>7. LeftOK'
  BY <1>1, <1>2 DEF LeftOK
<1> QED
  BY <1>5, <1>6, <1>7 DEF StoreInv

LEMMA ChainSignedHolds ==
  ASSUME StoreInv, NEW t \in tasks, ChainSigned(t)
  PROVE  StoreInv'
<1>1. Typed /\ AskOK /\ LeftOK
  BY DEF StoreInv
<1>2. /\ t.pc = "signer"
      /\ UNCHANGED <<timer, asks, quote, selected, executing, call, stored, past>>
  BY DEF ChainSigned
<1>3. /\ wallet' \in Wallets /\ wallet'.connected = wallet.connected
      /\ wallet'.address = wallet.address
  <2>1. PICK s \in Signers : wallet' = [wallet EXCEPT !.signer = s]
    BY DEF ChainSigned
  <2>2. s \in Accounts \cup {None}
    BY <1>1 DEF Typed, Signers
  <2> QED
    BY <1>1, <2>1, <2>2 DEF Typed, Wallets
<1>4. LeftOK'
  BY <1>1, <1>2 DEF LeftOK
<1>5. CASE Into(t, "refresh") /\ form' \in OnChain
  <2>1. form' \in Forms /\ form'.amount = form.amount
    BY <1>1, <1>5, SettersType DEF Typed
  <2>2. tasks' \subseteq Waiting /\ \E s \in tasks' : s.pc = "refresh"
    BY <1>1, <1>5, IntoTypes DEF Typed
  <2>3. Typed'
    BY <1>1, <1>2, <1>3, <2>1, <2>2 DEF Typed
  <2>4. AskOK'
    BY <1>1, <1>2, <2>1, <2>2, AskAwaited
  <2> QED
    BY <1>4, <2>3, <2>4 DEF StoreInv
<1>6. CASE Over(t) /\ UNCHANGED form
  <2>1. tasks' \subseteq Waiting /\ \A s \in tasks : s.pc = "refresh" => s \in tasks'
    BY <1>1, <1>2, <1>6 DEF Typed, Over
  <2>2. Typed'
    BY <1>1, <1>2, <1>3, <1>6, <2>1 DEF Typed
  <2>3. AskOK'
    BY <1>1, <1>2, <1>3, <1>6, <2>1, AskKept
  <2> QED
    BY <1>4, <2>2, <2>3 DEF StoreInv
<1> QED
  BY <1>5, <1>6 DEF ChainSigned, OnChain

LEMMA RefreshedHolds ==
  ASSUME StoreInv, NEW t \in tasks, Refreshed(t)
  PROVE  StoreInv'
<1>1. Typed /\ AskOK /\ LeftOK
  BY DEF StoreInv
<1>2. /\ t.pc = "refresh" /\ Ask(form, wallet.address)
      /\ past' = [past EXCEPT !.emptied = @ /\ form.amount = 0]
      /\ UNCHANGED <<form, selected, executing, call, stored>>
  BY DEF Refreshed
<1>3. /\ wallet' \in Wallets /\ wallet'.connected = wallet.connected
      /\ wallet'.address = wallet.address
  <2>1. PICK h \in BOOLEAN : h = (wallet.heard \/ t.kind \in {"connect", "restore"})
    BY <1>1 DEF Typed, Wallets
  <2>2. wallet' = [wallet EXCEPT !.heard = h]
    BY <2>1 DEF Refreshed
  <2> QED
    BY <1>1, <2>2 DEF Typed, Wallets
<1>4. /\ past' \in Pasts /\ past'.emptied = (past.emptied /\ form.amount = 0)
      /\ past'.left = past.left /\ past'.late = past.late
  BY <1>1, <1>2 DEF Typed, Pasts
<1>5. /\ tasks' \subseteq Waiting
      /\ \A s \in tasks' : s.pc \in {"asked", "signer"} => s \in tasks
  <2>1. CASE Into(t, "plan")
    BY <1>1, <2>1, IntoTypes DEF Typed
  <2>2. CASE Over(t)
    BY <1>1, <2>2 DEF Over, Typed
  <2> QED
    BY <2>1, <2>2 DEF Refreshed
<1>6. /\ timer' = FALSE /\ asks' \subseteq [ask : Asks, latest : BOOLEAN]
      /\ quote' \in Asks \cup {None}
  <2>1. wallet.address \in Accounts \cup {None}
    BY <1>1 DEF Typed, Wallets
  <2> QED
    BY <1>1, <1>2, <2>1, AskEffect DEF Typed
<1>7. Typed'
  BY <1>1, <1>2, <1>3, <1>4, <1>5, <1>6 DEF Typed
<1>8. AskOK'
  BY <1>1, <1>2, <1>3, <1>4, AskedFits DEF Typed
<1>9. LeftOK'
  BY <1>1, <1>2, <1>3, <1>4, <1>5, LeftKept
<1> QED
  BY <1>7, <1>8, <1>9 DEF StoreInv

\* What the user does in the wallet is heard, and awaited, only while connected.
LEMMA AccountsChangedHolds ==
  ASSUME StoreInv, NEW a \in Accounts, AccountsChanged(a)
  PROVE  StoreInv'
<1>1. Typed /\ AskOK /\ LeftOK
  BY DEF StoreInv
<1>2. /\ selected' = a /\ Move(past)
      /\ UNCHANGED <<form, timer, asks, quote, wallet, executing, call, stored>>
      /\ tasks' = IF wallet.heard /\ ~stored.off /\ wallet.connected
                  THEN tasks \cup {Task("account", "signer", a)} ELSE tasks
  BY DEF AccountsChanged, OneMove
<1>3. /\ past' \in Pasts /\ past'.emptied = past.emptied /\ past'.left = past.left
      /\ past'.late = past.late
  BY <1>1, <1>2, MovePast DEF Typed
<1>4. tasks' \subseteq Waiting /\ tasks \subseteq tasks'
  BY <1>1, <1>2, TaskTypes DEF Typed
<1>5. Typed'
  BY <1>1, <1>2, <1>3, <1>4 DEF Typed
<1>6. AskOK'
  BY <1>1, <1>2, <1>3, <1>4, AskKept
<1>7. LeftOK'
  BY <1>1, <1>2, <1>3 DEF LeftOK
<1> QED
  BY <1>5, <1>6, <1>7 DEF StoreInv

LEMMA ChainChangedHolds == ASSUME StoreInv, ChainChanged PROVE StoreInv'
<1>1. Typed /\ AskOK /\ LeftOK
  BY DEF StoreInv
<1>2. /\ wallet.connected /\ Move(past)
      /\ UNCHANGED <<form, timer, asks, quote, wallet, selected, executing, call, stored>>
      /\ tasks' = tasks \cup {Task("chain", "signer", None)}
  BY DEF ChainChanged, OneMove
<1>3. /\ past' \in Pasts /\ past'.emptied = past.emptied /\ past'.left = past.left
      /\ past'.late = past.late
  BY <1>1, <1>2, MovePast DEF Typed
<1>4. tasks' \subseteq Waiting /\ tasks \subseteq tasks'
  BY <1>1, <1>2, TaskTypes DEF Typed
<1>5. Typed'
  BY <1>1, <1>2, <1>3, <1>4 DEF Typed
<1>6. AskOK'
  BY <1>1, <1>2, <1>3, <1>4, AskKept
<1>7. LeftOK'
  BY <1>1, <1>2, <1>3 DEF LeftOK
<1> QED
  BY <1>5, <1>6, <1>7 DEF StoreInv

LEMMA DisconnectHolds == ASSUME StoreInv, Disconnect PROVE StoreInv'
<1>1. Typed /\ AskOK /\ LeftOK
  BY DEF StoreInv
<1> PICK late \in BOOLEAN : late = \E t \in tasks : t.pc \in {"asked", "signer"}
  OBVIOUS
<1> PICK p : p = [past EXCEPT !.left = TRUE, !.late = late]
  OBVIOUS
<1>2. /\ p \in Pasts /\ p.moves = past.moves /\ p.edits = past.edits
      /\ p.emptied = past.emptied /\ p.late = late
  BY <1>1 DEF Typed, Pasts
<1>3. Move(p)
  BY DEF Disconnect
<1>4. past' \in Pasts /\ past'.emptied = p.emptied /\ past'.late = p.late
  BY <1>1, <1>2, <1>3, MovePast DEF Typed
<1>5. /\ wallet' = NoWallet /\ stored' = [stored EXCEPT !.off = TRUE, !.session = FALSE]
      /\ UNCHANGED <<form, timer, asks, quote, selected, tasks, executing, call>>
  BY DEF Disconnect
<1>6. wallet' \in Wallets /\ ~wallet'.connected
  BY <1>5 DEF NoWallet, Wallets
<1>7. stored'.off /\ ~stored'.session
  BY <1>1, <1>5 DEF Typed
<1>8. Typed'
  BY <1>1, <1>4, <1>5, <1>6 DEF Typed
<1>9. AskOK'
  BY <1>1, <1>2, <1>4, <1>5, <1>6, AskKept
<1>10. LeftOK'
  BY <1>2, <1>4, <1>5, <1>6, <1>7 DEF LeftOK
<1> QED
  BY <1>8, <1>9, <1>10 DEF StoreInv

-----------------------------------------------------------------------------
(***************************************************************************)
(* The trade, which neither asks for quotes nor leaves the wallet.         *)
(***************************************************************************)
TradeFrame ==
  /\ PageOnly
  /\ wallet' \in Wallets /\ wallet'.connected = wallet.connected
  /\ wallet'.address = wallet.address
  /\ executing' \in BOOLEAN /\ call' \in [Calls -> Calling]
  /\ stored' = stored \/ \E b \in BOOLEAN : stored' = [stored EXCEPT !.plan = b]
  /\ past' \in Pasts /\ past'.emptied = past.emptied
  /\ past'.left = past.left /\ past'.late = past.late

LEMMA TradeKeeps == ASSUME StoreInv, TradeFrame PROVE StoreInv'
<1>1. Typed /\ AskOK /\ LeftOK
  BY DEF StoreInv
<1>2. /\ stored' \in [off : BOOLEAN, session : BOOLEAN, plan : BOOLEAN]
      /\ stored'.off = stored.off /\ stored'.session = stored.session
  BY <1>1 DEF TradeFrame, Typed
<1>3. UNCHANGED <<form, timer, asks, quote, selected, tasks>>
  BY DEF TradeFrame, PageOnly
<1>4. Typed'
  BY <1>1, <1>2, <1>3 DEF TradeFrame, Typed
<1>5. AskOK'
  BY <1>1, <1>3, AskKept DEF TradeFrame
<1>6. LeftOK'
  BY <1>1, <1>2, <1>3, LeftKept DEF TradeFrame
<1> QED
  BY <1>4, <1>5, <1>6 DEF StoreInv

LEMMA HandOverTypes ==
  ASSUME call \in [Calls -> Calling], NEW c \in Calls, NEW k \in Calling, HandOver(c, k)
  PROVE  /\ call' \in [Calls -> Calling]
         /\ \E b \in BOOLEAN : stored' = [stored EXCEPT !.plan = b]
<1>1. [k EXCEPT !.pc = "running"] \in Calling
  BY DEF Calling
<1> QED
  BY <1>1 DEF HandOver

LEMMA SigningTypes ==
  ASSUME call \in [Calls -> Calling], NEW c \in Calls, NEW k \in Calling, Signing(c, k)
  PROVE  /\ call' \in [Calls -> Calling]
         /\ stored' = stored \/ \E b \in BOOLEAN : stored' = [stored EXCEPT !.plan = b]
<1>1. [k EXCEPT !.pc = "signer"] \in Calling
  BY DEF Calling
<1> QED
  BY <1>1, HandOverTypes DEF Signing

LEMMA FreeTypes ==
  ASSUME call \in [Calls -> Calling], NEW c \in Calls, Free(c)
  PROVE  call' \in [Calls -> Calling] /\ executing' \in BOOLEAN
<1>1. Rest \in Calling
  BY DEF Rest, Calling
<1> QED
  BY <1>1 DEF Free

LEMMA BeginHolds == ASSUME StoreInv, NEW c \in Calls, Begin(c) PROVE StoreInv'
<1>1. Typed
  BY DEF StoreInv
<1> PICK k : k = [pc |-> "switch", user |-> wallet.address, signer |-> wallet.signer, ask |-> quote]
  OBVIOUS
<1>2. k \in Calling
  BY <1>1 DEF Typed, Wallets, Calling
<1>3. /\ Move(past) /\ PageOnly /\ wallet' = wallet /\ executing' = TRUE
      /\ \/ call' = [call EXCEPT ![c] = k] /\ UNCHANGED stored
         \/ Signing(c, k)
  BY DEF Begin, OneMove
<1>4. /\ past' \in Pasts /\ past'.emptied = past.emptied /\ past'.left = past.left
      /\ past'.late = past.late
  BY <1>1, <1>3, MovePast DEF Typed
<1>5. /\ call' \in [Calls -> Calling]
      /\ stored' = stored \/ \E b \in BOOLEAN : stored' = [stored EXCEPT !.plan = b]
  BY <1>1, <1>2, <1>3, SigningTypes DEF Typed
<1>6. TradeFrame
  BY <1>1, <1>3, <1>4, <1>5 DEF TradeFrame, Typed
<1> QED
  BY <1>6, TradeKeeps

LEMMA GoesOnHolds == ASSUME StoreInv, NEW c \in Calls, GoesOn(c) PROVE StoreInv'
<1>1. Typed /\ call[c] \in Calling
  BY DEF StoreInv, Typed
<1>2. UNCHANGED past /\ PageOnly
  BY DEF GoesOn, Switched, SignerGiven, TradeEnds, TradeOver
<1>3. CASE Switched(c)
  <2>1. /\ call' \in [Calls -> Calling] /\ executing' \in BOOLEAN
        /\ stored' = stored \/ \E b \in BOOLEAN : stored' = [stored EXCEPT !.plan = b]
    BY <1>1, <1>3, SigningTypes, FreeTypes DEF Switched, Typed
  <2>2. TradeFrame
    BY <1>1, <1>2, <1>3, <2>1 DEF Switched, TradeFrame, Typed
  <2> QED
    BY <2>2, TradeKeeps
<1>4. CASE SignerGiven(c)
  <2>1. PICK k : k = [call[c] EXCEPT !.signer = selected]
    OBVIOUS
  <2>2. k \in Calling
    BY <1>1, <2>1 DEF Calling, Typed
  <2>3. /\ call' \in [Calls -> Calling] /\ executing' \in BOOLEAN
        /\ stored' = stored \/ \E b \in BOOLEAN : stored' = [stored EXCEPT !.plan = b]
    BY <1>1, <1>4, <2>1, <2>2, HandOverTypes, FreeTypes DEF SignerGiven, Typed
  <2>4. /\ wallet' \in Wallets /\ wallet'.connected = wallet.connected
        /\ wallet'.address = wallet.address
    BY <1>1, <1>4 DEF SignerGiven, Typed, Wallets
  <2>5. TradeFrame
    BY <1>1, <1>2, <2>3, <2>4 DEF TradeFrame, Typed
  <2> QED
    BY <2>5, TradeKeeps
<1>5. CASE TradeEnds(c)
  <2>1. [call[c] EXCEPT !.pc = "refresh"] \in Calling
    BY <1>1 DEF Calling
  <2>2. call' \in [Calls -> Calling] /\ executing' \in BOOLEAN
    <3>1. CASE call' = [call EXCEPT ![c].pc = "refresh"] /\ UNCHANGED executing
      BY <1>1, <2>1, <3>1 DEF Typed
    <3>2. CASE Free(c)
      BY <1>1, <3>2, FreeTypes DEF Typed
    <3> QED
      BY <1>5, <3>1, <3>2 DEF TradeEnds
  <2>3. TradeFrame
    BY <1>1, <1>2, <1>5, <2>2 DEF TradeEnds, TradeFrame, Typed
  <2> QED
    BY <2>3, TradeKeeps
<1>6. CASE TradeOver(c)
  <2>1. call' \in [Calls -> Calling] /\ executing' \in BOOLEAN
    BY <1>1, <1>6, FreeTypes DEF TradeOver, Typed
  <2>2. TradeFrame
    BY <1>1, <1>2, <1>6, <2>1 DEF TradeOver, TradeFrame, Typed
  <2> QED
    BY <2>2, TradeKeeps
<1> QED
  BY <1>3, <1>4, <1>5, <1>6 DEF GoesOn

-----------------------------------------------------------------------------
(***************************************************************************)
(* A page, and the two theorems.                                           *)
(***************************************************************************)
LEMMA ReloadHolds == ASSUME StoreInv, Reload PROVE StoreInv'
<1>1. Typed /\ LeftOK
  BY DEF StoreInv
<1>2. /\ form' = Default /\ timer' = FALSE /\ quote' = None /\ wallet' = NoWallet
      /\ asks' = {[ask |-> [form |-> Default, user |-> None], latest |-> TRUE]}
      /\ tasks' = IF Restoring THEN {Task("restore", "asked", None)} ELSE {}
      /\ executing' = (~stored.off /\ ~stored.session /\ stored.plan)
      /\ call' = [c \in Calls |-> Rest]
      /\ UNCHANGED <<selected, stored>>
  BY DEF Reload, Loaded
<1>3. executing' \in BOOLEAN
  BY <1>1, <1>2 DEF Typed
<1> PICK p : p = [past EXCEPT !.emptied = FALSE, !.resumed = executing']
  OBVIOUS
<1>4. /\ p \in Pasts /\ p.moves = past.moves /\ p.edits = past.edits
      /\ p.emptied = FALSE /\ p.left = past.left /\ p.late = past.late
  BY <1>1, <1>3 DEF Typed, Pasts
<1>5. Move(p)
  BY DEF Reload
<1>6. /\ past' \in Pasts /\ past'.emptied = p.emptied /\ past'.left = p.left
      /\ past'.late = p.late
  BY <1>1, <1>4, <1>5, MovePast DEF Typed
<1>7. /\ asks' \subseteq [ask : Asks, latest : BOOLEAN]
      /\ wallet' \in Wallets /\ ~wallet'.connected
      /\ call' \in [Calls -> Calling]
  BY <1>2, DefaultType DEF Asks, NoWallet, Wallets, Rest, Calling
<1>8. tasks' \subseteq Waiting
  BY <1>2, TaskTypes
<1>9. Typed'
  BY <1>1, <1>2, <1>3, <1>6, <1>7, <1>8, DefaultType DEF Typed
<1>10. AskOK'
  <2>1. form'.amount # 0 /\ ~timer' /\ quote' = None
    BY <1>2, DefaultType
  <2>2. \A a \in asks' : Fits(a.ask, form', wallet')
    BY <1>2, <1>7 DEF Fits
  <2> QED
    BY <2>1, <2>2 DEF AskOK, Fits
<1>11. LeftOK'
  BY <1>1, <1>2, <1>4, <1>6, <1>7 DEF LeftOK, Restoring
<1> QED
  BY <1>9, <1>10, <1>11 DEF StoreInv

LEMMA PlanRestoredHolds ==
  ASSUME StoreInv, NEW t \in tasks, PlanRestored(t)
  PROVE  StoreInv'
<1>1. Typed /\ AskOK /\ LeftOK
  BY DEF StoreInv
<1>2. /\ t.pc = "plan" /\ Over(t) /\ executing' = (executing \/ stored.plan)
      /\ past' = [past EXCEPT !.resumed = @ \/ stored.plan]
      /\ UNCHANGED <<form, timer, asks, quote, wallet, selected, call, stored>>
  BY DEF PlanRestored
<1>3. executing' \in BOOLEAN
  BY <1>1, <1>2 DEF Typed
<1>4. /\ past' \in Pasts /\ past'.emptied = past.emptied /\ past'.left = past.left
      /\ past'.late = past.late
  <2>1. PICK b \in BOOLEAN : b = (past.resumed \/ stored.plan)
    BY <1>1 DEF Typed, Pasts
  <2>2. past' = [past EXCEPT !.resumed = b]
    BY <1>2, <2>1
  <2> QED
    BY <1>1, <2>2 DEF Typed, Pasts
<1>5. /\ tasks' \subseteq tasks
      /\ \A s \in tasks : s.pc = "refresh" => s \in tasks'
  BY <1>2 DEF Over
<1>6. Typed'
  BY <1>1, <1>2, <1>3, <1>4, <1>5 DEF Typed
<1>7. AskOK'
  BY <1>1, <1>2, <1>4, <1>5, AskKept
<1>8. LeftOK'
  BY <1>1, <1>2, <1>4, <1>5, LeftKept
<1> QED
  BY <1>6, <1>7, <1>8 DEF StoreInv

LEMMA StoreInvInit == Init => StoreInv
<1> SUFFICES ASSUME Init PROVE StoreInv
  OBVIOUS
<1>1. Typed
  <2>1. asks \subseteq [ask : Asks, latest : BOOLEAN] /\ wallet \in Wallets
    BY DefaultType DEF Init, Asks, NoWallet, Wallets
  <2>2. call \in [Calls -> Calling]
    BY DEF Init, Rest, Calling
  <2>3. past \in Pasts
    BY StoreAssumption DEF Init, Pasts
  <2> QED
    BY <2>1, <2>2, <2>3, DefaultType DEF Init, Typed
<1>2. AskOK
  BY DefaultType DEF Init, AskOK, Fits, NoWallet
<1>3. LeftOK
  BY DEF Init, LeftOK
<1> QED
  BY <1>1, <1>2, <1>3 DEF StoreInv

LEMMA StoreInvStep == StoreInv /\ [Next]_vars => StoreInv'
<1>1. ASSUME StoreInv, UNCHANGED vars PROVE StoreInv'
  BY <1>1 DEF StoreInv, vars, Typed, AskOK, LeftOK, Asking, Settling, Fits
<1>2. ASSUME StoreInv, NEW t \in tasks,
             \/ ConnectAnswered(t) \/ ConnectSigned(t) \/ AccountSigned(t)
             \/ ChainSigned(t) \/ Refreshed(t) \/ PlanRestored(t)
      PROVE  StoreInv'
  BY <1>2, ConnectAnsweredHolds, ConnectSignedHolds, AccountSignedHolds, ChainSignedHolds,
     RefreshedHolds, PlanRestoredHolds
<1>3. ASSUME StoreInv,
             \/ Edit \/ \E x \in Amounts \cup {0} : SetAmountIn(x)
             \/ Debounced \/ \E a \in asks : Answer(a)
      PROVE  StoreInv'
  BY <1>3, EditHolds, SetAmountHolds, DebouncedHolds, AnswerHolds
<1>4. ASSUME StoreInv,
             \/ Connect \/ Disconnect \/ ChainChanged \/ Reload
             \/ \E a \in Accounts : AccountsChanged(a)
      PROVE  StoreInv'
  BY <1>4, ConnectHolds, DisconnectHolds, ChainChangedHolds, ReloadHolds, AccountsChangedHolds
<1>5. ASSUME StoreInv, NEW c \in Calls, Begin(c) \/ GoesOn(c) PROVE StoreInv'
  BY <1>5, BeginHolds, GoesOnHolds
<1> QED
  BY <1>1, <1>2, <1>3, <1>4, <1>5 DEF Next

LEMMA StoreInvHolds == Spec => []StoreInv
BY StoreInvInit, StoreInvStep, PTL DEF Spec

\* Once nothing is being asked for, the quote shown is of the form and of the
\* connected account, in whatever order answers, timers and events came.
THEOREM QuotesFit == Spec => []QuoteFitsForm
<1>1. StoreInv => QuoteFitsForm
  <2> SUFFICES ASSUME StoreInv PROVE QuoteFitsForm
    OBVIOUS
  <2>1. TypeOK
    BY InvImpliesTypes
  <2>2. AskOK
    BY DEF StoreInv
  <2> QED
    BY <2>1, <2>2 DEF QuoteFitsForm, AskOK, Settling, Fits
<1> QED
  BY <1>1, StoreInvHolds, PTL

\* A disconnect lasts, through reloads and whatever the wallet reports, unless
\* something awaited the wallet when it came.
THEOREM DisconnectsLast == Spec => []DisconnectLasts
<1>1. StoreInv => DisconnectLasts
  BY DEF StoreInv, LeftOK, DisconnectLasts
<1> QED
  BY <1>1, StoreInvHolds, PTL
=============================================================================
