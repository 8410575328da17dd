----------------------------- MODULE TradeStore -----------------------------
(***************************************************************************)
(* The store of the web application (useZenithStore): the form, the quote  *)
(* for it, the wallet, and the trade that hands the quote to the execution *)
(* coordinator.  One page runs it, on one thread, but every handler awaits *)
(* a router, a wallet or a chain somewhere, and whatever the user, the     *)
(* wallet and the timers do meanwhile runs in between.  A page may be left *)
(* and loaded again; of the old one only the local storage is left.        *)
(*                                                                         *)
(* A handler is one action up to its first await and one after each.  The  *)
(* awaits of a connection's second half (signer, network) are taken as one.*)
(***************************************************************************)
EXTENDS Naturals

CONSTANTS
  Chains,    \* chains a token may be of
  Home,      \* the chain of the form of a page just loaded
  Amounts,   \* bound: amounts a user types
  Accounts,  \* accounts of the wallet
  None,      \* no account, no quote
  Calls,     \* bound: calls of executeTrade under way at once
  MaxEdits,  \* bound: changes of the form and quotes asked for out of turn
  MaxMoves   \* bound: what else user and wallet do of their own accord

ASSUME StoreAssumption ==
  /\ Home \in Chains /\ 1 \in Amounts /\ Amounts \subseteq Nat \ {0} /\ MaxEdits \in Nat
  /\ MaxMoves \in Nat
  /\ None \notin Accounts

Kinds  == {"native", "stable"}
Tokens == Chains \X Kinds      \* a native and a stable coin of each chain
Native(ch) == <<ch, "native">>
Stable(ch) == <<ch, "stable">>

VARIABLES
  form,      \* amountIn, tokenIn and tokenOut; a chain is that of its token
  timer,     \* quoteDebounceTimer is set
  asks,      \* quotes asked for: the form, the account; whether the id is the latest
  quote,     \* the quote shown: what it was asked for
  wallet,    \* isWalletConnected, walletAddress, signer; whether events are heard
  selected,  \* the account selected in the wallet itself
  tasks,     \* connections and wallet events that await something
  executing, \* isExecutingTrade
  call,      \* the calls of executeTrade
  stored,    \* local storage: explicit disconnect, session, plan under way
  past       \* history: moves made; what the properties except

vars == <<form, timer, asks, quote, wallet, selected, tasks, executing, call, stored, past>>

Forms  == [amount : Amounts \cup {0}, in : Tokens, out : Tokens]
Asks   == [form : Forms, user : Accounts \cup {None}]
NoWallet == [connected |-> FALSE, address |-> None, signer |-> None, heard |-> FALSE]
Rest   == [pc |-> "idle", user |-> None, signer |-> None, ask |-> None]

TypeOK ==
  /\ form \in Forms /\ timer \in BOOLEAN
  /\ asks \subseteq [ask : Asks, latest : BOOLEAN]
  /\ quote \in Asks \cup {None}
  /\ wallet \in [connected : BOOLEAN, address : Accounts \cup {None},
                 signer : Accounts \cup {None}, heard : BOOLEAN]
  /\ selected \in Accounts
  /\ tasks \subseteq [kind : {"connect", "restore", "account", "chain"},
                      pc : {"asked", "signer", "refresh", "plan"}, account : Accounts \cup {None}]
  /\ executing \in BOOLEAN
  /\ \A c \in Calls :
       /\ call[c].pc \in {"idle", "switch", "signer", "running", "refresh"}
       /\ call[c].user \in Accounts \cup {None} /\ call[c].signer \in Accounts \cup {None}
       /\ call[c].ask \in Asks \cup {None}
  /\ stored \in [off : BOOLEAN, session : BOOLEAN, plan : BOOLEAN]
  /\ past \in [edits : 0..MaxEdits, moves : 0..MaxMoves, emptied : BOOLEAN, left : BOOLEAN, late : BOOLEAN,
               resumed : BOOLEAN]

\* A move of the user, the wallet or a timer; what it does to the history.
Edited(p) == past.edits < MaxEdits /\ past' = [p EXCEPT !.edits = @ + 1]
Move(p) == past.moves < MaxMoves /\ past' = [p EXCEPT !.moves = @ + 1]
OneMove == Move(past)

(***************************************************************************)
(* Quotes.                                                                 *)
(***************************************************************************)
Asking == \E a \in asks : a.latest

\* fetchQuote up to its await, for form f and address u: a form without an
\* amount has no quote, and does not outdate what is being asked.
Ask(f, u) ==
  /\ timer' = FALSE
  /\ IF f.amount = 0 THEN quote' = None /\ UNCHANGED asks
     ELSE /\ asks' = {[a EXCEPT !.latest = FALSE] : a \in asks}
                       \cup {[ask |-> [form |-> f, user |-> u], latest |-> TRUE]}
          /\ UNCHANGED quote

\* Variant: any answer is shown.
AnswerAny(a) ==
  /\ a \in asks
  /\ asks' = asks \ {a}
  /\ quote' \in {a.ask, None}
  /\ UNCHANGED <<form, timer, wallet, selected, tasks, executing, call, stored, past>>

\* The router's answer, or its error: only the answer to the latest counts.
Answer(a) ==
  /\ a \in asks
  /\ asks' = asks \ {a}
  /\ quote' \in IF a.latest THEN {a.ask, None} ELSE {quote}
  /\ UNCHANGED <<form, timer, wallet, selected, tasks, executing, call, stored, past>>

(***************************************************************************)
(* The form.  A setter that names a chain or token may move the other side *)
(* too; each asks for a quote at once, but the amount waits for its timer. *)
(***************************************************************************)
SameChain(f) == f.in[1] = f.out[1]
Other(t) == CHOOSE u \in Tokens : u[1] = t[1] /\ u # t
Pair(f, in, out) == [f EXCEPT !.in = in, !.out = out]

SourceChainSet(ch) ==
  Pair(form, Native(ch), IF SameChain(form) THEN Stable(ch) ELSE form.out)

DestChainSet(ch) ==
  Pair(form, form.in, IF form.in = Stable(ch) THEN Native(ch) ELSE Stable(ch))

TokenInSet(t) ==
  IF SameChain(form) /\ t[1] # form.in[1]
    THEN Pair(form, t, IF t = Stable(t[1]) THEN Other(t) ELSE Stable(t[1]))
    ELSE Pair(form, t, IF SameChain(form) /\ t = form.out THEN Other(t) ELSE form.out)

TokenOutSet(t) ==
  Pair(form, IF t = form.in THEN Other(t) ELSE form.in, t)

TokensSwitched == Pair(form, form.out, form.in)

Fetch(f) ==
  /\ form' = f
  /\ Ask(f, wallet.address)
  /\ Edited([past EXCEPT !.emptied = @ /\ f.amount = 0])
  /\ UNCHANGED <<wallet, selected, tasks, executing, call, stored>>

\* setSlippage, the refresh interval, the refresh button and market data ask
\* for the form as it is.
Edit ==
  \/ \E ch \in Chains : Fetch(SourceChainSet(ch)) \/ Fetch(DestChainSet(ch))
  \/ \E t \in Tokens : Fetch(TokenInSet(t)) \/ Fetch(TokenOutSet(t))
  \/ Fetch(TokensSwitched)
  \/ Fetch(form)

SetAmountIn(x) ==
  /\ x # form.amount
  /\ form' = [form EXCEPT !.amount = x]
  /\ timer' = (x > 0)
  /\ quote' = IF x = 0 THEN None ELSE quote
  /\ Edited([past EXCEPT !.emptied = @ \/ (x = 0 /\ Asking)])
  /\ UNCHANGED <<asks, wallet, selected, tasks, executing, call, stored>>

Debounced ==
  /\ timer
  /\ Ask(form, wallet.address)
  /\ past' = [past EXCEPT !.emptied = FALSE]
  /\ UNCHANGED <<form, wallet, selected, tasks, executing, call, stored>>

(***************************************************************************)
(* The wallet.  refreshBalance is the await before a new quote.            *)
(***************************************************************************)
Task(kind, pc, a) == [kind |-> kind, pc |-> pc, account |-> a]
Into(t, pc) == tasks' = (tasks \ {t}) \cup {[t EXCEPT !.pc = pc]}
Over(t)     == tasks' = tasks \ {t}
Signers == {selected, None}   \* getSigner's answer, or its error

\* connectWalletWithType up to its first await, at the user's request.
Connect ==
  /\ tasks' = tasks \cup {Task("connect", "asked", None)}
  /\ wallet' = [wallet EXCEPT !.heard = FALSE]
  /\ stored' = [stored EXCEPT !.off = FALSE]
  /\ Move([past EXCEPT !.left = FALSE, !.late = FALSE])
  /\ UNCHANGED <<form, timer, asks, quote, selected, executing, call>>

\* The wallet names its account, or there is none for a silent attempt; an
\* error ends the connection, even one that another attempt has made.
ConnectAnswered(t) ==
  /\ t \in tasks /\ t.pc = "asked"
  /\ \/ tasks' = (tasks \ {t}) \cup {Task(t.kind, "signer", selected)} /\ UNCHANGED wallet
     \/ /\ IF t.kind = "connect" THEN Over(t) ELSE Into(t, "plan")
        /\ wallet' \in {[wallet EXCEPT !.connected = FALSE]}
                         \cup (IF t.kind = "restore" THEN {wallet} ELSE {})
  /\ UNCHANGED <<form, timer, asks, quote, selected, executing, call, stored, past>>

\* setStoredWalletSession drops the mark of an explicit disconnect, too.
SessionStored == stored' = [stored EXCEPT !.off = FALSE, !.session = TRUE]

\* The form moves to the wallet's chain, if that is supported.
OnChain == {form} \cup {Pair(form, Native(ch), Stable(ch)) : ch \in Chains}

ConnectSigned(t) ==
  /\ t \in tasks /\ t.kind \in {"connect", "restore"} /\ t.pc = "signer"
  /\ Into(t, "refresh")
  /\ \E s \in Signers :
       wallet' = [wallet EXCEPT !.connected = TRUE, !.address = t.account, !.signer = s]
  /\ SessionStored
  /\ form' \in OnChain
  /\ UNCHANGED <<timer, asks, quote, selected, executing, call, past>>

\* After refreshBalance a quote is asked for; a connection then listens.
Refreshed(t) ==
  /\ t \in tasks /\ t.pc = "refresh"
  /\ Ask(form, wallet.address)
  /\ wallet' = [wallet EXCEPT !.heard = @ \/ t.kind \in {"connect", "restore"}]
  /\ IF t.kind = "restore" THEN Into(t, "plan") ELSE Over(t)
  /\ past' = [past EXCEPT !.emptied = @ /\ form.amount = 0]
  /\ UNCHANGED <<form, selected, executing, call, stored>>

\* The user selects another account in the wallet, or a chain.
AccountsChanged(a) ==
  /\ a # selected /\ selected' = a
  /\ tasks' = IF wallet.heard /\ ~stored.off /\ wallet.connected
              THEN tasks \cup {Task("account", "signer", a)} ELSE tasks
  /\ OneMove
  /\ UNCHANGED <<form, timer, asks, quote, wallet, executing, call, stored>>

AccountSigned(t) ==
  /\ t \in tasks /\ t.kind = "account" /\ t.pc = "signer"
  /\ Into(t, "refresh")
  /\ \E s \in Signers : wallet' = [wallet EXCEPT !.address = t.account, !.signer = s]
  /\ SessionStored
  /\ UNCHANGED <<form, timer, asks, quote, selected, executing, call, past>>

ChainChanged ==
  /\ wallet.heard /\ ~stored.off /\ wallet.connected
  /\ tasks' = tasks \cup {Task("chain", "signer", None)}
  /\ OneMove
  /\ UNCHANGED <<form, timer, asks, quote, wallet, selected, executing, call, stored>>

\* An unsupported chain leaves the form, and asks for nothing.
ChainSigned(t) ==
  /\ t \in tasks /\ t.kind = "chain" /\ t.pc = "signer"
  /\ \E s \in Signers : wallet' = [wallet EXCEPT !.signer = s]
  /\ \/ Into(t, "refresh") /\ form' \in OnChain \ {form}
     \/ Into(t, "refresh") /\ UNCHANGED form
     \/ Over(t) /\ UNCHANGED form
  /\ UNCHANGED <<timer, asks, quote, selected, executing, call, stored, past>>

\* Variant: the stored session is kept.
DisconnectKept ==
  /\ wallet.connected
  /\ wallet' = NoWallet
  /\ stored' = [stored EXCEPT !.off = TRUE]
  /\ Move([past EXCEPT !.left = TRUE, !.late = \E t \in tasks : t.pc \in {"asked", "signer"}])
  /\ UNCHANGED <<form, timer, asks, quote, selected, tasks, executing, call>>

\* At the user's request, or when the wallet reports no account.
Disconnect ==
  /\ wallet.connected
  /\ wallet' = NoWallet
  /\ stored' = [stored EXCEPT !.off = TRUE, !.session = FALSE]
  /\ Move([past EXCEPT !.left = TRUE, !.late = \E t \in tasks : t.pc \in {"asked", "signer"}])
  /\ UNCHANGED <<form, timer, asks, quote, selected, tasks, executing, call>>

(***************************************************************************)
(* executeTrade: what it needs is read before its first await.             *)
(***************************************************************************)
At(c, pc) == call[c].pc = pc
Free(c)   == executing' = FALSE /\ call' = [call EXCEPT ![c] = Rest]
PageOnly  == UNCHANGED <<form, timer, asks, quote, selected, tasks>>

\* The plan is stored for the next page, and the coordinator called.
HandOver(c, k) ==
  /\ call' = [call EXCEPT ![c] = [k EXCEPT !.pc = "running"]]
  /\ stored' = [stored EXCEPT !.plan = TRUE]

\* With a signer at hand the trade goes on at once, else one is asked for.
Signing(c, k) ==
  IF k.signer # None THEN HandOver(c, k)
  ELSE call' = [call EXCEPT ![c] = [k EXCEPT !.pc = "signer"]] /\ UNCHANGED stored

\* Refused while another is under way, without a quote or a wallet; the wallet
\* may first have to be asked to switch to the form's chain.
Begin(c) ==
  /\ ~executing /\ At(c, "idle")
  /\ quote # None /\ wallet.connected /\ wallet.address # None
  /\ executing' = TRUE
  /\ LET k == [pc |-> "switch", user |-> wallet.address, signer |-> wallet.signer, ask |-> quote]
     IN  \/ call' = [call EXCEPT ![c] = k] /\ UNCHANGED stored
         \/ Signing(c, k)
  /\ OneMove
  /\ UNCHANGED wallet /\ PageOnly

\* Variant: a refused switch forgets the flag.
SwitchedStuck(c) ==
  /\ At(c, "switch")
  /\ \/ Signing(c, call[c])
     \/ call' = [call EXCEPT ![c] = Rest] /\ UNCHANGED stored
  /\ UNCHANGED <<executing, wallet, past>> /\ PageOnly

Switched(c) ==
  /\ At(c, "switch")
  /\ \/ Signing(c, call[c]) /\ UNCHANGED executing
     \/ Free(c) /\ UNCHANGED stored
  /\ UNCHANGED <<wallet, past>> /\ PageOnly

\* A source that is not an EVM chain does without a signer.
SignerGiven(c) ==
  /\ At(c, "signer")
  /\ \/ /\ wallet' = [wallet EXCEPT !.signer = selected]
        /\ HandOver(c, [call[c] EXCEPT !.signer = selected]) /\ UNCHANGED executing
     \/ HandOver(c, call[c]) /\ UNCHANGED <<wallet, executing>>
     \/ Free(c) /\ UNCHANGED <<wallet, stored>>
  /\ UNCHANGED past /\ PageOnly

\* The coordinator returns, and balances are read again, or it throws.
TradeEnds(c) ==
  /\ At(c, "running")
  /\ stored' = [stored EXCEPT !.plan = FALSE]
  /\ \/ call' = [call EXCEPT ![c].pc = "refresh"] /\ UNCHANGED executing
     \/ Free(c)
  /\ UNCHANGED <<wallet, past>> /\ PageOnly

TradeOver(c) ==
  /\ At(c, "refresh")
  /\ Free(c)
  /\ UNCHANGED <<wallet, stored, past>> /\ PageOnly

(***************************************************************************)
(* A page.                                                                 *)
(***************************************************************************)
\* A page that is loaded asks for a quote of its default form and, unless the
\* user has left, for the wallet of the stored session.
Default == [amount |-> 1, in |-> Native(Home), out |-> Stable(Home)]
Restoring == ~stored.off /\ stored.session

Loaded ==
  /\ form' = Default /\ timer' = FALSE
  /\ asks' = {[ask |-> [form |-> Default, user |-> None], latest |-> TRUE]}
  /\ quote' = None
  /\ wallet' = NoWallet
  /\ tasks' = IF Restoring THEN {Task("restore", "asked", None)} ELSE {}
  /\ executing' = (~stored.off /\ ~stored.session /\ stored.plan)
  /\ call' = [c \in Calls |-> Rest]

Reload ==
  /\ Loaded
  /\ Move([past EXCEPT !.emptied = FALSE, !.resumed = executing'])
  /\ UNCHANGED <<selected, stored>>

\* initializeWalletSession shows the plan of a trade that the last page left.
PlanRestored(t) ==
  /\ t \in tasks /\ t.pc = "plan"
  /\ Over(t)
  /\ executing' = (executing \/ stored.plan)
  /\ past' = [past EXCEPT !.resumed = @ \/ stored.plan]
  /\ UNCHANGED <<form, timer, asks, quote, wallet, selected, call, stored>>

Init ==
  /\ form = Default /\ timer = FALSE
  /\ asks = {[ask |-> [form |-> Default, user |-> None], latest |-> TRUE]}
  /\ quote = None
  /\ wallet = NoWallet
  /\ selected \in Accounts
  /\ tasks = {} /\ executing = FALSE
  /\ call = [c \in Calls |-> Rest]
  /\ stored = [off |-> FALSE, session |-> FALSE, plan |-> FALSE]
  /\ past = [edits |-> 0, moves |-> 0, emptied |-> FALSE, left |-> FALSE, late |-> FALSE, resumed |-> FALSE]

GoesOn(c) == Switched(c) \/ SignerGiven(c) \/ TradeEnds(c) \/ TradeOver(c)

Next ==
  \/ Edit \/ \E x \in Amounts \cup {0} : SetAmountIn(x)
  \/ Debounced \/ \E a \in asks : Answer(a)
  \/ Connect \/ Disconnect \/ ChainChanged \/ Reload
  \/ \E a \in Accounts : AccountsChanged(a)
  \/ \E t \in tasks : \/ ConnectAnswered(t) \/ ConnectSigned(t) \/ AccountSigned(t)
                      \/ ChainSigned(t) \/ Refreshed(t) \/ PlanRestored(t)
  \/ \E c \in Calls : Begin(c) \/ GoesOn(c)

Spec == Init /\ [][Next]_vars /\ \A c \in Calls : WF_vars(GoesOn(c))

(***************************************************************************)
(* Properties.                                                             *)
(***************************************************************************)
\* Once nothing is being asked for, the quote shown is of the form and of the
\* connected account, however slowly and in whatever order the answers, the
\* timers and the wallet's events came; only an amount emptied while its quote
\* was being asked for may get it afterwards.
QuoteFitsForm ==
  LET quiet == ~timer /\ ~Asking /\ \A t \in tasks : t.pc # "refresh"
  IN  /\ TypeOK
      /\ quiet /\ quote # None /\ ~past.emptied =>
           quote.form = form /\ (wallet.connected => quote.user = wallet.address)

\* Who has disconnected stays so, through reloads and whatever the wallet
\* reports, until asking for a connection again - unless an attempt or an event
\* was awaiting the wallet at that moment, which nothing calls off.
DisconnectLasts ==
  past.left /\ ~past.late => ~wallet.connected /\ stored.off /\ ~stored.session

\* A trade frees the form in the end, on whichever of its paths; it stays
\* blocked only where a page shows the trade that the last one left.
TradeFrees == executing ~> ~executing \/ past.resumed

\* Not guaranteed: a form that is blocked is freed in the end.  The page that
\* shows an unfinished plan never learns that it has ended.
FormFrees == executing ~> ~executing

\* Not guaranteed: the signer is that of the address shown.
AddressSigns ==
  wallet.address # None /\ wallet.signer # None => wallet.signer = wallet.address

\* Not guaranteed: a trade that is begun is that of the form.
TradeFitsForm ==
  [][\A c \in Calls : At(c, "idle") /\ call'[c].pc # "idle" => call'[c].ask.form = form]_vars

\* Not guaranteed: the form never trades a token for itself.
TokensDiffer == form.in # form.out
=============================================================================
