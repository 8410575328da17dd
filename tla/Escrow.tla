------------------------------- MODULE Escrow -------------------------------
(***************************************************************************)
(* The escrow of cross-chain orders (ZenithCrossChainRouter) with the      *)
(* contracts it and the unified router (ZenithRouter) share: the treasury, *)
(* the fee controller and the circuit breaker.  An action is a transaction *)
(* that does not revert; the routers' locks keep the payees of native      *)
(* coins from calling back into them, and a payee that refuses reverts.    *)
(***************************************************************************)
EXTENDS Integers, Sequences, FiniteSets

CONSTANTS
  Assets,     \* what orders deposit
  Wrapped,    \* the one of Assets the unified router trades
  Sums,       \* bound: what is deposited, swapped, given, withdrawn
  Rates,      \* bound: fees governance sets, in basis points
  Deadlines,  \* bound: the deadlines users choose
  Nonces,     \* bound: the nonces of the user
  Setups,     \* bound: how the escrow was built: a treasury, a fee controller
  MaxTime,    \* bound: the last instant
  MaxMoves    \* bound: swaps, gifts and withdrawals

Scale == 10000
MaxRate == 30   \* MAX_PROTOCOL_FEE_BPS, MAX_CROSS_CHAIN_FEE_BPS
Routers == {"escrow", "router"}
Holders == Routers \cup {"treasury"}

ASSUME EscrowAssumption ==
  /\ Sums \subseteq Nat \ {0} /\ Rates \subseteq Nat
  /\ Wrapped \in Assets /\ MaxTime \in Nat /\ MaxMoves \in Nat
  /\ Deadlines \subseteq 0..MaxTime
  /\ Setups \subseteq [treasury : BOOLEAN, controller : BOOLEAN]

VARIABLES
  now,
  setup,       \* whether the escrow was built with a treasury, a fee controller
  paused,      \* the circuit breaker
  closed,      \* the treasury's own emergency pause
  rate,        \* of each router, its fee
  collectors,  \* routers the treasury takes fees from
  solving,     \* whether the solver is authorized
  orders,      \* amountIn (net), feePaid, sourceToken, deadline, by creation
  nonces,      \* executedNonces of the user
  fulfilled, refunded,   \* orders by their place in orders
  funds,       \* of each contract in each asset
  collected,   \* the treasury's cumulativeFeesCollected
  moves,       \* made so far
  given,       \* history: sent to a contract directly
  withdrawn,   \* history: taken out of the treasury
  swapFees     \* history: fees of the unified router

settings == <<setup, rate, collectors, solving>>
ledgers  == <<funds, collected, moves, given, withdrawn, swapFees>>
book     == <<orders, nonces, fulfilled, refunded>>
escrowVars == <<now, paused, closed, settings, ledgers, book>>

NoCoins == [a \in Assets |-> 0]

EscrowTypeOK ==
  /\ now \in 0..MaxTime /\ moves \in 0..MaxMoves
  /\ setup \in Setups
  /\ {paused, closed, solving} \subseteq BOOLEAN
  /\ rate \in [Routers -> 0..MaxRate]
  /\ collectors \subseteq Routers
  /\ orders \in Seq([asset : Assets, net : Nat, fee : Nat, deadline : Deadlines])
  /\ nonces \subseteq Nonces
  /\ fulfilled \cup refunded \subseteq DOMAIN orders
  /\ funds \in [Holders -> [Assets -> Nat]]
  /\ given \in [Holders -> [Assets -> Nat]]
  /\ {collected, withdrawn, swapFees} \subseteq [Assets -> Nat]

EscrowInit ==
  /\ now = 0 /\ moves = 0
  /\ setup \in Setups
  /\ paused = FALSE /\ closed = FALSE /\ solving = FALSE
  /\ rate = [r \in Routers |-> 5]
  /\ collectors = {}
  /\ orders = <<>> /\ nonces = {} /\ fulfilled = {} /\ refunded = {}
  /\ funds = [h \in Holders |-> NoCoins] /\ given = [h \in Holders |-> NoCoins]
  /\ collected = NoCoins /\ withdrawn = NoCoins /\ swapFees = NoCoins

Moved == moves < MaxMoves /\ moves' = moves + 1

\* calculateProtocolFee, calculateCrossChainFee.
Fee(r, x) == (x * rate[r]) \div Scale

\* depositERC20Fee and depositNativeFee take a fee from this router.
Takes(r) == ~closed /\ r \in collectors

(***************************************************************************)
(* The escrow.                                                             *)
(***************************************************************************)

\* initiateCrossChainSwap.  The fee comes off the deposit even where there is
\* no treasury to take it; a fee that rounds to nothing needs no treasury.
Initiate(a, x, n, deadline) ==
  LET fee  == IF setup.controller THEN Fee("escrow", x) ELSE 0
      paid == IF setup.treasury THEN fee ELSE 0
  IN  /\ ~paused /\ now <= deadline
      /\ n \notin nonces
      /\ paid > 0 => Takes("escrow")
      /\ nonces' = nonces \cup {n}
      /\ orders' = Append(orders, [asset |-> a, net |-> x - fee, fee |-> fee,
                                   deadline |-> deadline])
      /\ funds' = [funds EXCEPT !["escrow"][a] = @ + x - paid,
                                !["treasury"][a] = @ + paid]
      /\ collected' = [collected EXCEPT ![a] = @ + paid]
      /\ UNCHANGED <<now, paused, closed, settings, fulfilled, refunded, moves,
                     given, withdrawn, swapFees>>

Open(o) == o \notin fulfilled \cup refunded

\* fulfillCrossChainOrder: the payout goes from the solver to the recipient.
Fulfill(o) ==
  /\ ~paused /\ solving
  /\ Open(o) /\ now <= orders[o].deadline
  /\ fulfilled' = fulfilled \cup {o}
  /\ UNCHANGED <<now, paused, closed, settings, ledgers, orders, nonces, refunded>>

\* Variant: the fee is given back with the deposit.
GrossRefund(o) == orders[o].net + orders[o].fee

\* What refundExpiredOrder pays.
Refunded(o) == orders[o].net

\* Variant: looks at the treasury's pause as well.
BothPauses == ~paused /\ ~closed

\* whenNotPaused.
Running == ~paused

Refund(o) ==
  /\ Running
  /\ Open(o) /\ now > orders[o].deadline
  /\ Refunded(o) <= funds["escrow"][orders[o].asset]
  /\ refunded' = refunded \cup {o}
  /\ funds' = [funds EXCEPT !["escrow"][orders[o].asset] = @ - Refunded(o)]
  /\ UNCHANGED <<now, paused, closed, settings, orders, nonces, fulfilled,
                 collected, moves, given, withdrawn, swapFees>>

(***************************************************************************)
(* The unified router: it takes the whole input, hands the fee to the      *)
(* treasury and the rest to a venue.  A V3 venue that runs out of          *)
(* liquidity takes less, and the router keeps what it left.                *)
(***************************************************************************)
RouterSwap(x, left) ==
  LET fee == Fee("router", x)
  IN  /\ Moved
      /\ fee > 0 => Takes("router")
      /\ left <= x - fee
      /\ funds' = [funds EXCEPT !["router"][Wrapped] = @ + left,
                                !["treasury"][Wrapped] = @ + fee]
      /\ collected' = [collected EXCEPT ![Wrapped] = @ + fee]
      /\ swapFees' = [swapFees EXCEPT ![Wrapped] = @ + fee]
      /\ UNCHANGED <<now, paused, closed, settings, book, given, withdrawn>>

(***************************************************************************)
(* The treasury, the controller, the breaker and the owners.               *)
(***************************************************************************)

\* The InsufficientBalance check.
Holds(a, x) == x <= funds["treasury"][a]

TakeOut(a, x) ==
  /\ Moved
  /\ Holds(a, x)
  /\ funds' = [funds EXCEPT !["treasury"][a] = @ - x]
  /\ withdrawn' = [withdrawn EXCEPT ![a] = @ + x]
  /\ UNCHANGED <<now, paused, closed, settings, book, collected, given, swapFees>>

Withdraw(a, x) == ~closed /\ TakeOut(a, x)
RescueToken(a, x) == TakeOut(a, x)

\* A transfer, or coins sent to receive().
Give(h, a, x) ==
  /\ Moved
  /\ funds' = [funds EXCEPT ![h][a] = @ + x]
  /\ given' = [given EXCEPT ![h][a] = @ + x]
  /\ UNCHANGED <<now, paused, closed, settings, book, collected, withdrawn, swapFees>>

SetRate(r, bps) ==
  /\ bps <= MaxRate
  /\ rate' = [rate EXCEPT ![r] = bps]
  /\ UNCHANGED <<now, paused, closed, setup, collectors, solving, ledgers, book>>

SetFeeCollector(r) ==
  /\ \E on \in BOOLEAN : collectors' = IF on THEN collectors \cup {r} ELSE collectors \ {r}
  /\ UNCHANGED <<now, paused, closed, setup, rate, solving, ledgers, book>>

SetSolverAuthorization ==
  /\ solving' \in BOOLEAN
  /\ UNCHANGED <<now, paused, closed, setup, rate, collectors, ledgers, book>>

SetEmergencyPause ==
  /\ closed' \in BOOLEAN
  /\ UNCHANGED <<now, paused, settings, ledgers, book>>

EmergencyPause == ~paused /\ paused' = TRUE /\ UNCHANGED <<now, closed, settings, ledgers, book>>
Resume == paused /\ paused' = FALSE /\ UNCHANGED <<now, closed, settings, ledgers, book>>

Tick ==
  /\ now < MaxTime /\ now' = now + 1
  /\ UNCHANGED <<paused, closed, settings, ledgers, book>>

EscrowNext ==
  \/ \E a \in Assets, x \in Sums, n \in Nonces, d \in Deadlines : Initiate(a, x, n, d)
  \/ \E o \in DOMAIN orders : Fulfill(o) \/ Refund(o)
  \/ \E x \in Sums, left \in {0, 1} : RouterSwap(x, left)
  \/ \E a \in Assets, x \in Sums \cup {1} : Withdraw(a, x) \/ RescueToken(a, x)
  \/ \E h \in {"escrow", "treasury"}, a \in Assets, x \in Sums : Give(h, a, x)
  \/ \E r \in Routers, bps \in Rates : SetRate(r, bps)
  \/ \E r \in Routers : SetFeeCollector(r)
  \/ SetSolverAuthorization \/ SetEmergencyPause \/ EmergencyPause \/ Resume
  \/ Tick

\* Time passes, and whoever wants a refund calls until a call goes through.
EscrowSpec ==
  /\ EscrowInit /\ [][EscrowNext]_escrowVars
  /\ WF_escrowVars(Tick)
  /\ \A o \in 1..Cardinality(Nonces) : SF_escrowVars(o \in DOMAIN orders /\ Refund(o))

(***************************************************************************)
(* Properties.                                                             *)
(***************************************************************************)
Total(n, f) ==
  LET sum[i \in 0..n] == IF i = 0 THEN 0 ELSE sum[i - 1] + f[i]
  IN  sum[n]

\* By order, what of its deposit is still there, and its fee.
Deposited(a) ==
  [o \in DOMAIN orders |-> IF orders[o].asset = a /\ o \notin refunded THEN orders[o].net ELSE 0]
Charged(a) == [o \in DOMAIN orders |-> IF orders[o].asset = a THEN orders[o].fee ELSE 0]

\* Every coin is accounted for, whatever order deposits, fills, refunds, fee
\* changes, pauses and gifts come in: the escrow holds the net deposits it did
\* not refund (a filled order's stays for good), gifts, and the fees nobody was
\* there to take; the treasury holds what it says it collected, which is the
\* fees of both routers, and gifts, less what was taken out.
LedgersAgree ==
  /\ EscrowTypeOK
  /\ \A a \in Assets :
       LET fees == Total(Len(orders), Charged(a))
       IN  /\ funds["escrow"][a] = Total(Len(orders), Deposited(a)) + given["escrow"][a]
                                    + (IF setup.treasury THEN 0 ELSE fees)
           /\ collected[a] = swapFees[a] + (IF setup.treasury THEN fees ELSE 0)
           /\ funds["treasury"][a] = collected[a] + given["treasury"][a] - withdrawn[a]

\* An order that lapsed unfilled is refunded to a user who keeps asking, unless
\* the breaker stays on: not the treasury's pause, nor the loss of its consent,
\* nor other orders' fills and refunds stand in the way.
RefundComes ==
  \A o \in 1..Cardinality(Nonces) :
    []<>~paused =>
      (o \in DOMAIN orders /\ Open(o) /\ now > orders[o].deadline ~> o \in refunded)
=============================================================================
