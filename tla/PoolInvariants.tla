--------------------------- MODULE PoolInvariants ---------------------------
(***************************************************************************)
(* What is true of the pools at all times, in the form that every call     *)
(* keeps, and the words in which a call is described: for the pool of      *)
(* constant product and its routers, then for the pool of concentrated     *)
(* liquidity, its position manager and its quoter.  ContractProofs proves  *)
(* the statements made with them.                                          *)
(***************************************************************************)
EXTENDS Pool, V3Pool

\* Pairs of amounts, one of each token.
Counts == [Tokens -> Nat]

\* The worth of a share is kept by a step.
WorthKept ==
  totalSupply > 0 /\ totalSupply' > 0 =>
    IF lp'["treasury"] = lp["treasury"]
      THEN Prod(reserve') * totalSupply * totalSupply
             >= Prod(reserve) * totalSupply' * totalSupply'
      ELSE LET kept == 5 * Root(Prod(reserve)) + Root(kLast)
           IN  36 * Prod(reserve') * totalSupply * totalSupply
                 >= kept * kept * totalSupply' * totalSupply'

\* What everybody holds of the pool's own token.
Shares == [Accounts -> Nat]

\* The copies a swap keeps for its revert.
Frames == [open : {TRUE}, out : Amounts, reserve : Amounts, balance : Amounts, lp : Shares]

\* The types of the pool's state.
PoolTyped ==
  /\ balance \in Amounts /\ reserve \in Amounts
  /\ lp \in Shares /\ totalSupply \in Nat /\ kLast \in Nat
  /\ feeOn \in BOOLEAN /\ calls \in 0..MaxCalls
  /\ frame \in {NoFrame} \cup Frames

\* Every share is somebody's, and some are the zero address's for good.
Held(l, supply) ==
  /\ l["trader"] + l["pool"] + l["zero"] + l["treasury"] = supply
  /\ supply > 0 => l["zero"] >= MinLiquidity

\* What a frame returns to, and what it may settle on.
FrameOK ==
  IF frame.open
    THEN /\ frame.reserve = reserve
         /\ \A t \in Tokens : reserve[t] <= frame.balance[t] /\ frame.out[t] < reserve[t]
         /\ Held(frame.lp, totalSupply) /\ frame.lp["treasury"] = lp["treasury"]
    ELSE \A t \in Tokens : reserve[t] <= balance[t]

\* What every call of the pool keeps.
PoolInv ==
  /\ PoolTyped
  /\ Held(lp, totalSupply)
  /\ totalSupply > 0 => Tradable
  /\ FrameOK

-----------------------------------------------------------------------------
(***************************************************************************)
(* The concentrated-liquidity pool.                                        *)
(***************************************************************************)
\* s has the sum of f over each subset of S, whichever member is taken first.
SumsOver(s, f, S) ==
  /\ s \in [SUBSET S -> Int]
  /\ s[{}] = 0
  /\ \A T \in SUBSET S : \A x \in T : s[T] = f[x] + s[T \ {x}]

\* A step down: what it takes covers, in exact amounts, what the move is worth, and what it gives
\* is covered by it; short of the target the exact side is used up.
Falls(p, t, liq, rem, n, i, o, f) ==
  /\ SwapStep(p, t, liq, rem) = [next |-> n, in |-> i, out |-> o, fee |-> f]
  /\ t <= n /\ n <= p
  /\ liq * Q * (p - n) <= p * (n * i) /\ Q * o <= liq * (p - n)
  /\ rem >= 0 => i + f <= rem /\ (n = t \/ i + f = rem)
  /\ rem < 0 => o <= -rem /\ (n = t \/ o = -rem)

\* A step up, as Falls says it of a step down.
Rises(p, t, liq, rem, n, i, o, f) ==
  /\ SwapStep(p, t, liq, rem) = [next |-> n, in |-> i, out |-> o, fee |-> f]
  /\ p <= n /\ n <= t
  /\ liq * (n - p) <= Q * i /\ n * (p * o) <= liq * Q * (n - p)
  /\ rem >= 0 => i + f <= rem /\ (n = t \/ i + f = rem)
  /\ rem < 0 => o <= -rem /\ (n = t \/ o = -rem)

\* Every tick's books: gross, net and the bit.
Booked ==
  \A t \in Ticks :
    /\ gross[t] = SumFunction(Starting(t)) + SumFunction(Ending(t))
    /\ net[t] = SumFunction(Starting(t)) - SumFunction(Ending(t))
    /\ t \in bitmap <=> gross[t] > 0

\* A common multiple of the prices of all ticks, and its quotient by each.
IsCommon(m) == \A t \in Ticks : \E q \in Nat \ {0} : m = SqrtPrice[t] * q
Common      == CHOOSE m \in Nat \ {0} : IsCommon(m)
PerTick(t)  == CHOOSE q \in Nat \ {0} : Common = SqrtPrice[t] * q

\* What a unit of liquidity in a range is worth at a price and tick, without
\* rounding: of token 0 in units of Q / (price * Common), of token 1 in units of 1/Q.
Share0(r, p, t) == IF t < r[1] THEN p * (PerTick(r[1]) - PerTick(r[2]))
                   ELSE IF t < r[2] THEN Common - p * PerTick(r[2]) ELSE 0
Share1(r, p, t) == IF t < r[1] THEN 0
                   ELSE IF t < r[2] THEN p - SqrtPrice[r[1]]
                   ELSE SqrtPrice[r[2]] - SqrtPrice[r[1]]

\* By position, what its liquidity is worth.
Stake0(p, t) == [k \in Keys |-> positions[k].liq * Share0(k[2], p, t)]
Stake1(p, t) == [k \in Keys |-> positions[k].liq * Share1(k[2], p, t)]

\* What the pool holds beyond what is owed covers all stakes, to the fraction.
Covers(p, t, h0, h1) ==
  /\ SumFunction(Stake1(p, t)) <= Q * (h1 - SumFunction(Owed(2)))
  /\ Q * SumFunction(Stake0(p, t)) <= p * (Common * (h0 - SumFunction(Owed(1))))

\* The pool's state as a swap's loop has it: s after some rounds of a swap.
Change(s, exact, down, amount) ==
  IF down = exact THEN <<amount - s.remaining, s.calculated>>
  ELSE <<s.calculated, amount - s.remaining>>

\* The invariant of the loop of swap: what remains is on the side it started on, the price lies in the
\* interval of the tick and short of the limit, the active liquidity is that of the tick, and with what
\* came of the swap so far the holdings would cover every stake.
Underway(s, exact, down, limit, amount) ==
  /\ s.remaining \in Int /\ s.calculated \in Int
  /\ IF exact THEN s.remaining >= 0 ELSE s.remaining <= 0
  /\ s.price \in SqrtPrice[MinTick]..(SqrtPrice[MaxTick] - 1)
  /\ IF down THEN limit <= s.price ELSE s.price <= limit
  /\ s.tick \in MinTick..(MaxTick - 1)
  /\ SqrtPrice[s.tick] <= s.price /\ s.price <= SqrtPrice[s.tick + 1]
  /\ s.liq = SumFunction(InForce(s.tick))
  /\ Covers(s.price, s.tick, holding[0] + Change(s, exact, down, amount)[1],
                             holding[1] + Change(s, exact, down, amount)[2])

\* A step in either direction, as Falls and Rises say it of each.
Moves(down, p, t, liq, rem, n, i, o, f) ==
  /\ SwapStep(p, t, liq, rem) = [next |-> n, in |-> i, out |-> o, fee |-> f]
  /\ IF down THEN t <= n /\ n <= p ELSE p <= n /\ n <= t
  /\ liq * (n - p) <= Q * (IF down THEN 0 - o ELSE i + f)
  /\ liq * Q * (p - n) <= p * (n * (IF down THEN i + f ELSE 0 - o))
  /\ rem >= 0 => i + f <= rem /\ (n = t \/ i + f = rem)
  /\ rem < 0 => o <= -rem /\ (n = t \/ o = -rem)

\* The prices a pool can have, and those that may limit a swap.
Prices == SqrtPrice[MinTick]..(SqrtPrice[MaxTick] - 1)
Bounds == (SqrtPrice[MinTick] + 1)..(SqrtPrice[MaxTick] - 1)

\* What NextTick finds from a tick, in either direction.
Found(from, down, at, ini) ==
  /\ NextTick(from, down) = [at |-> at, initialized |-> ini]
  /\ IF down THEN at <= from /\ \A u \in (at + 1)..from : u \notin bitmap
             ELSE from < at /\ \A u \in (from + 1)..(at - 1) : u \notin bitmap
  /\ ini <=> at \in bitmap
  /\ ini \/ (IF down THEN at = MinTick \/ at % WordSize = 0
              ELSE at = MaxTick \/ (at + 1) % WordSize = 0)

\* The target of a round's step, in either direction: ahead of the price, not
\* beyond the next tick nor the limit, and at one of the two.
Ahead(down, p, e, limit, target) ==
  /\ target = IF (IF down THEN e < limit ELSE e > limit) THEN limit ELSE e
  /\ target = e \/ target = limit
  /\ IF down THEN target <= p /\ e <= target /\ limit <= target
             ELSE p <= target /\ target <= e /\ target <= limit

\* Where the tick and the active liquidity come to be.
TickAfter(down, tau, at, p, n) ==
  IF n = SqrtPrice[at] THEN (IF down THEN at - 1 ELSE at)
  ELSE IF n # p THEN TickAt(n) ELSE tau

LiqAfter(down, liq, at, ini, n) ==
  IF n = SqrtPrice[at] /\ ini THEN (liq + (IF down THEN -net[at] ELSE net[at])) ELSE liq

\* What a round does, in terms of the step it takes.
Rounded(s, exact, down, limit, at, ini, t, n, i, o, f) ==
  /\ Found(s.tick, down, at, ini)
  /\ Ahead(down, s.price, SqrtPrice[at], limit, t)
  /\ Moves(down, s.price, t, s.liq, s.remaining, n, i, o, f)
  /\ SwapRound(s, exact, down, limit) =
       [remaining  |-> IF exact THEN s.remaining - (i + f) ELSE s.remaining + o,
        calculated |-> IF exact THEN s.calculated - o ELSE s.calculated + (i + f),
        price      |-> n,
        tick       |-> TickAfter(down, s.tick, at, s.price, n),
        liq        |-> LiqAfter(down, s.liq, at, ini, n)]

\* Where a round's price and tick come to be: in step, and the active liquidity
\* and everybody's stakes with them.
Lands(p, tau, n, tau2, liq2) ==
  /\ n \in Prices /\ tau2 \in MinTick..(MaxTick - 1)
  /\ SqrtPrice[tau2] <= n /\ n <= SqrtPrice[tau2 + 1]
  /\ liq2 = SumFunction(InForce(tau2))
  /\ Stake0(n, tau) = Stake0(n, tau2) /\ Stake1(n, tau) = Stake1(n, tau2)

\* The states of a swap's loop after each of its first rounds.
IsRounds(q, N, s, exact, down, limit) ==
  q = [n \in 0..N |-> IF n = 0 THEN s ELSE SwapRound(q[n - 1], exact, down, limit)]

\* The rounds of a swap, as a function, and the last of them as its outcome.
RoundsAfter(q, s, exact, down, limit) ==
  /\ q[0] = s
  /\ \A k \in Nat : k + 1 \in 0..Rounds => q[k + 1] = SwapRound(q[k], exact, down, limit)
  /\ SwapLoop(s, exact, down, limit) = q[Rounds]

\* A swap's loop has come to its end: nothing remains, or the limit is reached.
Ended(s, limit) == s.remaining = 0 \/ s.price = limit

\* g is f but for one key, where it is e more.
Added(f, g, key, e) == (\A k \in Keys : k # key => g[k] = f[k]) /\ g[key] = f[key] + e

\* One position's liquidity changes by d.
Shifts(o, r, d) ==
  /\ <<o, r>> \in Keys
  /\ positions' \in [Keys -> [liq : Nat, owed : Nat \X Nat]]
  /\ \A k \in Keys : positions'[k].liq = positions[k].liq + (IF k = <<o, r>> THEN d ELSE 0)

\* An amount and its exact value, by the direction it is rounded in.
Right0(a, b, liq, up, w) ==
  /\ Amount0(a, b, liq, up) = w
  /\ IF up THEN liq * Q * (b - a) <= b * (a * w) ELSE b * (a * w) <= liq * Q * (b - a)

Right1(a, b, liq, up, w) ==
  /\ Amount1(a, b, liq, up) = w
  /\ IF up THEN liq * (b - a) <= Q * w ELSE Q * w <= liq * (b - a)

\* What a change of liquidity is worth, and its exact value.
WorthRight(r, liq, up, w0, w1) ==
  /\ Worth(r, liq, up) = <<w0, w1>>
  /\ IF up THEN /\ liq * Share1(r, price, tick) <= Q * w1
                /\ Q * (liq * Share0(r, price, tick)) <= price * (Common * w0)
           ELSE /\ Q * w1 <= liq * Share1(r, price, tick)
                /\ price * (Common * w0) <= Q * (liq * Share0(r, price, tick))

\* The price is where the tick says.
InStep == /\ price \in Prices /\ tick \in MinTick..(MaxTick - 1)
          /\ SqrtPrice[tick] <= price /\ price <= SqrtPrice[tick + 1]

\* What one position is owed changes by w0 and w1.
OwedShifts(o, r, w0, w1) ==
  \A k \in Keys :
    /\ positions'[k].owed[1] = positions[k].owed[1] + (IF k = <<o, r>> THEN w0 ELSE 0)
    /\ positions'[k].owed[2] = positions[k].owed[2] + (IF k = <<o, r>> THEN w1 ELSE 0)

\* The inductive invariant of the pool.
TotalsInv ==
  /\ TotalsAgree
  /\ price = 0 => positions = [k \in Keys |-> NoPosition]
  /\ price # 0 => Covers(price, tick, holding[0], holding[1])

\* The rest of the state keeps its type.
RestTyped == /\ nfts' \in Seq([range : Ranges, liq : Nat, owed : Nat \X Nat])
             /\ v3calls' \in 0..MaxV3Calls

\* The manager's position of a range, against its accounts: one of its three sums.
Agreed(r) ==
  /\ positions[<<"manager", r>>].liq = SumFunction(OwnLiq(r))
  /\ positions[<<"manager", r>>].owed[1] = SumFunction(OwnOwed(r, 1))
  /\ positions[<<"manager", r>>].owed[2] = SumFunction(OwnOwed(r, 2))

\* The manager's positions stay, in liquidity and what is owed.
ManagerStays ==
  \A r \in Ranges : /\ positions'[<<"manager", r>>].liq = positions[<<"manager", r>>].liq
                    /\ positions'[<<"manager", r>>].owed[1] = positions[<<"manager", r>>].owed[1]
                    /\ positions'[<<"manager", r>>].owed[2] = positions[<<"manager", r>>].owed[2]

\* By how much a function on the tokens changes, at one of them.
TokenAdded(f, g, i, e) ==
  /\ f \in [DOMAIN nfts -> Nat] /\ g \in [DOMAIN nfts -> Nat]
  /\ (\A j \in DOMAIN nfts : j # i => g[j] = f[j]) /\ g[i] = f[i] + e

\* One token's account changes, of liquidity by d and of what is owed by w0, w1.
TokenShifts(i, r, d, w0, w1) ==
  /\ nfts[i].range = r /\ DOMAIN nfts' = DOMAIN nfts
  /\ \A j \in DOMAIN nfts : j # i => nfts'[j] = nfts[j]
  /\ nfts'[i].range = r
  /\ nfts'[i].liq = nfts[i].liq + d
  /\ nfts'[i].owed[1] = nfts[i].owed[1] + w0 /\ nfts'[i].owed[2] = nfts[i].owed[2] + w1

\* By how much a function on the tokens grows, with a token more.
TokenMore(f, g, n, e) ==
  /\ f \in [1..n -> Nat] /\ g \in [1..(n + 1) -> Nat]
  /\ (\A j \in 1..n : g[j] = f[j]) /\ g[n + 1] = e

\* What is proved of every state: the pool's invariant, and the manager's accounts.
V3Inv == TotalsInv /\ AccountsAgree

\* Every swap that the pool takes comes to an end in the rounds the model allows
\* it: the amount is used up, or the price has reached the limit.
SwapsEnd ==
  price # 0 => \A down, exact \in BOOLEAN, amount \in Int, limit \in Bounds :
    /\ IF exact THEN amount >= 0 ELSE amount <= 0
    /\ IF down THEN limit < price ELSE limit > price
    => Ended(SwapLoop([remaining |-> amount, calculated |-> 0, price |-> price,
                       tick |-> tick, liq |-> liquidity], exact, down, limit), limit)

\* The least amount that covers a way, and the greatest that a way covers, for
\* either token.
Least0(a, b, k, x) == k * (b - a) <= b * (a * x) /\ \A m \in Nat : k * (b - a) <= b * (a * m) => x <= m
Most0(a, b, k, x)  == b * (a * x) <= k * (b - a) /\ \A m \in Nat : b * (a * m) <= k * (b - a) => m <= x
Least1(a, b, k, x) == k * (b - a) <= Q * x /\ \A m \in Nat : k * (b - a) <= Q * m => x <= m
Most1(a, b, k, x)  == Q * x <= k * (b - a) /\ \A m \in Nat : Q * m <= k * (b - a) => m <= x

\* What a move costs and what it gives, in either direction.
Toward(down, a, b)    == IF down THEN b <= a ELSE a <= b
Cost(down, liq, a, b) == IF down THEN Amount0(b, a, liq, TRUE) ELSE Amount1(a, b, liq, TRUE)
Gain(down, liq, a, b) == IF down THEN Amount1(b, a, liq, FALSE) ELSE Amount0(a, b, liq, FALSE)

\* An input that pays for an amount and the fee on it.
Fits(i, x) == i * PipScale <= x * (PipScale - FeePips)

\* What the fee leaves of an input.
Left(x) == (x * (PipScale - FeePips)) \div PipScale

\* Where a step of an exact input goes: to the target if what the fee leaves
\* pays for that, else as far as it does.
Reach(down, p, t, liq, less) ==
  IF Cost(down, liq, p, t) <= less THEN t ELSE NextFromInput(p, liq, less, down)

\* What a step of an exact input results in, if it goes to n.
Outcome(down, p, t, liq, rem, n) ==
  [next |-> n, in |-> Cost(down, liq, p, n), out |-> Gain(down, liq, p, n),
   fee |-> IF n # t THEN rem - Cost(down, liq, p, n)
           ELSE DivUp(Cost(down, liq, p, n) * FeePips, PipScale - FeePips)]

\* What a step of an exact input does: it goes to n, for c with the fee; no
\* further than paid for, as far as can be, and for no more than needed.
Taken(down, p, t, liq, rem, n, c) ==
  /\ SwapStep(p, t, liq, rem).next = n
  /\ SwapStep(p, t, liq, rem).in + SwapStep(p, t, liq, rem).fee = c
  /\ SwapStep(p, t, liq, rem).out = Gain(down, liq, p, n)
  /\ Toward(down, p, n) /\ Toward(down, n, t)
  /\ c <= rem /\ (n = t \/ c = rem)
  /\ Fits(Cost(down, liq, p, n), c)
  /\ n = t => \A x \in Nat : Fits(Cost(down, liq, p, n), x) => c <= x
  /\ \A m \in Nat \ {0} :
       Toward(down, p, m) /\ Toward(down, m, t) /\ Fits(Cost(down, liq, p, m), rem) => Toward(down, m, n)

\* A step that does not reach its target is the same for any target beyond.
SameBeyond(down, p, t, liq, rem) ==
  \A u \in Nat \ {0} : Toward(down, t, u) /\ SwapStep(p, t, liq, rem).next # t
                        => SwapStep(p, u, liq, rem) = SwapStep(p, t, liq, rem)

\* A swap at price n, with r remaining and g given, against a quote at price p
\* with s remaining and h given: on the quote's way, having paid for it, and
\* having given no more than the way does.
Trails(down, liq, p, s, h, n, r, g) ==
  /\ Toward(down, p, n)
  /\ Fits(Cost(down, liq, p, n), s - r)
  /\ h - Gain(down, liq, p, n) <= g

\* A state a round can start from.
Sane(s, down, limit) ==
  /\ s.remaining \in Nat /\ s.calculated \in Int /\ s.price \in Prices /\ s.liq \in Nat
  /\ Toward(down, s.price, limit)
  /\ s.tick \in MinTick..(MaxTick - 1)
  /\ SqrtPrice[s.tick] <= s.price /\ s.price <= SqrtPrice[s.tick + 1]

\* What a round makes of a state, if the next tick is at and the step goes to n for c.
Stepped(s, down, at, ini, n, c) ==
  [remaining  |-> s.remaining - c,
   calculated |-> s.calculated - Gain(down, s.liq, s.price, n),
   price      |-> n,
   tick       |-> TickAfter(down, s.tick, at, s.price, n),
   liq        |-> LiqAfter(down, s.liq, at, ini, n)]

\* A round of a swap of an exact input.
Moved(s, down, limit) == SwapRound(s, TRUE, down, limit)

\* The state r a round makes of s by going to n for c, towards the tick at.
Arrived(s, r, down, limit, at, ini, n, c) ==
  /\ r.remaining = s.remaining - c /\ r.remaining \in Nat
  /\ r.calculated = s.calculated - Gain(down, s.liq, s.price, n)
  /\ r.calculated \in Int /\ r.calculated <= s.calculated
  /\ r.price = n /\ n \in Prices
  /\ Toward(down, s.price, n) /\ Toward(down, n, limit) /\ Toward(down, n, SqrtPrice[at])
  /\ r.tick \in MinTick..(MaxTick - 1) /\ SqrtPrice[r.tick] <= n /\ n <= SqrtPrice[r.tick + 1]
  /\ r.tick = TickAfter(down, s.tick, at, s.price, n) /\ Toward(down, s.tick, r.tick)
  /\ n = SqrtPrice[at] => r.tick = (IF down THEN at - 1 ELSE at)
  /\ n # SqrtPrice[at] => Ended(r, limit) /\ IF down THEN at <= r.tick ELSE r.tick < at
  /\ r.liq = LiqAfter(down, s.liq, at, ini, n)

\* What the quote's search finds from a tick.
Finds(from, down, at, ini) ==
  /\ QuotedTick(TicksRead, from, down) = [at |-> at, initialized |-> ini]
  /\ IF down THEN at <= from /\ \A u \in TicksRead : u <= from => u <= at
             ELSE from < at /\ \A u \in TicksRead : from < u => at <= u
  /\ ini => at \in TicksRead
  /\ ini \/ at = (IF down THEN MinTick ELSE MaxTick)

\* The round that makes r of s: a step to n for c, towards the tick at.
Goes(s, r, down, limit, at, ini, t, n, c) ==
  /\ Ahead(down, s.price, SqrtPrice[at], limit, t)
  /\ Taken(down, s.price, t, s.liq, s.remaining, n, c)
  /\ r = Stepped(s, down, at, ini, n, c)
  /\ Arrived(s, r, down, limit, at, ini, n, c)

\* A swap of an exact input under way.
Moving(s, down, limit, amount) == Underway(s, TRUE, down, limit, amount)

\* The ticks a quote may know of: those of the present word and its neighbours.
InWindow(t) == (t \div WordSize) - (tick \div WordSize) \in -1..1

\* Where a quote that goes on is: at its start, or past a tick that was read.
AtEdge(down, v) == v = tick \/ (IF down THEN v + 1 ELSE v) \in TicksRead

\* A quote's state: at its end, or with the liquidity in force at its tick.
Quoted(s, down, limit) ==
  /\ s.remaining \in Nat /\ s.calculated \in Int /\ s.price \in Prices
  /\ \/ Ended(s, limit)
     \/ Sane(s, down, limit) /\ s.liq = SumFunction(InForce(s.tick)) /\ AtEdge(down, s.tick)

\* The same of the ticks read are at or below two ticks.
Same(v, u) == \A r \in TicksRead : r <= v <=> r <= u

\* The swap's state s is on the way of a quote's next step from q.
Behind(q, s, down) ==
  /\ s.liq = q.liq /\ Same(s.tick, q.tick)
  /\ Trails(down, s.liq, q.price, q.remaining, q.calculated, s.price, s.remaining, s.calculated)
  /\ s.price # q.price => q.remaining # 0

\* Where the swap is at the target of the quote's next step, that goes there too.
Caught(down, liq, p, s, h, t, r, g, n, c) ==
  n = t /\ \A k \in Nat : Trails(down, k, n, s - c, h - Gain(down, liq, p, n), t, r, g)

\* The rounds of a quote, as a function, and the last of them as its outcome.
QuotesAfter(q, s, down, limit) ==
  /\ q[0] = s
  /\ \A k \in Nat : k + 1 \in 0..Rounds => q[k + 1] = QuoteRound(q[k], TicksRead, down, limit)
  /\ QuoteLoop(s, TicksRead, down, limit) = q[Rounds]

\* The edge of a word.
Edge(down, u) == IF down THEN u % WordSize = 0 ELSE (u + 1) % WordSize = 0

\* The states of a swap's loop and of a quote's, from the same start, after each
\* of their rounds.
Ways(f, q, s, down, limit, amount) ==
  /\ f[0] = s /\ SwapLoop(s, TRUE, down, limit) = f[Rounds]
  /\ q[0] = s /\ QuoteLoop(s, TicksRead, down, limit) = q[Rounds]
  /\ \A k \in Nat : k + 1 \in 0..Rounds => /\ f[k + 1] = Moved(f[k], down, limit)
                                           /\ q[k + 1] = QuoteRound(q[k], TicksRead, down, limit)
  /\ \A k \in 0..Rounds : Moving(f[k], down, limit, amount) /\ Quoted(q[k], down, limit)
  /\ \A i, j \in 0..Rounds : i <= j => /\ Toward(down, f[i].tick, f[j].tick)
                                       /\ Toward(down, f[i].price, f[j].price)
                                       /\ Toward(down, q[i].price, q[j].price)
                                       /\ q[j].calculated <= q[i].calculated

\* After j rounds the swap is behind the quote after as many or less.
Chased(q, f, j, down) ==
  \E k \in 0..j : Behind(q[k], f[j], down) /\ (f[j].price # q[k].price => k < j)

\* The quote from a start is what the pool pays, or promises more at an empty edge.
PaidFrom(start, down, limit) ==
  InWindow(SwapLoop(start, TRUE, down, limit).tick) =>
    /\ -QuoteLoop(start, TicksRead, down, limit).calculated >= -SwapLoop(start, TRUE, down, limit).calculated
    /\ EmptyEdges(price, QuoteLoop(start, TicksRead, down, limit).price, down) = {}
         => QuoteLoop(start, TicksRead, down, limit) = SwapLoop(start, TRUE, down, limit)
=============================================================================
