------------------------------- MODULE V3Pool -------------------------------
(***************************************************************************)
(* The concentrated-liquidity pool (ZenithV3Pool with SwapMath,            *)
(* SqrtPriceMath, TickBitmap) and the position manager that holds many     *)
(* users' positions in it under one address (ZenithV3PositionManager).     *)
(*                                                                         *)
(* Square-root prices are integers in units of 1/Q (the code's Q is 2^96), *)
(* and SqrtPrice tabulates TickMath.getSqrtRatioAtTick.  A call is a step: *)
(* the lock keeps its callbacks out of the pool, and a call whose callback *)
(* does not pay reverts.                                                   *)
(***************************************************************************)
EXTENDS Integers, Sequences, Functions, FiniteSetsExt

CONSTANTS
  MinTick, MaxTick,  \* TickMath.MIN_TICK, MAX_TICK
  SqrtPrice,         \* of each tick, in units of 1/Q
  Q,
  WordSize,          \* ticks in a word of the bitmap: 256 in the code
  FeePips, PipScale, \* the pool's fee; PipScale is 1e6 in the code
  Ranges,            \* bound: the ranges anyone takes a position in
  Liquidities,       \* bound: the liquidity of a mint or burn
  Swapped,           \* bound: the amounts swapped
  Starts, Limits,    \* bound: prices a pool starts at, and limits of swaps
  MaxV3Calls         \* bound: calls in a behaviour

Ticks  == MinTick..MaxTick
TokenIds == {0, 1}

ASSUME V3Assumption ==
  /\ MinTick \in Int /\ MaxTick \in Int /\ MinTick < 0 /\ 0 < MaxTick
  /\ SqrtPrice \in [Ticks -> Nat \ {0}]
  /\ \A t \in MinTick..(MaxTick - 1) : SqrtPrice[t] < SqrtPrice[t + 1]
  /\ Q \in Nat \ {0} /\ WordSize \in Nat \ {0} /\ MaxV3Calls \in Nat
  /\ FeePips \in Nat /\ PipScale \in Nat /\ FeePips < PipScale
  /\ Ranges \subseteq {r \in Ticks \X Ticks : r[1] < r[2]}
  /\ Liquidities \subseteq Nat \ {0} /\ Swapped \subseteq Nat \ {0}
  /\ Starts \subseteq SqrtPrice[MinTick]..(SqrtPrice[MaxTick] - 1)
  /\ Limits \subseteq (SqrtPrice[MinTick] + 1)..(SqrtPrice[MaxTick] - 1)

VARIABLES
  price,        \* slot0.sqrtPriceX96, 0 before initialize
  tick,         \* slot0.tick
  liquidity,    \* active at the price
  gross, net,   \* of each tick: liquidityGross, liquidityNet
  bitmap,       \* the ticks whose bit is set
  positions,    \* of each owner and range: liquidity and tokensOwed
  holding,      \* of each token, held by the pool
  nfts,         \* positions of the manager: range, liquidity, tokensOwed
  v3calls       \* made so far

v3vars == <<price, tick, liquidity, gross, net, bitmap, positions, holding, nfts, v3calls>>

Owners == {"lp", "manager"}
Keys   == Owners \X Ranges
NoPosition == [liq |-> 0, owed |-> <<0, 0>>]

V3TypeOK ==
  /\ \/ price = 0 /\ tick = 0
     \/ /\ price \in SqrtPrice[MinTick]..(SqrtPrice[MaxTick] - 1)
        /\ tick \in MinTick..(MaxTick - 1)
  /\ liquidity \in Nat
  /\ gross \in [Ticks -> Nat]
  /\ net \in [Ticks -> Int]
  /\ bitmap \subseteq Ticks
  /\ positions \in [Keys -> [liq : Nat, owed : Nat \X Nat]]
  /\ holding \in [TokenIds -> Nat]
  /\ nfts \in Seq([range : Ranges, liq : Nat, owed : Nat \X Nat])
  /\ v3calls \in 0..MaxV3Calls

V3Init ==
  /\ price = 0 /\ tick = 0 /\ liquidity = 0
  /\ gross = [t \in Ticks |-> 0] /\ net = [t \in Ticks |-> 0]
  /\ bitmap = {}
  /\ positions = [k \in Keys |-> NoPosition]
  /\ holding = [t \in TokenIds |-> 0]
  /\ nfts = <<>>
  /\ v3calls = 0

V3Counted == v3calls < MaxV3Calls /\ v3calls' = v3calls + 1

(***************************************************************************)
(* The arithmetic.                                                         *)
(***************************************************************************)
DivUp(x, y) == (x + y - 1) \div y

\* Variant: what a swap pays out is rounded up too.
SloppyDiv(x, y, up) == DivUp(x, y)

\* FullMath.mulDiv and mulDivRoundingUp.
Div(x, y, up) == IF up THEN DivUp(x, y) ELSE x \div y

\* getAmount0Delta and getAmount1Delta: the tokens between prices a <= b.
Amount0(a, b, liq, up) == Div(Div(liq * Q * (b - a), b, up), a, up)
Amount1(a, b, liq, up) == Div(liq * (b - a), Q, up)

\* The token that comes in (side 0 when the price falls) or goes out.
AmountOn(side, p, q, liq, up) ==
  LET a == IF p < q THEN p ELSE q
      b == IF p < q THEN q ELSE p
  IN  IF side = 0 THEN Amount0(a, b, liq, up) ELSE Amount1(a, b, liq, up)

\* getNextSqrtPriceFromInput and FromOutput.
NextFromInput(p, liq, x, down) ==
  IF down THEN IF x = 0 THEN p ELSE DivUp(liq * Q * p, liq * Q + x * p)
  ELSE p + (x * Q) \div liq
NextFromOutput(p, liq, x, down) ==
  IF down THEN p - DivUp(x * Q, liq)
  ELSE IF x = 0 THEN p ELSE DivUp(liq * Q * p, liq * Q - x * p)

\* TickMath.getTickAtSqrtRatio.
TickAt(p) == Max({t \in Ticks : SqrtPrice[t] <= p})

\* nextInitializedTickWithinOneWord: the next tick whose bit is set, or the
\* edge of the word; clamped as swap clamps it.
NextTick(from, down) ==
  LET start == IF down THEN from ELSE from + 1
      first == (start \div WordSize) * WordSize
      last  == first + WordSize - 1
      found == bitmap \cap (IF down THEN first..start ELSE start..last)
      next  == IF found = {} THEN (IF down THEN first ELSE last)
               ELSE IF down THEN Max(found) ELSE Min(found)
  IN  [at |-> IF next < MinTick THEN MinTick ELSE IF next > MaxTick THEN MaxTick ELSE next,
       initialized |-> found # {}]

\* computeSwapStep: how far the price moves towards the target, what comes in
\* and goes out, and the fee, with what remains of an exact input or output.
SwapStep(p, target, liq, remaining) ==
  LET down   == p >= target
      in     == IF down THEN 0 ELSE 1
      exact  == remaining >= 0
      less   == (remaining * (PipScale - FeePips)) \div PipScale
      next   == IF exact
                  THEN IF less >= AmountOn(in, p, target, liq, TRUE) THEN target
                       ELSE NextFromInput(p, liq, less, down)
                  ELSE IF -remaining >= AmountOn(1 - in, p, target, liq, FALSE) THEN target
                       ELSE NextFromOutput(p, liq, -remaining, down)
      paid   == AmountOn(in, p, next, liq, TRUE)
      sent   == AmountOn(1 - in, p, next, liq, FALSE)
  IN  [next |-> next,
       in   |-> paid,
       out  |-> IF ~exact /\ sent > -remaining THEN -remaining ELSE sent,
       fee  |-> IF exact /\ next # target THEN remaining - paid
                ELSE DivUp(paid * FeePips, PipScale - FeePips)]

\* The liquidity past an initialized tick.
Crossed(liq, at, down) == liq + (IF down THEN -net[at] ELSE net[at])

\* A round of swap's loop, on a record of what remains, what came of it (both
\* signed as in the code), the price, the tick and the active liquidity.
SwapRound(s, exact, down, limit) ==
  IF s.remaining = 0 \/ s.price = limit THEN s
  ELSE
    LET step   == NextTick(s.tick, down)
        edge   == SqrtPrice[step.at]
        beyond == IF down THEN edge < limit ELSE edge > limit
        moved  == SwapStep(s.price, IF beyond THEN limit ELSE edge, s.liq, s.remaining)
        cross  == moved.next = edge
    IN  [remaining  |-> IF exact THEN s.remaining - (moved.in + moved.fee)
                        ELSE s.remaining + moved.out,
         calculated |-> IF exact THEN s.calculated - moved.out
                        ELSE s.calculated + (moved.in + moved.fee),
         price      |-> moved.next,
         tick       |-> IF cross THEN (IF down THEN step.at - 1 ELSE step.at)
                        ELSE IF moved.next # s.price THEN TickAt(moved.next)
                        ELSE s.tick,
         liq        |-> IF cross /\ step.initialized THEN Crossed(s.liq, step.at, down)
                        ELSE s.liq]

\* As every round but the last crosses a tick, no loop takes more than these.
Rounds == MaxTick - MinTick + 2

SwapLoop(s, exact, down, limit) ==
  LET after[n \in 0..Rounds] ==
        IF n = 0 THEN s ELSE SwapRound(after[n - 1], exact, down, limit)
  IN  after[Rounds]

(***************************************************************************)
(* The quote of the router program: PoolStateReader reads the pool, and    *)
(* simulateV3Swap runs swap's loop over the ticks it read, without the     *)
(* bitmap's words.                                                         *)
(***************************************************************************)
\* SwapMath and TickMath of the program repeat those of the contracts (with
\* a binary search for the tick).
QuoteStep(p, target, liq, remaining) == SwapStep(p, target, liq, remaining)
QuoteTickAt(p) == TickAt(p)

\* readLivePoolState: the ticks of the present word and of its neighbours.
TicksRead == {t \in bitmap : (t \div WordSize) - (tick \div WordSize) \in -1..1}

\* Variant: the tick the price is at counts as behind it, going down.
QuotedTickBelow(ticks, from, down) ==
  LET found == {t \in ticks : IF down THEN t < from ELSE t > from}
  IN  [at |-> IF found = {} THEN (IF down THEN MinTick ELSE MaxTick)
              ELSE IF down THEN Max(found) ELSE Min(found),
       initialized |-> found # {}]

\* The next of the ticks that were read, or the end of all ticks.
QuotedTick(ticks, from, down) ==
  LET found == {t \in ticks : IF down THEN t <= from ELSE t > from}
  IN  [at |-> IF found = {} THEN (IF down THEN MinTick ELSE MaxTick)
              ELSE IF down THEN Max(found) ELSE Min(found),
       initialized |-> found # {}]

\* The loop of simulateV3Swap, for an exact input.
QuoteRound(s, ticks, down, limit) ==
  IF s.remaining <= 0 \/ s.price = limit THEN s
  ELSE
    LET step   == QuotedTick(ticks, s.tick, down)
        edge   == SqrtPrice[step.at]
        beyond == IF down THEN edge < limit ELSE edge > limit
        moved  == QuoteStep(s.price, IF beyond THEN limit ELSE edge, s.liq, s.remaining)
        cross  == moved.next = edge
    IN  [remaining  |-> s.remaining - (moved.in + moved.fee),
         calculated |-> s.calculated - moved.out,
         price      |-> moved.next,
         tick       |-> IF cross THEN (IF down THEN step.at - 1 ELSE step.at)
                        ELSE IF moved.next # s.price THEN QuoteTickAt(moved.next)
                        ELSE s.tick,
         liq        |-> IF cross /\ step.initialized THEN Crossed(s.liq, step.at, down)
                        ELSE s.liq]

QuoteLoop(s, ticks, down, limit) ==
  LET after[n \in 0..Rounds] ==
        IF n = 0 THEN s ELSE QuoteRound(after[n - 1], ticks, down, limit)
  IN  after[Rounds]

(***************************************************************************)
(* The pool's calls.                                                       *)
(***************************************************************************)

\* What a change of liquidity d in a range is worth at the present price: what
\* a mint must pay (rounded up), or a burn is owed (rounded down).
Worth(r, liq, up) ==
  LET lo == SqrtPrice[r[1]] hi == SqrtPrice[r[2]]
  IN  IF tick < r[1] THEN <<Amount0(lo, hi, liq, up), 0>>
      ELSE IF tick < r[2] THEN <<Amount0(price, hi, liq, up), Amount1(lo, price, liq, up)>>
      ELSE <<0, Amount1(lo, hi, liq, up)>>

\* Variant: the price at the upper tick counts as inside the range.
ClosedRange(r) == r[1] <= tick /\ tick <= r[2]

\* Whether a range takes part at the present tick.
InRange(r) == r[1] <= tick /\ tick < r[2]

\* _modifyPosition but for the position itself: ticks, bitmap, active liquidity.
ModifyTicks(r, d) ==
  LET after == [t \in Ticks |-> IF t \in {r[1], r[2]} THEN gross[t] + d ELSE gross[t]]
      Flipped(t) == ~(after[t] = 0 <=> gross[t] = 0)
  IN  /\ gross' = after
      /\ net' = [t \in Ticks |-> IF t = r[1] THEN net[t] + d
                                 ELSE IF t = r[2] THEN net[t] - d ELSE net[t]]
      /\ bitmap' = {t \in Ticks : IF Flipped(t) THEN t \notin bitmap ELSE t \in bitmap}
      /\ liquidity' = IF InRange(r) THEN liquidity + d ELSE liquidity

\* mint: the position is changed first, then the callback pays for it.
MintTo(o, r, liq) ==
  LET due == Worth(r, liq, TRUE)
  IN  /\ price # 0
      /\ ModifyTicks(r, liq)
      /\ positions' = [positions EXCEPT ![<<o, r>>].liq = @ + liq]
      /\ holding' = [t \in TokenIds |-> holding[t] + due[t + 1]]
      /\ UNCHANGED <<price, tick>>

\* burn: what the liquidity is worth is owed, and stays until collected.
BurnFrom(o, r, liq) ==
  LET due == Worth(r, liq, FALSE)
  IN  /\ price # 0
      /\ liq <= positions[<<o, r>>].liq
      /\ ModifyTicks(r, -liq)
      /\ positions' = [positions EXCEPT
                         ![<<o, r>>] = [liq  |-> @.liq - liq,
                                        owed |-> <<@.owed[1] + due[1], @.owed[2] + due[2]>>]]
      /\ UNCHANGED <<price, tick, holding>>

\* What collect hands out of what is asked for.
Given(o, r, asked) ==
  LET owed == positions[<<o, r>>].owed
      Cap(i) == IF asked[i] > owed[i] THEN owed[i] ELSE asked[i]
  IN  <<Cap(1), Cap(2)>>

\* The part of collect that pays; the transfer of what is not there reverts.
CollectFrom(o, r, given) ==
  /\ price # 0
  /\ \A t \in TokenIds : given[t + 1] <= holding[t]
  /\ positions' = [positions EXCEPT ![<<o, r>>].owed = <<@[1] - given[1], @[2] - given[2]>>]
  /\ holding' = [t \in TokenIds |-> holding[t] - given[t + 1]]
  /\ UNCHANGED <<price, tick, liquidity, gross, net, bitmap>>

Initialize(p) ==
  /\ V3Counted
  /\ price = 0
  /\ price' = p /\ tick' = TickAt(p)
  /\ UNCHANGED <<liquidity, gross, net, bitmap, positions, holding, nfts>>

V3Mint(r, liq) == V3Counted /\ MintTo("lp", r, liq) /\ UNCHANGED nfts
V3Burn(r, liq) == V3Counted /\ BurnFrom("lp", r, liq) /\ UNCHANGED nfts
Collect(r, asked) ==
  /\ V3Counted
  /\ CollectFrom("lp", r, Given("lp", r, asked))
  /\ UNCHANGED nfts

\* What a swap that ends at end takes and gives, and leaves behind.
SwapTo(end, down, amount) ==
  LET spent == amount - end.remaining
      delta == IF down = (amount > 0) THEN <<spent, end.calculated>>
               ELSE <<end.calculated, spent>>
  IN  /\ price' = end.price /\ tick' = end.tick /\ liquidity' = end.liq
      /\ \A t \in TokenIds : holding[t] + delta[t + 1] >= 0
      /\ holding' = [t \in TokenIds |-> holding[t] + delta[t + 1]]

\* swap of an exact input (amount > 0) or for an exact output (amount < 0).
Swap(down, amount, limit) ==
  /\ V3Counted
  /\ price # 0
  /\ IF down THEN limit < price ELSE limit > price
  /\ SwapTo(SwapLoop([remaining |-> amount, calculated |-> 0, price |-> price,
                      tick |-> tick, liq |-> liquidity], amount > 0, down, limit),
            down, amount)
  /\ UNCHANGED <<gross, net, bitmap, positions, nfts>>

(***************************************************************************)
(* The position manager: one pool position of its own per range, shared by *)
(* every NFT of that range.                                                *)
(***************************************************************************)
ManagerMint(r, liq) ==
  /\ V3Counted
  /\ MintTo("manager", r, liq)
  /\ nfts' = Append(nfts, [range |-> r, liq |-> liq, owed |-> <<0, 0>>])

DecreaseLiquidity(i, liq) ==
  LET r == nfts[i].range due == Worth(r, liq, FALSE)
  IN  /\ V3Counted
      /\ liq <= nfts[i].liq
      /\ BurnFrom("manager", r, liq)
      /\ nfts' = [nfts EXCEPT ![i] = [range |-> r, liq |-> @.liq - liq,
                                      owed |-> <<@.owed[1] + due[1], @.owed[2] + due[2]>>]]

\* Variant: a token's account is emptied, whatever the pool handed out.
EmptyAccount(owed, given) == <<0, 0>>

\* The subtraction that reverts when the pool hands out more than is owed to
\* this token: another token of the range is owed the rest.
Account(owed, given) == <<owed[1] - given[1], owed[2] - given[2]>>

ManagerCollect(i, asked) ==
  LET r == nfts[i].range
      given == Given("manager", r, asked)
      left  == Account(nfts[i].owed, given)
  IN  /\ V3Counted
      /\ left[1] >= 0 /\ left[2] >= 0
      /\ CollectFrom("manager", r, given)
      /\ nfts' = [nfts EXCEPT ![i].owed = left]

\* Bound: a collect asks for everything there may be, or for one coin of each.
Requests == {<<1, 1>>, <<1000, 1000>>}

V3Next ==
  \/ \E p \in Starts : Initialize(p)
  \/ \E r \in Ranges, liq \in Liquidities : V3Mint(r, liq)
  \/ \E r \in Ranges, liq \in Liquidities : V3Burn(r, liq)
  \/ \E r \in Ranges, asked \in Requests : Collect(r, asked)
  \/ \E down \in BOOLEAN, x \in Swapped, limit \in Limits :
       Swap(down, x, limit) \/ Swap(down, -x, limit)
  \/ \E r \in Ranges, liq \in Liquidities : ManagerMint(r, liq)
  \/ \E i \in DOMAIN nfts, liq \in Liquidities : DecreaseLiquidity(i, liq)
  \/ \E i \in DOMAIN nfts, asked \in Requests : ManagerCollect(i, asked)

V3Spec == V3Init /\ [][V3Next]_v3vars

(***************************************************************************)
(* Properties.                                                             *)
(***************************************************************************)
\* By position, its liquidity as far as it counts at a price in this tick's
\* interval, starts at a tick, ends at a tick.
InForce(t) ==
  [k \in Keys |-> IF k[2][1] <= t /\ t < k[2][2] THEN positions[k].liq ELSE 0]
Starting(t) == [k \in Keys |-> IF k[2][1] = t THEN positions[k].liq ELSE 0]
Ending(t)   == [k \in Keys |-> IF k[2][2] = t THEN positions[k].liq ELSE 0]

\* The pool's running totals are those of its positions, however swaps cross
\* the ticks and positions come and go: the active liquidity is that of the
\* ranges around the tick, gross and net are the sums of a tick's ends, a bit is
\* set just for the ticks in use, and the price lies in the tick's interval
\* (at its upper end only after a downward cross).
TotalsAgree ==
  /\ V3TypeOK
  /\ liquidity = SumFunction(InForce(tick))
  /\ \A t \in Ticks :
       /\ gross[t] = SumFunction(Starting(t)) + SumFunction(Ending(t))
       /\ net[t] = SumFunction(Starting(t)) - SumFunction(Ending(t))
       /\ t \in bitmap <=> gross[t] > 0
  /\ price # 0 => SqrtPrice[tick] <= price /\ price <= SqrtPrice[tick + 1]

\* By position, what of token i is owed, and what burning it would add to that.
Owed(i) == [k \in Keys |-> positions[k].owed[i]]
Redeemed(i) ==
  [k \in Keys |-> IF price = 0 THEN 0 ELSE Worth(k[2], positions[k].liq, FALSE)[i]]

\* The pool can pay everybody: it holds what is owed and what burning every
\* position at the present price would add, in both tokens, after any mints,
\* burns and swaps and with the roundings of each.
Solvent ==
  \A t \in TokenIds :
    holding[t] >= SumFunction(Owed(t + 1)) + SumFunction(Redeemed(t + 1))

\* By token of the manager, what it has of this range in liquidity, and owed.
OwnLiq(r)     == [i \in DOMAIN nfts |-> IF nfts[i].range = r THEN nfts[i].liq ELSE 0]
OwnOwed(r, j) == [i \in DOMAIN nfts |-> IF nfts[i].range = r THEN nfts[i].owed[j] ELSE 0]

\* The manager's accounts of its tokens add up to its position in the pool, in
\* liquidity and in what is owed, although tokens of one range share a position:
\* no collect of one token takes what another is owed.
AccountsAgree ==
  \A r \in Ranges :
    /\ positions[<<"manager", r>>].liq = SumFunction(OwnLiq(r))
    /\ \A j \in 1..2 : positions[<<"manager", r>>].owed[j] = SumFunction(OwnOwed(r, j))

\* The edges of words without a tick that a price moving from p to q meets.
EmptyEdges(p, q, down) ==
  {t \in Ticks \ bitmap :
     IF down THEN t % WordSize = 0 /\ SqrtPrice[t] \in q..p
             ELSE (t + 1) % WordSize = 0 /\ SqrtPrice[t] \in p..q}

\* The quote is what the pool would do with the same input: the same price,
\* tick, liquidity and output, over any ticks.  Only where the pool stops at the
\* empty edge of a word, and rounds there once more, may the quote differ, and
\* then it promises too much, never too little.
QuoteIsPaid ==
  \A down \in BOOLEAN, x \in Swapped, limit \in Limits :
    price # 0 /\ (IF down THEN limit < price ELSE limit > price) =>
      LET start == [remaining |-> x, calculated |-> 0, price |-> price,
                    tick |-> tick, liq |-> liquidity]
          swap  == SwapLoop(start, TRUE, down, limit)
          quote == QuoteLoop(start, TicksRead, down, limit)
      IN  (swap.tick \div WordSize) - (tick \div WordSize) \in -1..1 =>
            /\ -quote.calculated >= -swap.calculated
            /\ EmptyEdges(price, quote.price, down) = {} => quote = swap
=============================================================================
