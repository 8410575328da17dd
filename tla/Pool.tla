-------------------------------- MODULE Pool --------------------------------
(***************************************************************************)
(* The constant-product pool (ZenithV1Pair, ZenithV2Pool) and the routers  *)
(* that trade through it (ZenithV1Router, ZenithV2Router).  The two pools  *)
(* share their code but for the fee: 3 in 1000, or feeBps in 10000.        *)
(*                                                                         *)
(* A transaction of the chain is one step, except a swap with a callback:  *)
(* its receiver runs with the tokens already in hand and may call back, so *)
(* the swap is two steps around a frame, and its end may be a revert.      *)
(***************************************************************************)
EXTENDS Integers, Functions, FiniteSetsExt

CONSTANTS
  FeeNum, FeeScale,  \* the fee taken from an input, as a fraction
  MinLiquidity,      \* MINIMUM_LIQUIDITY, minted to the zero address
  Coins,             \* how many of each token exist
  Sizes,             \* bound: the amounts anyone sends or asks for
  MaxCalls           \* bound: calls in a behaviour, those of callbacks included

ASSUME FeeAssumption ==
  /\ FeeNum \in Nat /\ FeeScale \in Nat \ {0} /\ FeeNum < FeeScale
  /\ MinLiquidity \in Nat \ {0} /\ Coins \in Nat
  /\ Sizes \subseteq 1..Coins /\ MaxCalls \in Nat

VARIABLES
  balance,      \* of each token, held by the pool
  reserve,      \* reserve0 and reserve1
  lp,           \* balanceOf, of the pool's own token
  totalSupply,
  kLast,
  feeOn,        \* the factory names a receiver of the protocol fee
  frame,        \* the swap whose callback runs, NoFrame between transactions
  calls         \* made so far

vars == <<balance, reserve, lp, totalSupply, kLast, feeOn, frame, calls>>

Tokens   == {0, 1}
Accounts == {"trader", "pool", "zero", "treasury"}
Amounts  == [Tokens -> 0..Coins]
Asked    == [Tokens -> Sizes \cup {0}]
NoFrame  == [open |-> FALSE]

Sum2(f) == f[0] + f[1]
Prod(f) == f[0] * f[1]
Plus(f, g)  == [t \in Tokens |-> f[t] + g[t]]
Minus(f, g) == [t \in Tokens |-> f[t] - g[t]]
OnlyOn(t, x) == [u \in Tokens |-> IF u = t THEN x ELSE 0]

\* sqrt: the integer root, rounded down.
Root(y) == CHOOSE z \in 0..y : z * z <= y /\ y < (z + 1) * (z + 1)

Least(x, y) == IF x < y THEN x ELSE y

TypeOK ==
  /\ balance \in Amounts
  /\ reserve \in Amounts
  /\ lp \in [Accounts -> Nat]
  /\ totalSupply \in Nat
  /\ kLast \in Nat
  /\ feeOn \in BOOLEAN
  /\ calls \in 0..MaxCalls
  /\ \/ frame = NoFrame
     \/ /\ frame.open
        /\ {frame.out, frame.reserve, frame.balance} \subseteq Amounts

Zero == [t \in Tokens |-> 0]

Init ==
  /\ balance = Zero
  /\ reserve = Zero
  /\ lp = [a \in Accounts |-> 0]
  /\ totalSupply = 0
  /\ kLast = 0
  /\ feeOn \in BOOLEAN
  /\ frame = NoFrame
  /\ calls = 0

\* Variant: the lock modifier is missing.
NoLock == TRUE

\* lock: mint, burn, swap, skim and sync refuse to run inside a swap.
Unlocked == ~frame.open

Counted == calls < MaxCalls /\ calls' = calls + 1

(***************************************************************************)
(* The pool.  The steps take the balances (and for burn the shares) they   *)
(* find, so that a router's transaction can pay first and call after.      *)
(***************************************************************************)

\* _mintFee: the shares the treasury gets for the growth since the last mint
\* or burn; with the fee off there are none, and the mark kLast is dropped.
FeeLiquidity ==
  LET k == Root(Prod(reserve)) last == Root(kLast)
  IN  IF feeOn /\ kLast # 0 /\ k > last
        THEN (totalSupply * (k - last)) \div (k * 5 + last)
        ELSE 0

\* Variant: the first depositor gets every share, none is locked.
NoShareLocked == 0

\* The shares minted to the zero address with the first deposit.
FirstLocked == MinLiquidity

\* mint to the trader: what the pool holds beyond its reserves is the deposit.
MintStep(found) ==
  LET added  == Minus(found, reserve)
      supply == totalSupply + FeeLiquidity
      first  == supply = 0
      liquidity ==
        IF first THEN Root(Prod(added)) - FirstLocked
        ELSE Least((added[0] * supply) \div reserve[0],
                   (added[1] * supply) \div reserve[1])
      locked == IF first THEN FirstLocked ELSE 0
  IN  /\ liquidity > 0 /\ Counted
      /\ lp' = [lp EXCEPT !["treasury"] = @ + FeeLiquidity,
                          !["zero"] = @ + locked,
                          !["trader"] = @ + liquidity]
      /\ totalSupply' = supply + locked + liquidity
      /\ balance' = found /\ reserve' = found
      /\ kLast' = IF feeOn THEN Prod(found) ELSE 0
      /\ UNCHANGED <<feeOn, frame>>

\* burn: redeems every share that lies at the pool, whoever sent it there.
BurnStep(held) ==
  LET liquidity == held["pool"]
      supply == totalSupply + FeeLiquidity
      paid == [t \in Tokens |-> (liquidity * balance[t]) \div supply]
      left == Minus(balance, paid)
  IN  /\ Counted /\ supply > 0 /\ \A t \in Tokens : paid[t] > 0
      /\ lp' = [held EXCEPT !["treasury"] = @ + FeeLiquidity, !["pool"] = 0]
      /\ totalSupply' = supply - liquidity
      /\ balance' = left /\ reserve' = left
      /\ kLast' = IF feeOn THEN Prod(left) ELSE 0
      /\ UNCHANGED <<feeOn, frame>>

\* The outputs swap agrees to send.
CanSend(out) == Sum2(out) > 0 /\ \A t \in Tokens : out[t] < reserve[t]

\* The end of swap, given the reserves it read at its start and the balances
\* it finds after the callback: something came in, and the product of the
\* balances, less the fee on what came in, did not fall.
Settles(found, read, out) ==
  LET paidIn == [t \in Tokens |->
                   IF found[t] > read[t] - out[t] THEN found[t] - (read[t] - out[t])
                   ELSE 0]
      adjusted == [t \in Tokens |-> found[t] * FeeScale - paidIn[t] * FeeNum]
  IN  Sum2(paidIn) > 0 /\ Prod(adjusted) >= Prod(read) * FeeScale * FeeScale

Mint == Unlocked /\ MintStep(balance)
Burn == Unlocked /\ BurnStep(lp)

\* swap up to its callback; the receiver may be the pool itself.
SwapBegin(out, toPool) ==
  /\ Unlocked /\ Counted
  /\ CanSend(out)
  /\ frame' = [open |-> TRUE, out |-> out, reserve |-> reserve,
               balance |-> balance, lp |-> lp]
  /\ balance' = IF toPool THEN balance ELSE Minus(balance, out)
  /\ UNCHANGED <<reserve, lp, totalSupply, kLast, feeOn>>

\* The callback returned: the swap settles, and the reserves follow.
SwapEnd ==
  /\ frame.open
  /\ Settles(balance, frame.reserve, frame.out)
  /\ reserve' = balance
  /\ frame' = NoFrame
  /\ UNCHANGED <<balance, lp, totalSupply, kLast, feeOn, calls>>

\* The callback failed or the swap does not settle: nothing happened.
SwapRevert ==
  /\ frame.open
  /\ balance' = frame.balance /\ lp' = frame.lp
  /\ frame' = NoFrame
  /\ UNCHANGED <<reserve, totalSupply, kLast, feeOn, calls>>

\* skim: the pool gives away what it holds beyond its reserves.
Skim ==
  /\ Unlocked /\ Counted
  /\ balance' = reserve
  /\ UNCHANGED <<reserve, lp, totalSupply, kLast, feeOn, frame>>

\* sync: the reserves take over what the pool holds.
Sync ==
  /\ Unlocked /\ Counted
  /\ reserve' = balance
  /\ UNCHANGED <<balance, lp, totalSupply, kLast, feeOn, frame>>

\* The trader sends the pool x of token t, in a callback too.
Pay(t, x) ==
  /\ x <= Coins - balance[t] /\ Counted
  /\ balance' = [balance EXCEPT ![t] = @ + x]
  /\ UNCHANGED <<reserve, lp, totalSupply, kLast, feeOn, frame>>

\* The trader sends the pool x of its own shares; transfer takes no lock.
SendShares(x) ==
  /\ x <= lp["trader"] /\ Counted
  /\ lp' = [lp EXCEPT !["trader"] = @ - x, !["pool"] = @ + x]
  /\ UNCHANGED <<balance, reserve, totalSupply, kLast, feeOn, frame>>

\* setFeeTo, setTreasury of the factory.
SetTreasury ==
  /\ ~frame.open /\ Counted
  /\ feeOn' = ~feeOn
  /\ UNCHANGED <<balance, reserve, lp, totalSupply, kLast, frame>>

(***************************************************************************)
(* The routers.                                                            *)
(***************************************************************************)

\* Variant: the quote forgets the fee.
FreeAmountOut(x, from) ==
  (x * reserve[1 - from]) \div (reserve[from] + x)

\* getAmountOut: what an input of x buys.
GetAmountOut(x, from) ==
  LET net == x * (FeeScale - FeeNum)
  IN  (net * reserve[1 - from]) \div (reserve[from] * FeeScale + net)

\* getAmountIn: what must be paid for an output of y.
GetAmountIn(y, from) ==
  (reserve[from] * y * FeeScale) \div ((reserve[1 - from] - y) * (FeeScale - FeeNum)) + 1

\* quote: the amount of the other token worth x of token t.
Quote(x, t) == (x * reserve[1 - t]) \div reserve[t]

\* _addLiquidity: of the amounts wanted, those in the ratio of the reserves.
AddAmounts(wanted) ==
  IF reserve = Zero THEN wanted
  ELSE IF Quote(wanted[0], 0) <= wanted[1]
    THEN [wanted EXCEPT ![1] = Quote(wanted[0], 0)]
    ELSE [wanted EXCEPT ![0] = Quote(wanted[1], 1)]

Tradable == \A t \in Tokens : reserve[t] > 0

\* addLiquidity: pays the amounts in, then mints.
AddLiquidity(wanted) ==
  /\ Unlocked
  /\ reserve = Zero \/ (Tradable /\ \A t \in Tokens : wanted[t] > 0)
  /\ LET found == Plus(balance, AddAmounts(wanted))
     IN  found \in Amounts /\ MintStep(found)

\* removeLiquidity: sends the shares, then burns.
RemoveLiquidity(x) ==
  /\ Unlocked
  /\ x <= lp["trader"]
  /\ BurnStep([lp EXCEPT !["trader"] = @ - x, !["pool"] = @ + x])

\* The one hop of a router's swap: pay x of token t, take y of the other.
Hop(t, x, y) ==
  LET out == OnlyOn(1 - t, y)
      found == Minus(Plus(balance, OnlyOn(t, x)), out)
  IN  /\ Unlocked /\ Counted
      /\ x <= Coins - balance[t]
      /\ CanSend(out) /\ Settles(found, reserve, out)
      /\ balance' = found /\ reserve' = found
      /\ UNCHANGED <<lp, totalSupply, kLast, feeOn, frame>>

\* swapExactTokensForTokens
SwapExactIn(t, x) == x > 0 /\ Tradable /\ Hop(t, x, GetAmountOut(x, t))

\* swapTokensForExactTokens; an output that is the whole reserve divides by 0.
SwapExactOut(t, y) ==
  /\ y > 0 /\ Tradable /\ y < reserve[1 - t]
  /\ Hop(t, GetAmountIn(y, t), y)

\* Bound: the trader gives up one of its shares or all of them.
ShareSizes == {1, lp["trader"]} \ {0}

Next ==
  \/ Mint
  \/ Burn
  \/ \E out \in Asked, toPool \in BOOLEAN : SwapBegin(out, toPool)
  \/ SwapEnd
  \/ SwapRevert
  \/ Skim
  \/ Sync
  \/ \E t \in Tokens, x \in Sizes : Pay(t, x)
  \/ \E x \in ShareSizes : SendShares(x)
  \/ SetTreasury
  \/ \E wanted \in Asked : AddLiquidity(wanted)
  \/ \E x \in ShareSizes : RemoveLiquidity(x)
  \/ \E t \in Tokens, x \in Sizes : SwapExactIn(t, x) \/ SwapExactOut(t, x)

Spec == Init /\ [][Next]_vars

(***************************************************************************)
(* Properties.                                                             *)
(***************************************************************************)

\* Between transactions the pool holds at least its reserves, and once shares
\* exist neither reserve is ever emptied again: the shares of the zero address
\* can redeem nothing, so the division by a reserve in mint and quote is safe.
Backed ==
  /\ TypeOK
  /\ ~frame.open =>
       /\ \A t \in Tokens : reserve[t] <= balance[t]
       /\ totalSupply > 0 => Tradable /\ lp["zero"] >= MinLiquidity

\* No transaction lowers what a share is worth (the product of the reserves
\* over the square of the shares), but for the protocol's fee, which takes at
\* most a sixth of the growth since the last mint or burn; rounding, donations,
\* callbacks and skims included.
ShareValueKept ==
  [][ totalSupply > 0 /\ totalSupply' > 0 =>
        IF lp'["treasury"] = lp["treasury"]
          THEN Prod(reserve') * totalSupply * totalSupply
                 >= Prod(reserve) * totalSupply' * totalSupply'
          ELSE LET kept == 5 * Root(Prod(reserve)) + Root(kLast)
               IN  36 * Prod(reserve') * totalSupply * totalSupply
                     >= kept * kept * totalSupply' * totalSupply' ]_vars

\* What a router quotes the pool accepts: paying any input buys the output of
\* getAmountOut, and the input of getAmountIn pays for any output, although the
\* quote rounds and the pool checks the product with the fee taken off.
QuoteAccepted ==
  ~frame.open /\ Tradable =>
    \A t \in Tokens, x \in 1..Coins :
      LET y == GetAmountOut(x, t)
          Accepted(in, out) ==
            Settles(Minus(Plus(balance, OnlyOn(t, in)), OnlyOn(1 - t, out)),
                    reserve, OnlyOn(1 - t, out))
      IN  /\ y > 0 => CanSend(OnlyOn(1 - t, y)) /\ Accepted(x, y)
          /\ x < reserve[1 - t] => Accepted(GetAmountIn(x, t), x)

=============================================================================
