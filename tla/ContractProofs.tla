--------------------------- MODULE ContractProofs ---------------------------
(***************************************************************************)
(* The pools, each for itself.  The pool of constant product stays backed, *)
(* its shares keep their value, and what its routers quote it accepts, for *)
(* every fee, every minimum liquidity, and any number of coins and calls.  *)
(* The concentrated-liquidity pool can pay everybody at all times, counts  *)
(* at its ticks what its positions hold, and gives what its quoter says,   *)
(* or less where it stops at the empty edge of a word; its position        *)
(* manager credits the tokens of a range with what the pool owes it; for   *)
(* any ticks, prices, fees, owners, ranges and calls.                      *)
(***************************************************************************)
EXTENDS PoolInvariants, WellFoundedInduction, FiniteSetTheorems, TLAPS

(***************************************************************************)
(* Arithmetic: the provers need products and quotients one inequality at a *)
(* time.                                                                   *)
(***************************************************************************)
LEMMA MulUp ==
  ASSUME NEW a \in Nat, NEW b \in Nat, NEW c \in Nat, NEW d \in Nat, a <= b, c <= d
  PROVE  a * c <= b * d /\ a * c \in Nat
<1>1. a * c <= b * c
  OBVIOUS
<1>2. b * c <= b * d
  OBVIOUS
<1>3. a * c \in Nat /\ b * c \in Nat /\ b * d \in Nat
  OBVIOUS
<1> QED
  BY <1>1, <1>2, <1>3

LEMMA MulCount == \A a, b \in Nat : a * b \in Nat
OBVIOUS

LEMMA MulPositive ==
  ASSUME NEW a \in Nat, NEW b \in Nat
  PROVE  a * b > 0 <=> a > 0 /\ b > 0
OBVIOUS

LEMMA MulDown ==
  ASSUME NEW k \in Nat \ {0}, NEW a \in Nat, NEW b \in Nat, k * a <= k * b
  PROVE  a <= b
<1>1. SUFFICES ASSUME a >= b + 1 PROVE FALSE
  OBVIOUS
<1>2. k * (b + 1) <= k * a
  BY <1>1, MulUp
<1>3. k * (b + 1) = k * b + k
  OBVIOUS
<1> QED
  BY <1>2, <1>3

\* A quotient is the floor.
LEMMA DivFloor ==
  ASSUME NEW n \in Nat, NEW d \in Nat \ {0}
  PROVE  /\ n \div d \in Nat
         /\ d * (n \div d) <= n
         /\ n < d * (n \div d) + d
OBVIOUS

\* Every number has an integer root.
LEMMA RootFacts ==
  ASSUME NEW y \in Nat
  PROVE  /\ Root(y) \in Nat /\ Root(y) * Root(y) <= y
         /\ y > 0 => Root(y) > 0
         /\ Root(y) > 0 => y > 0
<1> DEFINE T == {z \in Nat : y < (z + 1) * (z + 1)}
<1>1. y \in T
  <2>1. (y + 1) * (y + 1) = y * y + y + y + 1 /\ y * y \in Nat
    OBVIOUS
  <2> QED
    BY <2>1
<1>2. PICK z \in T : \A x \in T : ~ (<<x, z>> \in OpToRel(<, Nat))
  BY <1>1, NatLessThanWellFounded, WFMin
<1>3. \A x \in T : ~(x < z)
  BY <1>2 DEF OpToRel
<1>4. z \in Nat /\ y < (z + 1) * (z + 1)
  BY <1>2
<1>5. z * z <= y
  <2>1. CASE z = 0
    BY <2>1
  <2>2. CASE z > 0
    <3>1. z - 1 \in Nat /\ (z - 1) + 1 = z
      BY <1>4, <2>2
    <3>2. z - 1 \notin T
      BY <1>3, <1>4, <3>1
    <3>3. ~(y < z * z)
      BY <3>1, <3>2
    <3> QED
      BY <1>4, <3>3
  <2> QED
    BY <1>4, <2>1, <2>2
<1>6. z \in 0..y
  <2>1. z <= z * z
    BY <1>4
  <2> QED
    BY <1>4, <1>5, <2>1
<1>7. Root(y) \in 0..y /\ Root(y) * Root(y) <= y /\ y < (Root(y) + 1) * (Root(y) + 1)
  BY <1>4, <1>5, <1>6 DEF Root
<1>8. Root(y) = 0 => (Root(y) + 1) * (Root(y) + 1) = 1
  OBVIOUS
<1>9. y > 0 => Root(y) > 0
  BY <1>7, <1>8
<1> QED
  BY <1>7, <1>9

LEMMA CountsAre ==
  /\ \A f \in Counts : f[0] \in Nat /\ f[1] \in Nat
  /\ \A f \in Amounts : f \in Counts /\ f[0] \in 0..Coins /\ f[1] \in 0..Coins
BY FeeAssumption DEF Counts, Amounts, Tokens

\* What came in is taken off with the fee: a swap that settles has not lowered
\* the product of the balances.
LEMMA SettlesKeepsProduct ==
  ASSUME NEW found \in Counts, NEW read \in Counts, NEW out \in Counts,
         \A t \in Tokens : out[t] <= read[t],
         Settles(found, read, out)
  PROVE  Prod(read) <= Prod(found)
<1> DEFINE paid == [t \in Tokens |->
                     IF found[t] > read[t] - out[t] THEN found[t] - (read[t] - out[t]) ELSE 0]
           adjusted == [t \in Tokens |-> found[t] * FeeScale - paid[t] * FeeNum]
<1>1. Prod(adjusted) >= Prod(read) * FeeScale * FeeScale
  BY DEF Settles
<1>2. ASSUME NEW t \in Tokens
      PROVE  adjusted[t] \in Nat /\ adjusted[t] <= found[t] * FeeScale
  <2>1. found[t] \in Nat /\ read[t] \in Nat /\ out[t] \in Nat /\ out[t] <= read[t]
    BY DEF Counts
  <2>2. paid[t] \in Nat /\ paid[t] <= found[t]
    BY <2>1
  <2>3. adjusted[t] = found[t] * FeeScale - paid[t] * FeeNum
    OBVIOUS
  <2> HIDE DEF adjusted, paid
  <2>4. paid[t] * FeeNum <= found[t] * FeeScale /\ paid[t] * FeeNum \in Nat
    BY <2>1, <2>2, MulUp, FeeAssumption
  <2>5. found[t] * FeeScale \in Nat
    BY <2>1, FeeAssumption
  <2> QED
    BY <2>3, <2>4, <2>5
<1> HIDE DEF adjusted
<1>3. /\ adjusted[0] \in Nat /\ adjusted[1] \in Nat
      /\ adjusted[0] <= found[0] * FeeScale /\ adjusted[1] <= found[1] * FeeScale
  BY <1>2 DEF Tokens
<1>4. /\ found[0] \in Nat /\ found[1] \in Nat /\ read[0] \in Nat /\ read[1] \in Nat
      /\ FeeScale \in Nat \ {0}
  BY CountsAre, FeeAssumption
<1> PICK f0 \in Nat, f1 \in Nat, r0 \in Nat, r1 \in Nat, s \in Nat \ {0} :
      f0 = found[0] /\ f1 = found[1] /\ r0 = read[0] /\ r1 = read[1] /\ s = FeeScale
  BY <1>4
<1>5. adjusted[0] * adjusted[1] <= (f0 * s) * (f1 * s)
  BY <1>3, MulUp
<1>6. (f0 * s) * (f1 * s) = (s * s) * (f0 * f1)
  OBVIOUS
<1>7. (r0 * r1) * s * s = (s * s) * (r0 * r1)
  OBVIOUS
<1>8. (s * s) * (r0 * r1) <= (s * s) * (f0 * f1)
  <2>1. adjusted[0] * adjusted[1] \in Nat
    BY <1>3
  <2>2. adjusted[0] * adjusted[1] >= (r0 * r1) * s * s
    BY <1>1 DEF Prod
  <2> QED
    BY <2>1, <2>2, <1>5, <1>6, <1>7
<1>9. s * s \in Nat \ {0} /\ r0 * r1 \in Nat /\ f0 * f1 \in Nat
  BY MulPositive
<1> QED
  BY <1>8, <1>9, MulDown DEF Prod

\* A set of numbers with 0 and the successor of each of its members is Nat.
LEMMA Induction ==
  ASSUME NEW S, 0 \in S, \A k \in Nat : k \in S => k + 1 \in S
  PROVE  \A k \in Nat : k \in S
<1> DEFINE T == {k \in Nat : k \notin S}
<1>1. SUFFICES ASSUME NEW k \in T PROVE FALSE
  OBVIOUS
<1>2. PICK z \in T : \A x \in T : ~ (<<x, z>> \in OpToRel(<, Nat))
  BY <1>1, NatLessThanWellFounded, WFMin
<1>0. z \in Nat /\ z \notin S
  OBVIOUS
<1>3. z # 0 /\ z - 1 \in Nat /\ z - 1 < z /\ z = (z - 1) + 1
  <2>1. z # 0
    BY <1>0
  <2> QED
    BY <1>0, <2>1
<1>4. \A x \in T : ~(x < z)
  BY <1>2 DEF OpToRel
<1>5. z - 1 \in S
  BY <1>0, <1>3, <1>4
<1> QED
  BY <1>0, <1>3, <1>5

-----------------------------------------------------------------------------
(***************************************************************************)
(* The routers' quotes.                                                    *)
(***************************************************************************)
\* A payment for an output settles, if with the fee taken off it makes up for
\* the output; what lies in the pool beyond its reserves only helps.
LEMMA PaysFor ==
  ASSUME balance \in Counts, reserve \in Counts,
         \A t \in Tokens : reserve[t] <= balance[t],
         NEW t \in Tokens, NEW x \in Nat \ {0}, NEW y \in Nat, y <= reserve[1 - t],
         reserve[t] * reserve[1 - t] * FeeScale
           <= (reserve[t] * FeeScale + x * (FeeScale - FeeNum)) * (reserve[1 - t] - y)
  PROVE  Settles(Minus(Plus(balance, OnlyOn(t, x)), OnlyOn(1 - t, y)), reserve, OnlyOn(1 - t, y))
<1> DEFINE out == OnlyOn(1 - t, y)
           found == Minus(Plus(balance, OnlyOn(t, x)), out)
           paid == [u \in Tokens |->
                      IF found[u] > reserve[u] - out[u]
                        THEN found[u] - (reserve[u] - out[u]) ELSE 0]
           adjusted == [u \in Tokens |-> found[u] * FeeScale - paid[u] * FeeNum]
<1>1. t \in {0, 1} /\ 1 - t \in {0, 1} /\ 1 - t \in Tokens /\ 1 - t # t
  BY DEF Tokens
<1> PICK r \in Nat, q \in Nat, b \in Nat, c \in Nat :
      r = reserve[t] /\ q = reserve[1 - t] /\ b = balance[t] /\ c = balance[1 - t]
  BY <1>1, CountsAre
<1> PICK s \in Nat, g \in Nat : s = FeeScale /\ g = FeeScale - FeeNum
  BY FeeAssumption
<1>2. r <= b /\ q <= c /\ y <= q /\ s > 0 /\ g <= s /\ FeeNum = s - g
  BY <1>1, FeeAssumption
<1>3. out[t] = 0 /\ out[1 - t] = y
  BY <1>1 DEF OnlyOn
<1>4. found[t] = b + x /\ found[1 - t] = c - y
  BY <1>1, <1>3 DEF Minus, Plus, OnlyOn
<1> HIDE DEF out, found
<1>5. paid[t] = b + x - r /\ paid[1 - t] = c - q
  BY <1>1, <1>2, <1>3, <1>4
<1>6. /\ adjusted[t] = (b + x) * s - (b + x - r) * (s - g)
      /\ adjusted[1 - t] = (c - y) * s - (c - q) * (s - g)
  BY <1>1, <1>2, <1>4, <1>5
<1>7. paid[0] + paid[1] > 0
  <2>1. paid[t] > 0 /\ paid[1 - t] >= 0 /\ paid[t] \in Int /\ paid[1 - t] \in Int
    BY <1>2, <1>5
  <2>2. paid[0] + paid[1] = paid[t] + paid[1 - t]
    BY <1>1, <2>1
  <2> HIDE DEF paid
  <2> QED
    BY <2>1, <2>2
<1>8. adjusted[0] * adjusted[1] = adjusted[t] * adjusted[1 - t]
  <2>1. adjusted[t] \in Int /\ adjusted[1 - t] \in Int
    BY <1>6
  <2> HIDE DEF adjusted
  <2> QED
    BY <1>1, <2>1
<1> HIDE DEF paid, adjusted
<1>9. r * s + x * g <= adjusted[t]
  <2>1. adjusted[t] = r * s + x * g + (b - r) * g
    <3> PICK k \in Nat : k = b + x - r
      BY <1>2
    <3>1. (b + x) * s = k * s + r * s
      <4>1. b + x = k + r
        OBVIOUS
      <4> QED
        BY <4>1
    <3>2. k * (s - g) = k * s - k * g
      OBVIOUS
    <3>3. k * g = (b - r) * g + x * g
      <4>1. k = (b - r) + x /\ b - r \in Int
        OBVIOUS
      <4> QED
        BY <4>1
    <3>4. k * s \in Int /\ r * s \in Int /\ k * g \in Int
      OBVIOUS
    <3> QED
      BY <1>6, <3>1, <3>2, <3>3, <3>4
  <2>2. (b - r) * g >= 0
    BY <1>2
  <2> QED
    BY <2>1, <2>2
<1>10. (q - y) * s <= adjusted[1 - t]
  <2>1. adjusted[1 - t] = (q - y) * s + (c - q) * g
    <3> PICK k \in Nat : k = c - q
      BY <1>2
    <3>1. (c - y) * s = k * s + (q - y) * s
      <4>1. c - y = k + (q - y)
        OBVIOUS
      <4> QED
        BY <4>1
    <3>2. k * (s - g) = k * s - k * g
      OBVIOUS
    <3>3. k * s \in Int /\ (q - y) * s \in Int /\ k * g \in Int
      OBVIOUS
    <3> QED
      BY <1>6, <3>1, <3>2, <3>3
  <2>2. (c - q) * g >= 0
    BY <1>2
  <2> QED
    BY <2>1, <2>2
<1>11. (r * s + x * g) * ((q - y) * s) <= adjusted[t] * adjusted[1 - t]
  <2>1. r * s + x * g \in Nat /\ (q - y) * s \in Nat
    BY <1>2
  <2>2. adjusted[t] \in Nat /\ adjusted[1 - t] \in Nat
    BY <1>6, <1>9, <1>10, <2>1
  <2> QED
    BY <1>9, <1>10, <2>1, <2>2, MulUp
<1>12. r * q * s * s <= (r * s + x * g) * ((q - y) * s)
  <2>1. r * q * s <= (r * s + x * g) * (q - y)
    OBVIOUS
  <2>2. r * q * s \in Nat /\ (r * s + x * g) * (q - y) \in Nat
    BY <1>2
  <2>3. r * q * s * s <= (r * s + x * g) * (q - y) * s
    BY <2>1, <2>2, MulUp
  <2>4. (r * s + x * g) * (q - y) * s = (r * s + x * g) * ((q - y) * s)
    BY <1>2
  <2> QED
    BY <2>3, <2>4
<1>13. reserve[0] * reserve[1] = r * q
  BY <1>1
<1>14. Prod(adjusted) >= Prod(reserve) * FeeScale * FeeScale
  <2>1. r * q * s * s \in Int /\ adjusted[t] * adjusted[1 - t] \in Int
        /\ (r * s + x * g) * ((q - y) * s) \in Int
    BY <1>6
  <2>2. r * q * s * s <= adjusted[0] * adjusted[1]
    BY <1>8, <1>11, <1>12, <2>1
  <2> QED
    BY <1>13, <2>2 DEF Prod
<1> QED
  BY <1>7, <1>14 DEF Settles, Sum2, paid, adjusted, found, out

LEMMA AmountOut ==
  ASSUME reserve \in Counts, NEW t \in Tokens, NEW x \in Nat \ {0},
         reserve[t] > 0, reserve[1 - t] > 0
  PROVE  /\ GetAmountOut(x, t) \in Nat /\ GetAmountOut(x, t) < reserve[1 - t]
         /\ reserve[t] * reserve[1 - t] * FeeScale
              <= (reserve[t] * FeeScale + x * (FeeScale - FeeNum))
                   * (reserve[1 - t] - GetAmountOut(x, t))
<1>1. 1 - t \in Tokens
  BY DEF Tokens
<1> PICK r \in Nat, q \in Nat : r = reserve[t] /\ q = reserve[1 - t]
  BY <1>1, CountsAre DEF Counts
<1> PICK s \in Nat, g \in Nat : s = FeeScale /\ g = FeeScale - FeeNum
  BY FeeAssumption
<1>2. r > 0 /\ q > 0 /\ s > 0 /\ g > 0
  BY FeeAssumption
<1> PICK n : n = x * g
  OBVIOUS
<1>3. n \in Nat /\ n > 0 /\ r * s \in Nat /\ r * s > 0
  BY <1>2, MulPositive
<1> PICK d : d = r * s + n
  OBVIOUS
<1>4. d \in Nat \ {0} /\ n < d /\ n * q \in Nat
  BY <1>3
<1> PICK y : y = (n * q) \div d
  OBVIOUS
<1>5. GetAmountOut(x, t) = y
  BY DEF GetAmountOut
<1>6. y \in Nat /\ d * y <= n * q
  BY <1>4, DivFloor
<1>7. y < q
  <2>1. SUFFICES ASSUME q <= y PROVE FALSE
    BY <1>6
  <2>2. d * q <= d * y
    BY <1>4, <1>6, <2>1, MulUp
  <2>3. n * q < d * q
    BY <1>2, <1>4
  <2> QED
    BY <1>4, <1>6, <2>2, <2>3
<1>8. r * q * s <= d * (q - y)
  <2>1. d * (q - y) = d * q - d * y
    BY <1>4, <1>6
  <2>2. d * q = r * q * s + n * q
    BY <1>3
  <2> QED
    BY <1>4, <1>6, <2>1, <2>2
<1> QED
  BY <1>5, <1>6, <1>7, <1>8

LEMMA AmountIn ==
  ASSUME reserve \in Counts, NEW t \in Tokens, NEW y \in Nat, y < reserve[1 - t]
  PROVE  /\ GetAmountIn(y, t) \in Nat \ {0}
         /\ reserve[t] * reserve[1 - t] * FeeScale
              <= (reserve[t] * FeeScale + GetAmountIn(y, t) * (FeeScale - FeeNum))
                   * (reserve[1 - t] - y)
<1>1. 1 - t \in Tokens
  BY DEF Tokens
<1> PICK r \in Nat, q \in Nat : r = reserve[t] /\ q = reserve[1 - t]
  BY <1>1, CountsAre DEF Counts
<1> PICK s \in Nat, g \in Nat : s = FeeScale /\ g = FeeScale - FeeNum
  BY FeeAssumption
<1>2. s > 0 /\ g > 0 /\ q - y \in Nat \ {0}
  BY FeeAssumption
<1> PICK d : d = (q - y) * g
  OBVIOUS
<1> PICK n : n = r * y * s
  OBVIOUS
<1>3. d \in Nat \ {0} /\ n \in Nat
  BY <1>2, MulPositive
<1> PICK x : x = n \div d + 1
  OBVIOUS
<1>4. GetAmountIn(y, t) = x
  BY DEF GetAmountIn
<1>5. x \in Nat \ {0} /\ n <= d * x
  <2>1. n \div d \in Nat /\ n < d * (n \div d) + d
    BY <1>3, DivFloor
  <2>2. d * (n \div d + 1) = d * (n \div d) + d
    BY <1>3, <2>1
  <2>3. d * (n \div d) + d \in Nat
    BY <1>3, <2>1
  <2> QED
    BY <1>3, <2>1, <2>2, <2>3
<1>6. r * q * s <= (r * s + x * g) * (q - y)
  <2>1. (r * s + x * g) * (q - y) = r * q * s - n + d * x
    <3>1. (r * s + x * g) * (q - y) = (r * s) * (q - y) + (x * g) * (q - y)
      BY <1>2, <1>5
    <3>2. (r * s) * (q - y) = r * q * s - n
      OBVIOUS
    <3>3. (x * g) * (q - y) = d * x
      BY <1>2, <1>5
    <3>4. (r * s) * (q - y) \in Int /\ (x * g) * (q - y) \in Int /\ r * q * s \in Int
      BY <1>2, <1>5
    <3> QED
      BY <3>1, <3>2, <3>3, <3>4
  <2>2. r * q * s \in Int /\ d * x \in Int
    BY <1>3, <1>5
  <2> QED
    BY <1>3, <1>5, <2>1, <2>2
<1> QED
  BY <1>4, <1>5, <1>6

LEMMA QuotesPay ==
  ASSUME balance \in Counts, reserve \in Counts, Tradable,
         \A t \in Tokens : reserve[t] <= balance[t],
         NEW t \in Tokens, NEW x \in 1..Coins
  PROVE  LET y == GetAmountOut(x, t)
             Accepted(in, out) ==
               Settles(Minus(Plus(balance, OnlyOn(t, in)), OnlyOn(1 - t, out)),
                       reserve, OnlyOn(1 - t, out))
         IN  /\ y > 0 => CanSend(OnlyOn(1 - t, y)) /\ Accepted(x, y)
             /\ x < reserve[1 - t] => Accepted(GetAmountIn(x, t), x)
<1>1. /\ 1 - t \in Tokens /\ t \in {0, 1} /\ x \in Nat \ {0}
      /\ reserve[t] > 0 /\ reserve[1 - t] > 0 /\ reserve[1 - t] \in Nat
  BY CountsAre, FeeAssumption DEF Tradable, Tokens, Counts
<1> PICK y : y = GetAmountOut(x, t)
  OBVIOUS
<1>2. /\ y \in Nat /\ y < reserve[1 - t]
      /\ reserve[t] * reserve[1 - t] * FeeScale
           <= (reserve[t] * FeeScale + x * (FeeScale - FeeNum)) * (reserve[1 - t] - y)
  BY <1>1, AmountOut
<1>3. Settles(Minus(Plus(balance, OnlyOn(t, x)), OnlyOn(1 - t, y)), reserve, OnlyOn(1 - t, y))
  BY <1>1, <1>2, PaysFor
<1>4. ASSUME y > 0 PROVE CanSend(OnlyOn(1 - t, y))
  <2>1. OnlyOn(1 - t, y)[1 - t] = y /\ OnlyOn(1 - t, y)[t] = 0
    BY <1>1 DEF OnlyOn, Tokens
  <2> PICK o : o = OnlyOn(1 - t, y)
    OBVIOUS
  <2>2. o[0] + o[1] = y
    BY <1>1, <1>2, <2>1
  <2> QED
    BY <1>1, <1>2, <1>4, <2>1, <2>2 DEF CanSend, Sum2, Tokens
<1>5. ASSUME x < reserve[1 - t]
      PROVE  Settles(Minus(Plus(balance, OnlyOn(t, GetAmountIn(x, t))), OnlyOn(1 - t, x)),
                     reserve, OnlyOn(1 - t, x))
  <2> PICK p : p = GetAmountIn(x, t)
    OBVIOUS
  <2>1. /\ p \in Nat \ {0}
        /\ reserve[t] * reserve[1 - t] * FeeScale
             <= (reserve[t] * FeeScale + p * (FeeScale - FeeNum)) * (reserve[1 - t] - x)
    BY <1>1, <1>5, AmountIn
  <2>2. x \in Nat /\ x <= reserve[1 - t]
    BY <1>1, <1>5
  <2> QED
    BY <2>1, <2>2, PaysFor
<1> QED
  BY <1>3, <1>4, <1>5

-----------------------------------------------------------------------------
(***************************************************************************)
(* The protocol's fee and the worth of a share.                            *)
(***************************************************************************)
LEMMA ProdCounts == \A f \in Counts : Prod(f) \in Nat
BY CountsAre DEF Prod

\* The fee is a sixth of the growth at most: with it there are no more shares
\* than by 6k / (5k + last) times.
LEMMA FeeFacts ==
  ASSUME reserve \in Counts, totalSupply \in Nat, kLast \in Nat
  PROVE  /\ FeeLiquidity \in Nat
         /\ totalSupply = 0 => FeeLiquidity = 0
         /\ FeeLiquidity # 0 =>
              LET k == Root(Prod(reserve))
                  kept == 5 * k + Root(kLast)
              IN  /\ k > 0
                  /\ (totalSupply + FeeLiquidity) * kept <= 6 * k * totalSupply
<1> PICK k : k = Root(Prod(reserve))
  OBVIOUS
<1> PICK l : l = Root(kLast)
  OBVIOUS
<1>1. k \in Nat /\ l \in Nat
  BY ProdCounts, RootFacts
<1>2. CASE feeOn /\ kLast # 0 /\ k > l
  <2> PICK n : n = totalSupply * (k - l)
    OBVIOUS
  <2> PICK d : d = k * 5 + l
    OBVIOUS
  <2>1. n \in Nat /\ d \in Nat \ {0} /\ k > 0
    BY <1>1, <1>2
  <2> PICK f : f = n \div d
    OBVIOUS
  <2>2. FeeLiquidity = f
    BY <1>2 DEF FeeLiquidity
  <2>3. f \in Nat /\ d * f <= n
    BY <2>1, DivFloor
  <2>4. totalSupply = 0 => f = 0
    <3>1. SUFFICES ASSUME totalSupply = 0, f > 0 PROVE FALSE
      BY <2>3
    <3>2. n = 0 /\ d * f > 0
      BY <1>1, <2>1, <2>3, <3>1
    <3> QED
      BY <2>3, <3>2
  <2>5. (totalSupply + f) * d <= 6 * k * totalSupply
    <3>1. (totalSupply + f) * d = totalSupply * d + d * f
      BY <2>1, <2>3
    <3>2. totalSupply * d + n = 6 * k * totalSupply
      BY <1>1
    <3>3. totalSupply * d \in Nat /\ d * f \in Nat
      BY <2>1, <2>3
    <3> QED
      BY <2>1, <2>3, <3>1, <3>2, <3>3
  <2> QED
    BY <1>1, <2>1, <2>2, <2>3, <2>4, <2>5
<1>3. CASE ~(feeOn /\ kLast # 0 /\ k > l)
  <2>1. FeeLiquidity = 0
    BY <1>3 DEF FeeLiquidity
  <2> QED
    BY <2>1
<1> QED
  BY <1>2, <1>3

LEMMA SameShares ==
  ASSUME totalSupply \in Nat, totalSupply' = totalSupply,
         lp'["treasury"] = lp["treasury"],
         reserve \in Counts, reserve' \in Counts, Prod(reserve) <= Prod(reserve')
  PROVE  WorthKept
<1>1. Prod(reserve) \in Nat /\ Prod(reserve') \in Nat
  BY ProdCounts
<1>2. Prod(reserve) * totalSupply <= Prod(reserve') * totalSupply
  BY <1>1, MulUp
<1>3. Prod(reserve) * totalSupply \in Nat /\ Prod(reserve') * totalSupply \in Nat
  BY <1>1
<1>4. Prod(reserve) * totalSupply * totalSupply <= Prod(reserve') * totalSupply * totalSupply
  BY <1>2, <1>3, MulUp
<1> QED
  BY <1>3, <1>4 DEF WorthKept

\* A mint or a burn: each reserve is in proportion, or more, to the shares there
\* were with the fee's and those there are.
LEMMA SharesInProportion ==
  ASSUME totalSupply \in Nat \ {0}, totalSupply' \in Nat, kLast \in Nat,
         reserve \in Counts, reserve' \in Counts, lp["treasury"] \in Nat,
         lp'["treasury"] = lp["treasury"] + FeeLiquidity,
         \A t \in Tokens :
           reserve[t] * totalSupply' <= reserve'[t] * (totalSupply + FeeLiquidity)
  PROVE  WorthKept
<1>1. FeeLiquidity \in Nat
  BY FeeFacts
<1> PICK a \in Nat, b \in Nat, c \in Nat, d \in Nat :
      a = reserve[0] /\ b = reserve[1] /\ c = reserve'[0] /\ d = reserve'[1]
  BY CountsAre
<1> PICK n \in Nat, m \in Nat, f \in Nat :
      n = totalSupply /\ m = totalSupply' /\ f = FeeLiquidity
  BY <1>1
<1> PICK u \in Nat \ {0} : u = n + f
  OBVIOUS
<1>2. a * m <= c * u /\ b * m <= d * u
  BY DEF Tokens
<1>3. (a * b) * (m * m) <= (c * d) * (u * u)
  <2>1. a * m \in Nat /\ c * u \in Nat /\ b * m \in Nat /\ d * u \in Nat
    OBVIOUS
  <2>2. (a * m) * (b * m) <= (c * u) * (d * u)
    BY <1>2, <2>1, MulUp
  <2>3. (a * m) * (b * m) = (a * b) * (m * m) /\ (c * u) * (d * u) = (c * d) * (u * u)
    OBVIOUS
  <2> QED
    BY <2>2, <2>3
<1> PICK p \in Nat, q \in Nat : p = a * b /\ q = c * d
  OBVIOUS
<1>4. Prod(reserve) = p /\ Prod(reserve') = q
  BY DEF Prod
<1>5. CASE f = 0
  <2>1. lp'["treasury"] = lp["treasury"] /\ u = n
    BY <1>5
  <2>2. p * m * m <= q * n * n
    <3>1. p * m * m = p * (m * m) /\ q * n * n = q * (n * n)
      OBVIOUS
    <3> QED
      BY <1>3, <2>1, <3>1
  <2>3. p * m * m \in Nat /\ q * n * n \in Nat
    OBVIOUS
  <2> QED
    BY <1>4, <2>1, <2>2, <2>3 DEF WorthKept
<1>6. CASE f # 0
  <2> PICK k : k = Root(Prod(reserve))
    OBVIOUS
  <2> PICK l : l = Root(kLast)
    OBVIOUS
  <2>1. k \in Nat /\ l \in Nat /\ k * k <= p
    BY <1>4, RootFacts
  <2> PICK e \in Nat : e = 5 * k + l
    BY <2>1
  <2>2. k > 0 /\ u * e <= 6 * k * n
    BY <1>6, FeeFacts
  <2>3. (u * u) * (e * e) <= 36 * (k * k) * (n * n)
    <3>1. u * e \in Nat /\ 6 * k * n \in Nat
      BY <2>1
    <3>2. (u * e) * (u * e) <= (6 * k * n) * (6 * k * n)
      BY <2>2, <3>1, MulUp
    <3>3. (u * e) * (u * e) = (u * u) * (e * e)
      OBVIOUS
    <3>4. (6 * k * n) * (6 * k * n) = 36 * (k * k) * (n * n)
      BY <2>1
    <3> QED
      BY <3>2, <3>3, <3>4
  <2> PICK kk \in Nat \ {0}, ee \in Nat, nn \in Nat, mm \in Nat, uu \in Nat :
        kk = k * k /\ ee = e * e /\ nn = n * n /\ mm = m * m /\ uu = u * u
    <3>1. k * k \in Nat \ {0}
      BY <2>1, <2>2, MulPositive
    <3>2. e * e \in Nat /\ n * n \in Nat /\ m * m \in Nat /\ u * u \in Nat
      BY MulCount
    <3> QED
      BY <3>1, <3>2
  <2>4. kk * (ee * mm) <= kk * (36 * q * nn)
    <3>1. kk * (ee * mm) <= (p * mm) * ee
      <4>1. ee * mm \in Nat
        OBVIOUS
      <4>2. kk * (ee * mm) <= p * (ee * mm)
        BY <2>1, <4>1, MulUp
      <4>3. p * (ee * mm) = (p * mm) * ee
        OBVIOUS
      <4> QED
        BY <4>2, <4>3
    <3>2. (p * mm) * ee <= (q * uu) * ee
      <4>1. p * mm \in Nat /\ q * uu \in Nat /\ p * mm <= q * uu
        BY <1>3
      <4> QED
        BY <4>1, MulUp
    <3>3. (q * uu) * ee = q * (uu * ee)
      OBVIOUS
    <3>4. q * (uu * ee) <= q * (36 * kk * nn)
      <4>1. uu * ee \in Nat /\ 36 * kk * nn \in Nat
        OBVIOUS
      <4> QED
        BY <2>3, <4>1, MulUp
    <3>5. q * (36 * kk * nn) = kk * (36 * q * nn)
      OBVIOUS
    <3>6. /\ kk * (ee * mm) \in Nat /\ (p * mm) * ee \in Nat /\ (q * uu) * ee \in Nat
          /\ q * (36 * kk * nn) \in Nat
      OBVIOUS
    <3> QED
      BY <3>1, <3>2, <3>3, <3>4, <3>5, <3>6
  <2>5. ee * mm <= 36 * q * nn
    <3>1. ee * mm \in Nat /\ 36 * q * nn \in Nat
      OBVIOUS
    <3> QED
      BY <2>4, <3>1, MulDown
  <2>6. e * e * m * m <= 36 * q * n * n
    <3>1. e * e * m * m = ee * mm /\ 36 * q * n * n = 36 * q * nn
      OBVIOUS
    <3> QED
      BY <2>5, <3>1
  <2>7. lp'["treasury"] # lp["treasury"]
    BY <1>6
  <2>8. e * e * m * m \in Nat /\ 36 * q * n * n \in Nat
    OBVIOUS
  <2> QED
    BY <1>4, <2>6, <2>7, <2>8 DEF WorthKept
<1> QED
  BY <1>5, <1>6

-----------------------------------------------------------------------------
(***************************************************************************)
(* The invariant.                                                          *)
(***************************************************************************)
LEMMA AmountsAre ==
  /\ \A f : f \in Amounts <=>
       f = [t \in Tokens |-> f[t]] /\ \A t \in Tokens : f[t] \in 0..Coins
  /\ \A f \in Amounts : \A t \in Tokens : f[t] \in Nat /\ f[t] <= Coins
  /\ Tokens = {0, 1}
BY FeeAssumption DEF Amounts, Tokens

LEMMA ProdPositive ==
  ASSUME NEW f \in Counts
  PROVE  Prod(f) > 0 <=> \A t \in Tokens : f[t] > 0
BY CountsAre, MulPositive DEF Prod, Tokens

LEMMA CallCounted ==
  ASSUME calls \in 0..MaxCalls, Counted PROVE calls' \in 0..MaxCalls
BY FeeAssumption DEF Counted

-----------------------------------------------------------------------------
(***************************************************************************)
(* The pool's steps.                                                       *)
(***************************************************************************)
LEMMA MintHolds ==
  ASSUME PoolInv, ~frame.open, NEW found \in Amounts,
         \A t \in Tokens : reserve[t] <= found[t],
         MintStep(found)
  PROVE  PoolInv' /\ WorthKept
<1>1. PoolTyped /\ Held(lp, totalSupply) /\ (totalSupply > 0 => Tradable)
  BY DEF PoolInv
<1>2. reserve \in Counts /\ found \in Counts /\ totalSupply \in Nat /\ kLast \in Nat
  BY <1>1, CountsAre DEF PoolTyped
<1> PICK fee : fee = FeeLiquidity
  OBVIOUS
<1>3. fee \in Nat /\ (totalSupply = 0 => fee = 0)
  BY <1>2, FeeFacts
<1> PICK supply : supply = totalSupply + fee
  OBVIOUS
<1> PICK added : added = Minus(found, reserve)
  OBVIOUS
<1>4. supply \in Nat /\ (supply = 0 <=> totalSupply = 0)
  BY <1>2, <1>3
<1>5. /\ added \in Counts
      /\ \A t \in Tokens : added[t] = found[t] - reserve[t] /\ added[t] \in Nat
  BY <1>2 DEF Minus, Counts
<1> DEFINE share == IF supply = 0 THEN Root(Prod(added)) - MinLiquidity
                    ELSE Least((added[0] * supply) \div reserve[0],
                               (added[1] * supply) \div reserve[1])
           kept == IF supply = 0 THEN MinLiquidity ELSE 0
<1> PICK liq : liq = share
  OBVIOUS
<1> PICK locked : locked = kept
  OBVIOUS
<1>6. /\ liq > 0 /\ Counted
      /\ lp' = [lp EXCEPT !["treasury"] = @ + fee, !["zero"] = @ + locked,
                          !["trader"] = @ + liq]
      /\ totalSupply' = supply + locked + liq
      /\ balance' = found /\ reserve' = found
      /\ kLast' = IF feeOn THEN Prod(found) ELSE 0
      /\ UNCHANGED <<feeOn, frame>>
  BY DEF MintStep, FirstLocked
<1>7. /\ liq \in Nat /\ locked \in Nat
      /\ supply = 0 => locked = MinLiquidity /\ \A t \in Tokens : added[t] > 0
      /\ supply > 0 => /\ locked = 0
                       /\ \A t \in Tokens : reserve[t] > 0
                       /\ \A t \in Tokens : reserve[t] * liq <= added[t] * supply
  <2>1. CASE supply = 0
    <3>1. Root(Prod(added)) \in Nat /\ (Root(Prod(added)) > 0 => Prod(added) > 0)
      BY <1>5, ProdCounts, RootFacts
    <3>2. liq = Root(Prod(added)) - MinLiquidity /\ locked = MinLiquidity
      BY <2>1
    <3>3. liq \in Nat /\ locked \in Nat /\ Prod(added) > 0
      BY <1>6, <3>1, <3>2, FeeAssumption
    <3> QED
      BY <1>5, <2>1, <3>2, <3>3, ProdPositive
  <2>2. CASE supply # 0
    <3>1. \A t \in Tokens : reserve[t] \in Nat \ {0} /\ added[t] * supply \in Nat
      BY <1>1, <1>2, <1>4, <1>5, <2>2, MulCount DEF Tradable, Counts
    <3> PICK v \in Nat, w \in Nat : /\ v = (added[0] * supply) \div reserve[0]
                                    /\ w = (added[1] * supply) \div reserve[1]
      BY <3>1, DivFloor DEF Tokens
    <3>2. reserve[0] * v <= added[0] * supply /\ reserve[1] * w <= added[1] * supply
      BY <3>1, DivFloor DEF Tokens
    <3>3. liq = Least(v, w) /\ locked = 0
      BY <2>2
    <3>4. liq \in Nat /\ liq <= v /\ liq <= w
      BY <3>3 DEF Least
    <3>5. reserve[0] * liq <= reserve[0] * v /\ reserve[1] * liq <= reserve[1] * w
      BY <3>1, <3>4, MulUp DEF Tokens
    <3>6. /\ reserve[0] * v \in Nat /\ reserve[1] * w \in Nat
          /\ reserve[0] * liq \in Nat /\ reserve[1] * liq \in Nat
          /\ added[0] * supply \in Nat /\ added[1] * supply \in Nat
      BY <3>1, <3>4, MulCount DEF Tokens
    <3>7. /\ reserve[0] * liq <= added[0] * supply
          /\ reserve[1] * liq <= added[1] * supply
      BY <3>2, <3>5, <3>6
    <3> QED
      BY <1>4, <2>2, <3>1, <3>3, <3>4, <3>7 DEF Tokens
  <2> QED
    BY <2>1, <2>2
<1> HIDE DEF share, kept
<1>8. \A t \in Tokens : found[t] > 0
  <2>1. \A t \in Tokens : found[t] \in Nat /\ reserve[t] \in Nat
    BY <1>2 DEF Counts
  <2> QED
    BY <1>4, <1>5, <1>7, <2>1
<1>9. /\ lp' \in Shares
      /\ lp'["treasury"] = lp["treasury"] + fee /\ lp'["zero"] = lp["zero"] + locked
      /\ lp'["trader"] = lp["trader"] + liq /\ lp'["pool"] = lp["pool"]
  BY <1>1, <1>3, <1>6, <1>7 DEF PoolTyped, Shares, Accounts
<1>10. totalSupply' \in Nat /\ kLast' \in Nat /\ calls' \in 0..MaxCalls
  BY <1>1, <1>2, <1>4, <1>6, <1>7, CallCounted, ProdCounts DEF PoolTyped
<1>11. PoolTyped'
  BY <1>1, <1>6, <1>9, <1>10 DEF PoolTyped
<1>12. Held(lp', totalSupply')
  <2>1. /\ lp["trader"] \in Nat /\ lp["pool"] \in Nat /\ lp["zero"] \in Nat
        /\ lp["treasury"] \in Nat
    BY <1>1 DEF PoolTyped, Shares, Accounts
  <2>2. lp'["zero"] >= MinLiquidity
    BY <1>1, <1>4, <1>7, <1>9, <2>1, FeeAssumption DEF Held
  <2> QED
    BY <1>1, <1>2, <1>3, <1>6, <1>7, <1>9, <2>1, <2>2 DEF Held
<1>13. PoolInv'
  <2>1. FrameOK'
    BY <1>2, <1>6 DEF FrameOK, Counts
  <2>2. Tradable'
    BY <1>6, <1>8 DEF Tradable
  <2> QED
    BY <1>11, <1>12, <2>1, <2>2 DEF PoolInv
<1>14. WorthKept
  <2>1. CASE totalSupply = 0
    BY <2>1 DEF WorthKept
  <2>2. CASE totalSupply # 0
    <3>1. \A t \in Tokens :
            reserve[t] * totalSupply' <= reserve'[t] * (totalSupply + FeeLiquidity)
      <4> SUFFICES ASSUME NEW t \in Tokens
                   PROVE  reserve[t] * (supply + liq) <= found[t] * supply
        BY <1>4, <1>6, <1>7, <2>2
      <4> PICK r \in Nat, a \in Nat : r = reserve[t] /\ a = added[t]
        BY <1>2, <1>5 DEF Counts
      <4>1. found[t] = r + a
        BY <1>2, <1>5 DEF Counts
      <4>2. r * (supply + liq) = r * supply + r * liq
        BY <1>4, <1>7
      <4>3. (r + a) * supply = r * supply + a * supply
        BY <1>4
      <4>4. r * liq <= a * supply
        BY <1>4, <1>7, <2>2
      <4>5. r * supply \in Nat /\ r * liq \in Nat /\ a * supply \in Nat
        BY <1>4, <1>7, MulCount
      <4> QED
        BY <4>1, <4>2, <4>3, <4>4, <4>5
    <3>2. reserve' \in Counts /\ lp["treasury"] \in Nat
      BY <1>1, <1>2, <1>6 DEF PoolTyped, Shares, Accounts
    <3> QED
      BY <1>2, <1>9, <1>10, <2>2, <3>1, <3>2, SharesInProportion
  <2> QED
    BY <2>1, <2>2
<1> QED
  BY <1>13, <1>14

LEMMA BurnHolds ==
  ASSUME PoolInv, ~frame.open, NEW held \in Shares, Held(held, totalSupply),
         held["treasury"] = lp["treasury"], BurnStep(held)
  PROVE  PoolInv' /\ WorthKept
<1>1. PoolTyped /\ (totalSupply > 0 => Tradable)
  BY DEF PoolInv
<1>2. /\ reserve \in Counts /\ balance \in Counts /\ totalSupply \in Nat /\ kLast \in Nat
      /\ \A t \in Tokens : reserve[t] <= balance[t]
  BY <1>1, CountsAre DEF PoolTyped, PoolInv, FrameOK
<1> PICK fee : fee = FeeLiquidity
  OBVIOUS
<1>3. fee \in Nat /\ (totalSupply = 0 => fee = 0)
  BY <1>2, FeeFacts
<1> PICK supply : supply = totalSupply + fee
  OBVIOUS
<1> PICK liq : liq = held["pool"]
  OBVIOUS
<1> PICK paid : paid = [t \in Tokens |-> (liq * balance[t]) \div supply]
  OBVIOUS
<1> PICK left : left = Minus(balance, paid)
  OBVIOUS
<1>4. /\ Counted /\ supply > 0
      /\ lp' = [held EXCEPT !["treasury"] = @ + fee, !["pool"] = 0]
      /\ totalSupply' = supply - liq
      /\ balance' = left /\ reserve' = left
      /\ kLast' = IF feeOn THEN Prod(left) ELSE 0
      /\ UNCHANGED <<feeOn, frame>>
  BY DEF BurnStep
<1>5. totalSupply > 0 /\ supply \in Nat \ {0}
  BY <1>2, <1>3, <1>4
<1>6. /\ held["trader"] \in Nat /\ held["pool"] \in Nat /\ held["zero"] \in Nat
      /\ held["treasury"] \in Nat
  BY DEF Shares, Accounts
<1>7. liq \in Nat /\ liq < supply
  BY <1>2, <1>3, <1>5, <1>6, FeeAssumption DEF Held
<1>8. ASSUME NEW t \in Tokens
      PROVE  /\ left[t] \in 1..Coins
             /\ reserve[t] * (supply - liq) <= left[t] * supply
  <2> PICK b \in Nat, r \in Nat : b = balance[t] /\ r = reserve[t]
    BY <1>2 DEF Counts
  <2>1. 0 < r /\ r <= b /\ b <= Coins
    BY <1>1, <1>2, <1>5, AmountsAre DEF Tradable, PoolTyped
  <2>2. liq * b \in Nat
    BY <1>7, MulCount
  <2> PICK p : p = paid[t]
    OBVIOUS
  <2>3. p \in Nat /\ supply * p <= liq * b
    BY <1>5, <2>2, DivFloor
  <2>4. p < b
    <3>1. SUFFICES ASSUME b <= p PROVE FALSE
      BY <2>3
    <3>2. supply * b <= supply * p
      BY <1>5, <2>3, <3>1, MulUp
    <3>3. liq * b < supply * b
      BY <1>5, <1>7, <2>1
    <3>4. supply * b \in Nat /\ supply * p \in Nat
      BY <1>5, <2>3, MulCount
    <3> QED
      BY <2>2, <2>3, <3>2, <3>3, <3>4
  <2>5. left[t] = b - p
    BY DEF Minus
  <2>6. r * (supply - liq) <= (b - p) * supply
    <3> PICK n \in Nat : n = supply - liq
      BY <1>5, <1>7
    <3>1. r * n <= b * n
      BY <2>1, MulUp
    <3>2. b * n = b * supply - b * liq
      BY <1>5, <1>7
    <3>3. (b - p) * supply = b * supply - p * supply
      BY <1>5, <2>3
    <3>4. p * supply = supply * p /\ b * liq = liq * b
      BY <1>5, <1>7, <2>3
    <3>5. r * n \in Nat /\ b * n \in Nat /\ b * supply \in Nat /\ supply * p \in Nat
      BY <1>5, <2>3, MulCount
    <3> QED
      BY <2>2, <2>3, <3>1, <3>2, <3>3, <3>4, <3>5
  <2> QED
    BY <2>1, <2>3, <2>4, <2>5, <2>6, FeeAssumption
<1>9. left \in Amounts /\ left \in Counts
  <2>1. left = [t \in Tokens |-> left[t]]
    BY DEF Minus
  <2>2. \A t \in Tokens : left[t] \in 0..Coins
    BY <1>8, FeeAssumption
  <2> QED
    BY <2>1, <2>2, AmountsAre, CountsAre
<1>10. /\ lp' \in Shares
       /\ lp'["treasury"] = lp["treasury"] + fee /\ lp'["zero"] = held["zero"]
       /\ lp'["trader"] = held["trader"] /\ lp'["pool"] = 0
  BY <1>3, <1>4, <1>6 DEF Shares, Accounts
<1>11. totalSupply' \in Nat /\ kLast' \in Nat /\ calls' \in 0..MaxCalls
  BY <1>1, <1>4, <1>5, <1>7, <1>9, CallCounted, ProdCounts DEF PoolTyped
<1>12. PoolTyped'
  BY <1>1, <1>4, <1>9, <1>10, <1>11 DEF PoolTyped
<1>13. Held(lp', totalSupply')
  BY <1>2, <1>3, <1>4, <1>5, <1>6, <1>10 DEF Held
<1>14. PoolInv'
  <2>1. FrameOK'
    BY <1>4, <1>9 DEF FrameOK, Counts
  <2>2. Tradable'
    BY <1>4, <1>8 DEF Tradable
  <2> QED
    BY <1>12, <1>13, <2>1, <2>2 DEF PoolInv
<1>15. WorthKept
  <2>1. \A t \in Tokens :
          reserve[t] * totalSupply' <= reserve'[t] * (totalSupply + FeeLiquidity)
    BY <1>4, <1>8
  <2>2. lp["treasury"] \in Nat
    BY <1>1 DEF PoolTyped, Shares, Accounts
  <2> QED
    BY <1>2, <1>4, <1>5, <1>9, <1>10, <1>11, <2>1, <2>2, SharesInProportion
<1> QED
  BY <1>14, <1>15

\* A step that leaves the shares alone but for whose they are.
LEMMA SharesStay ==
  ASSUME PoolInv, PoolTyped', totalSupply' = totalSupply, Held(lp', totalSupply),
         lp'["treasury"] = lp["treasury"], FrameOK',
         Prod(reserve) <= Prod(reserve')
  PROVE  PoolInv' /\ WorthKept
<1>1. reserve \in Counts /\ reserve' \in Counts /\ totalSupply \in Nat
  BY CountsAre DEF PoolInv, PoolTyped
<1>2. totalSupply > 0 => Prod(reserve) > 0
  BY <1>1, ProdPositive DEF PoolInv, Tradable
<1>3. totalSupply' > 0 => Tradable'
  <2>1. totalSupply > 0 => Prod(reserve') > 0
    BY <1>1, <1>2, ProdCounts
  <2> QED
    BY <1>1, <2>1, ProdPositive DEF Tradable
<1>4. WorthKept
  BY <1>1, SameShares
<1> QED
  BY <1>3, <1>4 DEF PoolInv

\* What swap may send lies in the pool.
LEMMA SentTypes ==
  ASSUME PoolInv, ~frame.open, NEW out \in Counts, \A t \in Tokens : out[t] < reserve[t]
  PROVE  Minus(balance, out) \in Amounts
<1>1. balance \in Amounts /\ reserve \in Counts
  BY CountsAre DEF PoolInv, PoolTyped
<1>2. ASSUME NEW t \in Tokens PROVE balance[t] - out[t] \in 0..Coins
  <2>1. /\ balance[t] \in Nat /\ balance[t] <= Coins /\ reserve[t] <= balance[t]
        /\ out[t] \in Nat /\ reserve[t] \in Nat /\ out[t] < reserve[t]
    BY <1>1, AmountsAre DEF PoolInv, FrameOK, Counts
  <2> QED
    BY <2>1, FeeAssumption
<1> QED
  BY <1>2 DEF Minus, Amounts

LEMMA AskedAre == \A out \in Asked : out \in Amounts /\ out \in Counts
<1>1. ASSUME NEW out \in Asked, NEW t \in Tokens PROVE out[t] \in 0..Coins
  <2>1. out[t] \in Sizes \cup {0}
    BY DEF Asked
  <2>2. \A x \in Sizes : x \in 0..Coins
    BY FeeAssumption
  <2>3. 0 \in 0..Coins
    BY FeeAssumption
  <2> QED
    BY <2>1, <2>2, <2>3
<1> QED
  BY <1>1, CountsAre DEF Asked, Amounts

LEMMA SwapBeginHolds ==
  ASSUME PoolInv, NEW out \in Asked, NEW toPool \in BOOLEAN, SwapBegin(out, toPool)
  PROVE  PoolInv' /\ WorthKept
<1>1. PoolTyped /\ Held(lp, totalSupply)
  BY DEF PoolInv
<1>2. /\ ~frame.open /\ Counted /\ \A t \in Tokens : out[t] < reserve[t]
      /\ frame' = [open |-> TRUE, out |-> out, reserve |-> reserve,
                   balance |-> balance, lp |-> lp]
      /\ balance' = IF toPool THEN balance ELSE Minus(balance, out)
      /\ UNCHANGED <<reserve, lp, totalSupply, kLast, feeOn>>
  BY DEF SwapBegin, Unlocked, CanSend
<1>3. balance' \in Amounts /\ out \in Amounts
  BY <1>1, <1>2, AskedAre, SentTypes DEF PoolTyped
<1>4. frame' \in Frames
  BY <1>1, <1>2, <1>3 DEF Frames, PoolTyped
<1>5. PoolTyped'
  BY <1>1, <1>2, <1>3, <1>4, CallCounted DEF PoolTyped
<1>6. FrameOK'
  BY <1>1, <1>2 DEF PoolInv, FrameOK
<1>7. Prod(reserve) <= Prod(reserve')
  BY <1>1, <1>2, ProdCounts, CountsAre DEF PoolTyped
<1> QED
  BY <1>1, <1>2, <1>5, <1>6, <1>7, SharesStay

LEMMA SwapEndHolds == ASSUME PoolInv, SwapEnd PROVE PoolInv' /\ WorthKept
<1>1. PoolTyped /\ Held(lp, totalSupply)
  BY DEF PoolInv
<1>2. /\ frame.open /\ Settles(balance, frame.reserve, frame.out)
      /\ reserve' = balance /\ frame' = NoFrame
      /\ UNCHANGED <<balance, lp, totalSupply, kLast, feeOn, calls>>
  BY DEF SwapEnd
<1>3. frame \in Frames
  BY <1>1, <1>2 DEF PoolTyped, NoFrame
<1>4. frame.reserve = reserve /\ \A t \in Tokens : frame.out[t] < reserve[t]
  BY <1>2 DEF PoolInv, FrameOK
<1>5. balance \in Counts /\ reserve \in Counts /\ frame.out \in Counts
  BY <1>1, <1>3, CountsAre DEF PoolTyped, Frames
<1>6. Prod(reserve) <= Prod(balance)
  <2>1. \A t \in Tokens : frame.out[t] <= reserve[t]
    BY <1>4, <1>5 DEF Counts
  <2> QED
    BY <1>2, <1>4, <1>5, <2>1, SettlesKeepsProduct
<1>7. PoolTyped'
  BY <1>1, <1>2 DEF PoolTyped
<1>8. FrameOK'
  BY <1>2, <1>5 DEF FrameOK, NoFrame, Counts
<1> QED
  BY <1>1, <1>2, <1>6, <1>7, <1>8, SharesStay

LEMMA SwapRevertHolds == ASSUME PoolInv, SwapRevert PROVE PoolInv' /\ WorthKept
<1>1. PoolTyped
  BY DEF PoolInv
<1>2. /\ frame.open /\ balance' = frame.balance /\ lp' = frame.lp /\ frame' = NoFrame
      /\ UNCHANGED <<reserve, totalSupply, kLast, feeOn, calls>>
  BY DEF SwapRevert
<1>3. frame \in Frames
  BY <1>1, <1>2 DEF PoolTyped, NoFrame
<1>4. /\ \A t \in Tokens : reserve[t] <= frame.balance[t]
      /\ Held(frame.lp, totalSupply) /\ frame.lp["treasury"] = lp["treasury"]
  BY <1>2 DEF PoolInv, FrameOK
<1>5. PoolTyped'
  BY <1>1, <1>2, <1>3 DEF PoolTyped, Frames
<1>6. FrameOK'
  BY <1>2, <1>4 DEF FrameOK, NoFrame
<1>7. Prod(reserve) <= Prod(reserve')
  BY <1>1, <1>2, ProdCounts, CountsAre DEF PoolTyped
<1> QED
  BY <1>2, <1>4, <1>5, <1>6, <1>7, SharesStay

LEMMA SkimHolds == ASSUME PoolInv, Skim PROVE PoolInv' /\ WorthKept
<1>1. PoolTyped /\ Held(lp, totalSupply) /\ reserve \in Counts
  BY CountsAre DEF PoolInv, PoolTyped
<1>2. /\ ~frame.open /\ Counted /\ balance' = reserve
      /\ UNCHANGED <<reserve, lp, totalSupply, kLast, feeOn, frame>>
  BY DEF Skim, Unlocked
<1>3. PoolTyped'
  BY <1>1, <1>2, CallCounted DEF PoolTyped
<1>4. FrameOK'
  BY <1>1, <1>2 DEF FrameOK, Counts
<1>5. Prod(reserve) <= Prod(reserve')
  BY <1>1, <1>2, ProdCounts
<1> QED
  BY <1>1, <1>2, <1>3, <1>4, <1>5, SharesStay

LEMMA SyncHolds == ASSUME PoolInv, Sync PROVE PoolInv' /\ WorthKept
<1>1. PoolTyped /\ Held(lp, totalSupply) /\ reserve \in Counts /\ balance \in Counts
  BY CountsAre DEF PoolInv, PoolTyped
<1>2. /\ ~frame.open /\ Counted /\ reserve' = balance
      /\ UNCHANGED <<balance, lp, totalSupply, kLast, feeOn, frame>>
  BY DEF Sync, Unlocked
<1>3. PoolTyped'
  BY <1>1, <1>2, CallCounted DEF PoolTyped
<1>4. FrameOK'
  BY <1>1, <1>2 DEF FrameOK, Counts
<1>5. Prod(reserve) <= Prod(balance)
  <2>1. \A t \in Tokens : reserve[t] <= balance[t]
    BY <1>2 DEF PoolInv, FrameOK
  <2> QED
    BY <1>1, <2>1, CountsAre, MulUp DEF Prod, Tokens
<1> QED
  BY <1>1, <1>2, <1>3, <1>4, <1>5, SharesStay

LEMMA PayHolds ==
  ASSUME PoolInv, NEW t \in Tokens, NEW x \in Sizes, Pay(t, x)
  PROVE  PoolInv' /\ WorthKept
<1>1. PoolTyped /\ Held(lp, totalSupply) /\ reserve \in Counts
  BY CountsAre DEF PoolInv, PoolTyped
<1>2. /\ x <= Coins - balance[t] /\ Counted
      /\ balance' = [balance EXCEPT ![t] = @ + x]
      /\ UNCHANGED <<reserve, lp, totalSupply, kLast, feeOn, frame>>
  BY DEF Pay
<1>3. x \in Nat /\ \A u \in Tokens : balance[u] \in Nat /\ balance[u] <= Coins
  BY <1>1, AmountsAre, FeeAssumption DEF PoolTyped
<1>4. /\ balance' \in Amounts
      /\ \A u \in Tokens : balance[u] <= balance'[u]
  BY <1>1, <1>2, <1>3, FeeAssumption DEF PoolTyped, Amounts
<1>5. PoolTyped'
  BY <1>1, <1>2, <1>4, CallCounted DEF PoolTyped
<1>6. FrameOK'
  <2>1. CASE frame.open
    BY <1>2, <2>1 DEF PoolInv, FrameOK
  <2>2. CASE ~frame.open
    <3>1. ASSUME NEW u \in Tokens PROVE reserve[u] <= balance'[u]
      <4>1. /\ reserve[u] \in Nat /\ balance[u] \in Nat /\ balance'[u] \in Nat
            /\ reserve[u] <= balance[u] /\ balance[u] <= balance'[u]
        BY <1>1, <1>3, <1>4, <2>2, AmountsAre DEF PoolInv, FrameOK, Counts
      <4> QED
        BY <4>1
    <3> QED
      BY <1>2, <2>2, <3>1 DEF FrameOK
  <2> QED
    BY <2>1, <2>2
<1>7. Prod(reserve) <= Prod(reserve')
  BY <1>1, <1>2, ProdCounts
<1> QED
  BY <1>1, <1>2, <1>5, <1>6, <1>7, SharesStay

\* Shares the trader sends to the pool.
LEMMA SharesSent ==
  ASSUME lp \in Shares, NEW supply, Held(lp, supply), NEW x \in ShareSizes, x <= lp["trader"]
  PROVE  LET held == [lp EXCEPT !["trader"] = @ - x, !["pool"] = @ + x]
         IN  held \in Shares /\ Held(held, supply) /\ held["treasury"] = lp["treasury"]
<1>1. /\ lp["trader"] \in Nat /\ lp["pool"] \in Nat /\ lp["zero"] \in Nat
      /\ lp["treasury"] \in Nat /\ x \in Nat
  BY DEF Shares, Accounts, ShareSizes
<1>2. PICK held : held = [lp EXCEPT !["trader"] = @ - x, !["pool"] = @ + x]
  OBVIOUS
<1>3. /\ held \in Shares
      /\ held["trader"] = lp["trader"] - x /\ held["pool"] = lp["pool"] + x
      /\ held["zero"] = lp["zero"] /\ held["treasury"] = lp["treasury"]
  BY <1>1, <1>2 DEF Shares, Accounts
<1> QED
  BY <1>1, <1>2, <1>3 DEF Held

LEMMA SendSharesHolds ==
  ASSUME PoolInv, NEW x \in ShareSizes, SendShares(x)
  PROVE  PoolInv' /\ WorthKept
<1>1. PoolTyped /\ Held(lp, totalSupply) /\ reserve \in Counts
  BY CountsAre DEF PoolInv, PoolTyped
<1>2. /\ x <= lp["trader"] /\ Counted
      /\ lp' = [lp EXCEPT !["trader"] = @ - x, !["pool"] = @ + x]
      /\ UNCHANGED <<balance, reserve, totalSupply, kLast, feeOn, frame>>
  BY DEF SendShares
<1>3. lp' \in Shares /\ Held(lp', totalSupply) /\ lp'["treasury"] = lp["treasury"]
  BY <1>1, <1>2, SharesSent DEF PoolTyped
<1>4. PoolTyped'
  BY <1>1, <1>2, <1>3, CallCounted DEF PoolTyped
<1>5. FrameOK'
  BY <1>2, <1>3 DEF PoolInv, FrameOK
<1>6. Prod(reserve) <= Prod(reserve')
  BY <1>1, <1>2, ProdCounts
<1> QED
  BY <1>1, <1>2, <1>3, <1>4, <1>5, <1>6, SharesStay

LEMMA SetTreasuryHolds == ASSUME PoolInv, SetTreasury PROVE PoolInv' /\ WorthKept
<1>1. PoolTyped /\ Held(lp, totalSupply) /\ reserve \in Counts
  BY CountsAre DEF PoolInv, PoolTyped
<1>2. /\ Counted /\ feeOn' = ~feeOn
      /\ UNCHANGED <<balance, reserve, lp, totalSupply, kLast, frame>>
  BY DEF SetTreasury
<1>3. PoolTyped'
  BY <1>1, <1>2, CallCounted DEF PoolTyped
<1>4. FrameOK'
  BY <1>2 DEF PoolInv, FrameOK
<1>5. Prod(reserve) <= Prod(reserve')
  BY <1>1, <1>2, ProdCounts
<1> QED
  BY <1>1, <1>2, <1>3, <1>4, <1>5, SharesStay

-----------------------------------------------------------------------------
(***************************************************************************)
(* The routers' transactions.                                              *)
(***************************************************************************)
LEMMA AddAmountsTypes ==
  ASSUME reserve \in Counts, NEW wanted \in Asked, reserve = Zero \/ Tradable
  PROVE  AddAmounts(wanted) \in Counts
<1>1. wanted \in Counts /\ wanted[0] \in Nat /\ wanted[1] \in Nat
  BY AskedAre, CountsAre
<1>2. CASE reserve = Zero
  BY <1>1, <1>2 DEF AddAmounts
<1>3. CASE reserve # Zero
  <2>1. ASSUME NEW t \in Tokens, NEW x \in Nat PROVE Quote(x, t) \in Nat
    <3>1. reserve[t] \in Nat \ {0} /\ reserve[1 - t] \in Nat
      BY <1>3 DEF Tradable, Counts, Tokens
    <3>2. x * reserve[1 - t] \in Nat
      BY <3>1, MulCount
    <3> QED
      BY <3>1, <3>2, DivFloor DEF Quote
  <2> PICK v \in Nat, w \in Nat : v = Quote(wanted[0], 0) /\ w = Quote(wanted[1], 1)
    BY <1>1, <2>1 DEF Tokens
  <2> QED
    BY <1>1, <1>3 DEF AddAmounts, Counts, Tokens
<1> QED
  BY <1>2, <1>3

LEMMA AddLiquidityHolds ==
  ASSUME PoolInv, NEW wanted \in Asked, AddLiquidity(wanted)
  PROVE  PoolInv' /\ WorthKept
<1> PICK found : found = Plus(balance, AddAmounts(wanted))
  OBVIOUS
<1>1. ~frame.open /\ (reserve = Zero \/ Tradable) /\ found \in Amounts /\ MintStep(found)
  BY DEF AddLiquidity, Unlocked
<1>2. reserve \in Counts /\ balance \in Counts
  BY CountsAre DEF PoolInv, PoolTyped
<1>3. AddAmounts(wanted) \in Counts
  BY <1>1, <1>2, AddAmountsTypes
<1>4. ASSUME NEW t \in Tokens PROVE reserve[t] <= found[t]
  <2>1. /\ reserve[t] \in Nat /\ balance[t] \in Nat /\ AddAmounts(wanted)[t] \in Nat
        /\ reserve[t] <= balance[t]
    BY <1>1, <1>2, <1>3 DEF Counts, PoolInv, FrameOK
  <2>2. found[t] = balance[t] + AddAmounts(wanted)[t]
    BY DEF Plus
  <2> QED
    BY <2>1, <2>2
<1> QED
  BY <1>1, <1>4, MintHolds

LEMMA RemoveLiquidityHolds ==
  ASSUME PoolInv, NEW x \in ShareSizes, RemoveLiquidity(x)
  PROVE  PoolInv' /\ WorthKept
<1> PICK held : held = [lp EXCEPT !["trader"] = @ - x, !["pool"] = @ + x]
  OBVIOUS
<1>1. ~frame.open /\ x <= lp["trader"] /\ BurnStep(held)
  BY DEF RemoveLiquidity, Unlocked
<1>2. held \in Shares /\ Held(held, totalSupply) /\ held["treasury"] = lp["treasury"]
  BY <1>1, SharesSent DEF PoolInv, PoolTyped
<1> QED
  BY <1>1, <1>2, BurnHolds

LEMMA HopHolds ==
  ASSUME PoolInv, NEW t \in Tokens, NEW x \in Nat, NEW y \in Nat, Hop(t, x, y)
  PROVE  PoolInv' /\ WorthKept
<1> PICK out : out = OnlyOn(1 - t, y)
  OBVIOUS
<1> PICK found : found = Minus(Plus(balance, OnlyOn(t, x)), out)
  OBVIOUS
<1>1. /\ ~frame.open /\ Counted /\ x <= Coins - balance[t]
      /\ CanSend(out) /\ Settles(found, reserve, out)
      /\ balance' = found /\ reserve' = found
      /\ UNCHANGED <<lp, totalSupply, kLast, feeOn, frame>>
  BY DEF Hop, Unlocked
<1>2. PoolTyped /\ Held(lp, totalSupply) /\ reserve \in Counts /\ balance \in Counts
  BY CountsAre DEF PoolInv, PoolTyped
<1>3. out \in Counts
  BY DEF OnlyOn, Counts
<1>4. \A u \in Tokens : out[u] < reserve[u] /\ out[u] <= reserve[u]
  BY <1>1, <1>2, <1>3 DEF CanSend, Counts
<1>5. ASSUME NEW u \in Tokens PROVE found[u] \in 0..Coins
  <2>1. /\ balance[u] \in Nat /\ balance[u] <= Coins /\ balance[t] \in Nat
        /\ reserve[u] \in Nat /\ reserve[u] <= balance[u]
        /\ out[u] \in Nat /\ out[u] < reserve[u]
    BY <1>1, <1>2, <1>3, <1>4, AmountsAre DEF Counts, PoolInv, FrameOK, PoolTyped
  <2>2. found[u] = (IF u = t THEN balance[u] + x ELSE balance[u] + 0) - out[u]
    BY DEF Minus, Plus, OnlyOn
  <2> QED
    BY <1>1, <2>1, <2>2, FeeAssumption
<1>6. found \in Amounts /\ found \in Counts
  <2>1. found = [u \in Tokens |-> found[u]]
    BY DEF Minus
  <2> QED
    BY <1>5, <2>1, AmountsAre, CountsAre
<1>7. Prod(reserve) <= Prod(found)
  BY <1>1, <1>2, <1>3, <1>4, <1>6, SettlesKeepsProduct
<1>8. PoolTyped'
  BY <1>1, <1>2, <1>6, CallCounted DEF PoolTyped
<1>9. FrameOK'
  BY <1>1, <1>6 DEF FrameOK, Counts
<1> QED
  BY <1>1, <1>2, <1>7, <1>8, <1>9, SharesStay

LEMMA SwapExactHolds ==
  ASSUME PoolInv, NEW t \in Tokens, NEW x \in Sizes, SwapExactIn(t, x) \/ SwapExactOut(t, x)
  PROVE  PoolInv' /\ WorthKept
<1>1. reserve \in Counts /\ x \in Nat \ {0} /\ 1 - t \in Tokens
  BY CountsAre, FeeAssumption DEF PoolInv, PoolTyped, Tokens
<1>2. CASE SwapExactIn(t, x)
  <2>1. GetAmountOut(x, t) \in Nat
    BY <1>1, <1>2, AmountOut DEF SwapExactIn, Tradable
  <2> QED
    BY <1>1, <1>2, <2>1, HopHolds DEF SwapExactIn
<1>3. CASE SwapExactOut(t, x)
  <2>1. GetAmountIn(x, t) \in Nat
    BY <1>1, <1>3, AmountIn DEF SwapExactOut
  <2> QED
    BY <1>1, <1>3, <2>1, HopHolds DEF SwapExactOut
<1> QED
  BY <1>2, <1>3

-----------------------------------------------------------------------------
(***************************************************************************)
(* The theorems.                                                           *)
(***************************************************************************)
LEMMA PoolInvInit == Init => PoolInv
<1> SUFFICES ASSUME Init PROVE PoolInv
  OBVIOUS
<1>1. Zero \in Amounts
  BY FeeAssumption DEF Zero, Amounts
<1>2. PoolTyped
  BY <1>1, FeeAssumption DEF Init, PoolTyped, Shares
<1>3. Held(lp, totalSupply)
  BY DEF Init, Held, Accounts
<1>4. FrameOK
  BY DEF Init, FrameOK, NoFrame, Zero
<1> QED
  BY <1>2, <1>3, <1>4 DEF Init, PoolInv

LEMMA PoolSteps == ASSUME PoolInv, Next PROVE PoolInv' /\ WorthKept
<1>1. PoolTyped /\ Held(lp, totalSupply)
  BY DEF PoolInv
<1>2. CASE Mint
  <2>1. ~frame.open /\ MintStep(balance)
    BY <1>2 DEF Mint, Unlocked
  <2>2. balance \in Amounts /\ \A t \in Tokens : reserve[t] <= balance[t]
    BY <1>1, <2>1 DEF PoolTyped, PoolInv, FrameOK
  <2> QED
    BY <2>1, <2>2, MintHolds
<1>3. CASE Burn
  <2>1. ~frame.open /\ BurnStep(lp) /\ lp \in Shares
    BY <1>1, <1>3 DEF Burn, Unlocked, PoolTyped
  <2> QED
    BY <1>1, <2>1, BurnHolds
<1> QED
  BY <1>2, <1>3, SwapBeginHolds, SwapEndHolds, SwapRevertHolds, SkimHolds, SyncHolds,
     PayHolds, SendSharesHolds, SetTreasuryHolds, AddLiquidityHolds, RemoveLiquidityHolds,
     SwapExactHolds DEF Next

LEMMA PoolInvStays == PoolInv /\ UNCHANGED vars => PoolInv'
BY DEF PoolInv, PoolTyped, FrameOK, Tradable, Held, vars

LEMMA PoolInvHolds == Spec => []PoolInv
<1>1. PoolInv /\ [Next]_vars => PoolInv'
  BY PoolSteps, PoolInvStays
<1> QED
  BY <1>1, PoolInvInit, PTL DEF Spec

LEMMA InvImpliesBacked == PoolInv => Backed
<1> SUFFICES ASSUME PoolInv PROVE Backed
  OBVIOUS
<1>1. TypeOK
  BY DEF PoolInv, PoolTyped, TypeOK, Frames, Shares, NoFrame
<1>2. lp["zero"] \in Nat
  BY DEF PoolInv, PoolTyped, Shares, Accounts
<1> QED
  BY <1>1, <1>2 DEF Backed, PoolInv, Held, FrameOK

\* Between transactions the pool holds its reserves at least, and with shares
\* in the world neither reserve is ever empty again.
THEOREM PoolIsBacked == Spec => []Backed
BY PoolInvHolds, InvImpliesBacked, PTL

\* Whatever the routers quote, for any fee, reserves and amounts, the pool
\* takes: no rounding of a quote makes the pool's own check refuse it.
THEOREM QuotesAreAccepted == Spec => []QuoteAccepted
<1>1. PoolInv => QuoteAccepted
  <2> SUFFICES ASSUME PoolInv, ~frame.open, Tradable PROVE QuoteAccepted
    BY DEF QuoteAccepted
  <2>1. balance \in Counts /\ reserve \in Counts
    BY CountsAre DEF PoolInv, PoolTyped
  <2>2. \A t \in Tokens : reserve[t] <= balance[t]
    BY DEF PoolInv, FrameOK
  <2> QED
    BY <2>1, <2>2, QuotesPay DEF QuoteAccepted
<1> QED
  BY <1>1, PoolInvHolds, PTL

\* No transaction lowers what a share is worth, but for the protocol's sixth of
\* the growth.
THEOREM SharesKeepTheirValue == Spec => ShareValueKept
<1>1. PoolInv /\ [Next]_vars => [WorthKept]_vars
  BY PoolSteps
<1>2. Spec => [][WorthKept]_vars
  BY <1>1, PoolInvHolds, PTL DEF Spec
<1> QED
  BY <1>2 DEF ShareValueKept, WorthKept

-----------------------------------------------------------------------------
(***************************************************************************)
(* The concentrated-liquidity pool.  First what sums over positions are:   *)
(* a table of partial sums, over the subsets of a finite set.              *)
(***************************************************************************)
\* A collection of subsets of S that has the empty set and, with all that lack one of
\* its members, a set itself, has S.
LEMMA SubsetInduction ==
  ASSUME NEW S, IsFiniteSet(S), NEW C,
         {} \in C,
         \A T \in SUBSET S : T # {} /\ (\A x \in T : T \ {x} \in C) => T \in C
  PROVE  \A T \in SUBSET S : T \in C
<1> DEFINE N == {n \in Nat : \A T \in SUBSET S : Cardinality(T) = n => T \in C}
<1>0. \A T \in SUBSET S : IsFiniteSet(T) /\ Cardinality(T) \in Nat
  BY FS_Subset, FS_CardinalityType
<1>1. 0 \in N
  <2>1. ASSUME NEW T \in SUBSET S, Cardinality(T) = 0 PROVE T \in C
    BY <1>0, <2>1, FS_EmptySet
  <2> QED
    BY <2>1
<1>2. ASSUME NEW n \in Nat, n \in N PROVE n + 1 \in N
  <2>1. ASSUME NEW T \in SUBSET S, Cardinality(T) = n + 1 PROVE T \in C
    <3>1. T # {}
      BY <2>1, FS_EmptySet
    <3>2. ASSUME NEW x \in T PROVE T \ {x} \in C
      <4>1. Cardinality(T \ {x}) = n
        BY <1>0, <2>1, FS_RemoveElement
      <4> QED
        BY <1>2, <4>1
    <3> QED
      BY <3>1, <3>2
  <2> QED
    BY <2>1
<1> HIDE DEF N
<1>3. \A n \in Nat : n \in N
  BY <1>1, <1>2, Induction
<1> QED
  BY <1>0, <1>3 DEF N

\* Every function on a finite set of integers has its partial sums.
LEMMA SumsExist ==
  ASSUME NEW S, IsFiniteSet(S), NEW f \in [S -> Int]
  PROVE  \E s : SumsOver(s, f, S)
<1> DEFINE C == {T \in SUBSET S : \E s : SumsOver(s, f, T)}
<1>1. {} \in C
  <2>1. SumsOver([T \in SUBSET {} |-> 0], f, {})
    BY DEF SumsOver
  <2> QED
    BY <2>1
<1>2. ASSUME NEW T \in SUBSET S, T # {}, \A x \in T : T \ {x} \in C PROVE T \in C
  <2>1. PICK x \in T : TRUE
    BY <1>2
  <2>2. PICK s : SumsOver(s, f, T \ {x})
    BY <1>2, <2>1
  <2> DEFINE t == [U \in SUBSET T |-> IF x \in U THEN f[x] + s[U \ {x}] ELSE s[U]]
  <2>3. /\ f[x] \in Int
        /\ \A U \in SUBSET (T \ {x}) : s[U] \in Int
    BY <2>1, <2>2 DEF SumsOver
  <2>4. t \in [SUBSET T -> Int]
    <3>1. ASSUME NEW U \in SUBSET T PROVE t[U] \in Int
      <4>1. CASE x \in U
        <5>1. s[U \ {x}] \in Int
          BY <2>3
        <5> QED
          BY <2>3, <4>1, <5>1
      <4>2. CASE x \notin U
        <5>1. U \in SUBSET (T \ {x})
          BY <4>2
        <5> QED
          BY <2>3, <4>2, <5>1
      <4> QED
        BY <4>1, <4>2
    <3> QED
      BY <3>1
  <2>5. t[{}] = 0
    BY <2>2 DEF SumsOver
  <2>6. ASSUME NEW U \in SUBSET T, NEW y \in U PROVE t[U] = f[y] + t[U \ {y}]
    <3>0. f[y] \in Int /\ U \ {y} \in SUBSET T
      OBVIOUS
    <3>1. CASE y = x
      BY <3>1
    <3>2. CASE y # x /\ x \in U
      <4>1. U \ {x} \in SUBSET (T \ {x}) /\ y \in U \ {x}
        BY <3>2
      <4>2. s[U \ {x}] = f[y] + s[(U \ {x}) \ {y}]
        BY <2>2, <4>1 DEF SumsOver
      <4>3. (U \ {x}) \ {y} = (U \ {y}) \ {x} /\ (U \ {y}) \ {x} \in SUBSET (T \ {x})
        OBVIOUS
      <4>4. s[(U \ {y}) \ {x}] \in Int
        BY <2>3, <4>3
      <4>5. t[U] = f[x] + s[U \ {x}] /\ t[U \ {y}] = f[x] + s[(U \ {y}) \ {x}]
        BY <3>2
      <4>6. s[U \ {x}] = f[y] + s[(U \ {y}) \ {x}]
        BY <4>2, <4>3
      <4> HIDE DEF t
      <4> QED
        BY <2>3, <3>0, <4>4, <4>5, <4>6
    <3>3. CASE x \notin U
      <4>1. U \in SUBSET (T \ {x}) /\ x \notin U \ {y}
        BY <3>3
      <4>2. s[U] = f[y] + s[U \ {y}]
        BY <2>2, <4>1 DEF SumsOver
      <4> QED
        BY <3>3, <4>1, <4>2
    <3> QED
      BY <3>1, <3>2, <3>3
  <2>7. SumsOver(t, f, T)
    BY <2>4, <2>5, <2>6 DEF SumsOver
  <2> QED
    BY <2>7
<1> HIDE DEF C
<1>3. S \in C
  BY <1>1, <1>2, SubsetInduction
<1> QED
  BY <1>3 DEF C

\* SumFunction, from the recursive function of the library.
LEMMA SumDefined ==
  ASSUME NEW f
  PROVE  SumFunction(f) =
           (CHOOSE r : r = [T \in SUBSET DOMAIN f |->
              IF T = {} THEN 0
              ELSE LET x == CHOOSE x \in T : TRUE IN f[x] + r[T \ {x}]])[DOMAIN f]
BY DEF SumFunction, SumFunctionOnSet, FoldFunctionOnSet, MapThenFoldSet

\* What SumFunction adds up.
LEMMA SumIs ==
  ASSUME NEW S, IsFiniteSet(S), NEW f \in [S -> Int], NEW s, SumsOver(s, f, S)
  PROVE  SumFunction(f) = s[S]
<1> DEFINE Step(r) == [T \in SUBSET DOMAIN f |->
             IF T = {} THEN 0
             ELSE LET x == CHOOSE x \in T : TRUE IN f[x] + r[T \ {x}]]
           r == CHOOSE q : q = Step(q)
<1>0. DOMAIN f = S
  OBVIOUS
<1>1. s = Step(s)
  <2>1. s = [T \in SUBSET S |-> s[T]]
    BY DEF SumsOver
  <2>2. ASSUME NEW T \in SUBSET S
        PROVE  s[T] = IF T = {} THEN 0
                      ELSE f[CHOOSE x \in T : TRUE] + s[T \ {CHOOSE x \in T : TRUE}]
    <3>1. CASE T = {}
      BY <3>1 DEF SumsOver
    <3>2. CASE T # {}
      <4>1. (CHOOSE x \in T : TRUE) \in T
        BY <3>2
      <4> QED
        BY <3>2, <4>1 DEF SumsOver
    <3> QED
      BY <3>1, <3>2
  <2> QED
    BY <1>0, <2>1, <2>2
<1>2. r = Step(r)
  BY <1>1
<1>3. SumFunction(f) = r[S]
  <2>1. SumFunction(f) = r[DOMAIN f]
    BY SumDefined
  <2> QED
    BY <1>0, <2>1
<1>4. \A T \in SUBSET S : r[T] = IF T = {} THEN 0
                 ELSE f[CHOOSE x \in T : TRUE] + r[T \ {CHOOSE x \in T : TRUE}]
  <2> HIDE DEF r
  <2> QED
    BY <1>0, <1>2
<1> HIDE DEF r, Step
<1> DEFINE C == {T \in SUBSET S : r[T] = s[T]}
<1>5. {} \in C
  BY <1>4 DEF SumsOver
<1>6. ASSUME NEW T \in SUBSET S, T # {}, \A x \in T : T \ {x} \in C PROVE T \in C
  <2>1. PICK c : c = CHOOSE x \in T : TRUE
    OBVIOUS
  <2>2. c \in T
    BY <1>6, <2>1
  <2>3. r[T] = f[c] + r[T \ {c}]
    BY <1>4, <1>6, <2>1
  <2>4. s[T] = f[c] + s[T \ {c}]
    BY <2>2 DEF SumsOver
  <2> QED
    BY <1>6, <2>2, <2>3, <2>4
<1> HIDE DEF C
<1>7. S \in C
  BY <1>5, <1>6, SubsetInduction
<1> QED
  BY <1>3, <1>7 DEF C

\* A sum of integers is an integer.
LEMMA SumInt ==
  ASSUME NEW S, IsFiniteSet(S), NEW f \in [S -> Int]
  PROVE  SumFunction(f) \in Int
<1>1. PICK s : SumsOver(s, f, S)
  BY SumsExist
<1>2. SumFunction(f) = s[S]
  BY <1>1, SumIs
<1>3. s[S] \in Int
  BY <1>1 DEF SumsOver
<1> QED
  BY <1>2, <1>3

\* One member more adds its value.
LEMMA SumOfMore ==
  ASSUME NEW S, IsFiniteSet(S), NEW f \in [S -> Int], NEW x \in S,
         NEW g \in [S \ {x} -> Int], \A y \in S \ {x} : g[y] = f[y]
  PROVE  SumFunction(f) = SumFunction(g) + f[x]
<1>1. PICK s : SumsOver(s, f, S)
  BY SumsExist
<1> DEFINE t == [T \in SUBSET (S \ {x}) |-> s[T]]
<1>2. SumsOver(t, g, S \ {x})
  <2>1. t \in [SUBSET (S \ {x}) -> Int] /\ t[{}] = 0
    BY <1>1 DEF SumsOver
  <2>2. ASSUME NEW T \in SUBSET (S \ {x}), NEW y \in T PROVE t[T] = g[y] + t[T \ {y}]
    BY <1>1 DEF SumsOver
  <2> QED
    BY <2>1, <2>2 DEF SumsOver
<1>3. IsFiniteSet(S \ {x})
  BY FS_RemoveElement
<1>4. SumFunction(f) = s[S] /\ SumFunction(g) = t[S \ {x}]
  <2> HIDE DEF t
  <2> QED
    BY <1>1, <1>2, <1>3, SumIs
<1>5. s[S] = f[x] + s[S \ {x}] /\ s[S \ {x}] \in Int /\ f[x] \in Int
  BY <1>1 DEF SumsOver
<1> QED
  BY <1>4, <1>5

\* A change of one value changes the sum by as much.
LEMMA SumOfChanged ==
  ASSUME NEW S, IsFiniteSet(S), NEW f \in [S -> Int], NEW g \in [S -> Int], NEW x \in S,
         \A y \in S \ {x} : g[y] = f[y]
  PROVE  SumFunction(g) = SumFunction(f) - f[x] + g[x]
<1> DEFINE h == [y \in S \ {x} |-> f[y]]
<1>1. h \in [S \ {x} -> Int] /\ IsFiniteSet(S \ {x})
  BY FS_RemoveElement
<1>2. SumFunction(f) = SumFunction(h) + f[x] /\ SumFunction(g) = SumFunction(h) + g[x]
  BY <1>1, SumOfMore
<1>3. SumFunction(h) \in Int
  BY <1>1, SumInt
<1>4. f[x] \in Int /\ g[x] \in Int
  OBVIOUS
<1> HIDE DEF h
<1> QED
  BY <1>2, <1>3, <1>4

\* SumsOver are linear.
LEMMA SumOfLinear ==
  ASSUME NEW S, IsFiniteSet(S), NEW f \in [S -> Int], NEW g \in [S -> Int],
         NEW a \in Int, NEW b \in Int, NEW h \in [S -> Int],
         \A x \in S : h[x] = a * f[x] + b * g[x]
  PROVE  SumFunction(h) = a * SumFunction(f) + b * SumFunction(g)
<1>1. PICK s : SumsOver(s, f, S)
  BY SumsExist
<1>2. PICK t : SumsOver(t, g, S)
  BY SumsExist
<1> DEFINE u == [T \in SUBSET S |-> a * s[T] + b * t[T]]
<1>3. SumsOver(u, h, S)
  <2>1. u \in [SUBSET S -> Int]
    <3>1. ASSUME NEW T \in SUBSET S PROVE a * s[T] + b * t[T] \in Int
      <4>1. s[T] \in Int /\ t[T] \in Int
        BY <1>1, <1>2 DEF SumsOver
      <4> QED
        BY <4>1
    <3> QED
      BY <3>1
  <2>2. u[{}] = 0
    <3>1. s[{}] = 0 /\ t[{}] = 0
      BY <1>1, <1>2 DEF SumsOver
    <3> QED
      BY <3>1
  <2>3. ASSUME NEW T \in SUBSET S, NEW x \in T PROVE u[T] = h[x] + u[T \ {x}]
    <3>1. /\ s[T] = f[x] + s[T \ {x}] /\ s[T \ {x}] \in Int /\ f[x] \in Int
          /\ t[T] = g[x] + t[T \ {x}] /\ t[T \ {x}] \in Int /\ g[x] \in Int
      BY <1>1, <1>2 DEF SumsOver
    <3>2. h[x] = a * f[x] + b * g[x]
      OBVIOUS
    <3>3. \A v, w, p, q \in Int : a * (v + w) + b * (p + q) = (a * v + b * p) + (a * w + b * q)
      OBVIOUS
    <3>4. u[T] = a * (f[x] + s[T \ {x}]) + b * (g[x] + t[T \ {x}])
          /\ u[T \ {x}] = a * s[T \ {x}] + b * t[T \ {x}]
      BY <3>1
    <3> HIDE DEF u
    <3> QED
      BY <3>1, <3>2, <3>3, <3>4
  <2> QED
    BY <2>1, <2>2, <2>3 DEF SumsOver
<1> HIDE DEF u
<1>4. SumFunction(f) = s[S] /\ SumFunction(g) = t[S] /\ SumFunction(h) = u[S]
  BY <1>1, <1>2, <1>3, SumIs
<1> QED
  BY <1>4 DEF u

\* SumsOver are monotone.
LEMMA SumOfGreater ==
  ASSUME NEW S, IsFiniteSet(S), NEW f \in [S -> Int], NEW g \in [S -> Int],
         \A x \in S : f[x] <= g[x]
  PROVE  SumFunction(f) <= SumFunction(g)
<1>1. PICK s : SumsOver(s, f, S)
  BY SumsExist
<1>2. PICK t : SumsOver(t, g, S)
  BY SumsExist
<1> DEFINE C == {T \in SUBSET S : s[T] <= t[T]}
<1>3. {} \in C
  BY <1>1, <1>2 DEF SumsOver
<1>4. ASSUME NEW T \in SUBSET S, T # {}, \A x \in T : T \ {x} \in C PROVE T \in C
  <2>1. PICK x \in T : TRUE
    BY <1>4
  <2>2. /\ s[T] = f[x] + s[T \ {x}] /\ s[T \ {x}] \in Int /\ f[x] \in Int
        /\ t[T] = g[x] + t[T \ {x}] /\ t[T \ {x}] \in Int /\ g[x] \in Int
    BY <1>1, <1>2 DEF SumsOver
  <2>3. s[T \ {x}] <= t[T \ {x}] /\ f[x] <= g[x]
    BY <1>4
  <2> QED
    BY <2>2, <2>3
<1> HIDE DEF C
<1>5. S \in C
  BY <1>3, <1>4, SubsetInduction
<1>6. SumFunction(f) = s[S] /\ SumFunction(g) = t[S]
  BY <1>1, <1>2, SumIs
<1> QED
  BY <1>5, <1>6 DEF C

\* A sum of zeros is zero.
LEMMA SumOfZeros ==
  ASSUME NEW S, IsFiniteSet(S), NEW f \in [S -> Int], \A x \in S : f[x] = 0
  PROVE  SumFunction(f) = 0
<1>1. SumsOver([T \in SUBSET S |-> 0], f, S)
  BY DEF SumsOver
<1> QED
  BY <1>1, SumIs

\* A sum of naturals is one, and none of them exceeds it.
LEMMA SumNat ==
  ASSUME NEW S, IsFiniteSet(S), NEW f \in [S -> Nat]
  PROVE  SumFunction(f) \in Nat /\ \A x \in S : f[x] <= SumFunction(f)
<1>0. f \in [S -> Int]
  OBVIOUS
<1> DEFINE z == [x \in S |-> 0]
<1>1. z \in [S -> Int] /\ SumFunction(z) = 0 /\ SumFunction(f) \in Int
  BY <1>0, SumInt, SumOfZeros
<1>2. SumFunction(z) <= SumFunction(f)
  BY <1>0, SumOfGreater
<1>3. ASSUME NEW x \in S PROVE f[x] <= SumFunction(f)
  <2> DEFINE g == [f EXCEPT ![x] = 0]
  <2>1. g \in [S -> Int] /\ g[x] = 0 /\ \A y \in S \ {x} : g[y] = f[y]
    OBVIOUS
  <2>2. \A y \in S : z[y] <= g[y]
    OBVIOUS
  <2> HIDE DEF g, z
  <2>3. SumFunction(g) = SumFunction(f) - f[x] + g[x]
    BY <1>0, <2>1, SumOfChanged
  <2>4. SumFunction(z) <= SumFunction(g)
    BY <1>1, <2>1, <2>2, SumOfGreater
  <2>5. f[x] \in Int
    OBVIOUS
  <2> QED
    BY <1>1, <2>1, <2>3, <2>4, <2>5
<1> QED
  BY <1>1, <1>2, <1>3

-----------------------------------------------------------------------------
(***************************************************************************)
(* Its amounts.  Each is the nearest integer, on one side, to a fraction;  *)
(* what is proved of it is the inequality without fractions, and that no   *)
(* integer is nearer.                                                      *)
(***************************************************************************)
\* The unit of prices is positive.
LEMMA PriceScale == Q \in Nat \ {0}
BY V3Assumption

\* mulDiv and mulDivRoundingUp, as the greatest and the least of their kind.
LEMMA DivIs ==
  ASSUME NEW n \in Nat, NEW d \in Nat \ {0}
  PROVE  /\ Div(n, d, FALSE) \in Nat /\ d * Div(n, d, FALSE) <= n
         /\ \A m \in Nat : d * m <= n => m <= Div(n, d, FALSE)
<1> DEFINE q == n \div d
<1>1. q \in Nat /\ d * q <= n /\ n < d * q + d
  BY DivFloor
<1> HIDE DEF q
<1>2. ASSUME NEW m \in Nat, d * m <= n PROVE m <= q
  <2>1. SUFFICES ASSUME q + 1 <= m PROVE FALSE
    BY <1>1
  <2>2. d * (q + 1) <= d * m
    BY <1>1, <2>1, MulUp
  <2>3. d * (q + 1) = d * q + d /\ d * q \in Nat /\ d * m \in Nat
    BY <1>1
  <2> QED
    BY <1>1, <1>2, <2>2, <2>3
<1>3. Div(n, d, FALSE) = q
  BY DEF Div, q
<1> QED
  BY <1>1, <1>2, <1>3

\* mulDivRoundingUp is the least number whose multiple reaches the dividend.
LEMMA DivUpIs ==
  ASSUME NEW n \in Nat, NEW d \in Nat \ {0}
  PROVE  /\ DivUp(n, d) \in Nat /\ n <= d * DivUp(n, d)
         /\ \A m \in Nat : n <= d * m => DivUp(n, d) <= m
         /\ Div(n, d, TRUE) = DivUp(n, d)
<1> DEFINE q == (n + d - 1) \div d
<1>1. n + d - 1 \in Nat
  OBVIOUS
<1>2. q \in Nat /\ d * q <= n + d - 1 /\ n + d - 1 < d * q + d
  BY <1>1, DivFloor
<1>3. DivUp(n, d) = q /\ Div(n, d, TRUE) = q
  BY DEF DivUp, Div
<1> HIDE DEF q
<1>4. d * q \in Nat
  BY <1>2
<1>5. ASSUME NEW m \in Nat, n <= d * m PROVE q <= m
  <2>1. SUFFICES ASSUME m + 1 <= q PROVE FALSE
    BY <1>2
  <2>2. d * (m + 1) <= d * q
    BY <1>2, <2>1, MulUp
  <2>3. d * (m + 1) = d * m + d /\ d * m \in Nat
    OBVIOUS
  <2> QED
    BY <1>2, <1>4, <1>5, <2>2, <2>3
<1>6. n <= d * q
  BY <1>2, <1>4
<1>7. \A m \in Nat : n <= d * m => q <= m
  BY <1>5
<1> QED
  BY <1>2, <1>3, <1>6, <1>7, Zenon

\* The amounts between two prices, in the same way.
LEMMA Amount0UpIs ==
  ASSUME NEW a \in Nat \ {0}, NEW b \in Nat \ {0}, a <= b, NEW liq \in Nat
  PROVE  /\ Amount0(a, b, liq, TRUE) \in Nat
         /\ liq * Q * (b - a) <= b * (a * Amount0(a, b, liq, TRUE))
         /\ \A m \in Nat : liq * Q * (b - a) <= b * (a * m) => Amount0(a, b, liq, TRUE) <= m
<1>1. PICK n \in Nat : n = liq * Q * (b - a)
  <2>1. b - a \in Nat /\ liq * Q \in Nat
    BY PriceScale
  <2> QED
    BY <2>1
<1>2. PICK u \in Nat : /\ u = DivUp(n, b) /\ n <= b * u
                       /\ \A m \in Nat : n <= b * m => u <= m
  BY <1>1, DivUpIs
<1>3. PICK v \in Nat : /\ v = DivUp(u, a) /\ u <= a * v
                       /\ \A m \in Nat : u <= a * m => v <= m
  BY <1>2, DivUpIs
<1>4. Amount0(a, b, liq, TRUE) = v
  <2>1. Amount0(a, b, liq, TRUE) = DivUp(DivUp(liq * Q * (b - a), b), a)
    BY DEF Amount0, Div
  <2> QED
    BY <2>1, <1>1, <1>2, <1>3, Zenon
<1>5. b * u <= b * (a * v) /\ b * u \in Nat /\ b * (a * v) \in Nat
  <2>1. PICK w \in Nat : w = a * v
    OBVIOUS
  <2>2. u <= w
    BY <1>3, <2>1
  <2>3. b * u <= b * w /\ b * u \in Nat /\ b * w \in Nat
    BY <2>2
  <2> QED
    BY <2>1, <2>3
<1>6. n <= b * (a * v)
  BY <1>2, <1>5
<1>7. ASSUME NEW m \in Nat, n <= b * (a * m) PROVE v <= m
  <2>1. a * m \in Nat
    OBVIOUS
  <2> QED
    BY <1>2, <1>3, <1>7, <2>1
<1> QED
  BY <1>1, <1>3, <1>4, <1>6, <1>7, Zenon

\* getAmount0Delta rounded down: the greatest amount that the exact one covers.
LEMMA Amount0DownIs ==
  ASSUME NEW a \in Nat \ {0}, NEW b \in Nat \ {0}, a <= b, NEW liq \in Nat
  PROVE  /\ Amount0(a, b, liq, FALSE) \in Nat
         /\ b * (a * Amount0(a, b, liq, FALSE)) <= liq * Q * (b - a)
         /\ \A m \in Nat : b * (a * m) <= liq * Q * (b - a) => m <= Amount0(a, b, liq, FALSE)
<1>1. PICK n \in Nat : n = liq * Q * (b - a)
  <2>1. b - a \in Nat /\ liq * Q \in Nat
    BY PriceScale
  <2> QED
    BY <2>1
<1>2. PICK u \in Nat : /\ u = Div(n, b, FALSE) /\ b * u <= n
                       /\ \A m \in Nat : b * m <= n => m <= u
  BY <1>1, DivIs
<1>3. PICK v \in Nat : /\ v = Div(u, a, FALSE) /\ a * v <= u
                       /\ \A m \in Nat : a * m <= u => m <= v
  BY <1>2, DivIs
<1>4. Amount0(a, b, liq, FALSE) = v
  <2>1. Amount0(a, b, liq, FALSE) = Div(Div(liq * Q * (b - a), b, FALSE), a, FALSE)
    BY DEF Amount0
  <2> QED
    BY <2>1, <1>1, <1>2, <1>3, Zenon
<1>5. b * (a * v) <= b * u /\ b * u \in Nat /\ b * (a * v) \in Nat
  <2>1. PICK w \in Nat : w = a * v
    OBVIOUS
  <2>2. w <= u
    BY <1>3, <2>1
  <2>3. b * w <= b * u /\ b * u \in Nat /\ b * w \in Nat
    BY <2>2
  <2> QED
    BY <2>1, <2>3
<1>6. b * (a * v) <= n
  <2>1. b * u <= n
    BY <1>2
  <2> QED
    BY <1>5, <2>1
<1>7. ASSUME NEW m \in Nat, b * (a * m) <= n PROVE m <= v
  <2>1. a * m \in Nat
    OBVIOUS
  <2> QED
    BY <1>2, <1>3, <1>7, <2>1
<1> QED
  BY <1>1, <1>3, <1>4, <1>6, <1>7, Zenon

\* getAmount1Delta rounded up: the least amount that covers the exact one.
LEMMA Amount1UpIs ==
  ASSUME NEW a \in Nat, NEW b \in Nat, a <= b, NEW liq \in Nat
  PROVE  /\ Amount1(a, b, liq, TRUE) \in Nat
         /\ liq * (b - a) <= Q * Amount1(a, b, liq, TRUE)
         /\ \A m \in Nat : liq * (b - a) <= Q * m => Amount1(a, b, liq, TRUE) <= m
<1>1. liq * (b - a) \in Nat
  <2>1. b - a \in Nat
    OBVIOUS
  <2> QED
    BY <2>1
<1>2. PICK n \in Nat : n = liq * (b - a)
  BY <1>1
<1>3. Amount1(a, b, liq, TRUE) = Div(n, Q, TRUE)
  BY <1>2 DEF Amount1
<1>4. /\ DivUp(n, Q) \in Nat /\ n <= Q * DivUp(n, Q)
      /\ \A m \in Nat : n <= Q * m => DivUp(n, Q) <= m
      /\ Div(n, Q, TRUE) = DivUp(n, Q)
  BY PriceScale, DivUpIs
<1> QED
  BY <1>2, <1>3, <1>4, Zenon

\* getAmount1Delta rounded down: the greatest amount that the exact one covers.
LEMMA Amount1DownIs ==
  ASSUME NEW a \in Nat, NEW b \in Nat, a <= b, NEW liq \in Nat
  PROVE  /\ Amount1(a, b, liq, FALSE) \in Nat
         /\ Q * Amount1(a, b, liq, FALSE) <= liq * (b - a)
         /\ \A m \in Nat : Q * m <= liq * (b - a) => m <= Amount1(a, b, liq, FALSE)
<1>1. liq * (b - a) \in Nat
  <2>1. b - a \in Nat
    OBVIOUS
  <2> QED
    BY <2>1
<1>2. PICK n \in Nat : n = liq * (b - a)
  BY <1>1
<1>3. Amount1(a, b, liq, FALSE) = Div(n, Q, FALSE)
  BY <1>2 DEF Amount1
<1>4. /\ Div(n, Q, FALSE) \in Nat /\ Q * Div(n, Q, FALSE) <= n
      /\ \A m \in Nat : Q * m <= n => m <= Div(n, Q, FALSE)
  BY PriceScale, DivIs
<1> QED
  BY <1>2, <1>3, <1>4, Zenon

\* No less of token 0 covers the exact amount than what is asked.
LEMMA Amount0UpLeast ==
  ASSUME NEW a \in Nat \ {0}, NEW b \in Nat \ {0}, a <= b, NEW liq \in Nat, NEW m \in Nat,
         liq * Q * (b - a) <= b * (a * m)
  PROVE  Amount0(a, b, liq, TRUE) <= m
BY Amount0UpIs

\* No more of token 0 is covered by the exact amount than what is paid.
LEMMA Amount0DownMost ==
  ASSUME NEW a \in Nat \ {0}, NEW b \in Nat \ {0}, a <= b, NEW liq \in Nat, NEW m \in Nat,
         b * (a * m) <= liq * Q * (b - a)
  PROVE  m <= Amount0(a, b, liq, FALSE)
BY Amount0DownIs

\* No less of token 1 covers the exact amount than what is asked.
LEMMA Amount1UpLeast ==
  ASSUME NEW a \in Nat, NEW b \in Nat, a <= b, NEW liq \in Nat, NEW m \in Nat,
         liq * (b - a) <= Q * m
  PROVE  Amount1(a, b, liq, TRUE) <= m
BY Amount1UpIs

\* No more of token 1 is covered by the exact amount than what is paid.
LEMMA Amount1DownMost ==
  ASSUME NEW a \in Nat, NEW b \in Nat, a <= b, NEW liq \in Nat, NEW m \in Nat,
         Q * m <= liq * (b - a)
  PROVE  m <= Amount1(a, b, liq, FALSE)
BY Amount1DownIs

\* The next price of an input that does not reach the target: on the way to it,
\* and what the way costs is covered by the input.
LEMMA InputDown ==
  ASSUME NEW p \in Nat \ {0}, NEW t \in Nat \ {0}, t <= p, NEW liq \in Nat, NEW x \in Nat,
         ~(Amount0(t, p, liq, TRUE) <= x)
  PROVE  LET n == NextFromInput(p, liq, x, TRUE)
         IN  n \in Nat /\ t < n /\ n <= p /\ Amount0(n, p, liq, TRUE) <= x
<1>1. PICK c \in Nat : c = liq * Q
  BY PriceScale
<1>2. p * (t * x) < c * (p - t)
  <2>1. SUFFICES ASSUME c * (p - t) <= p * (t * x) PROVE FALSE
    <3>1. c * (p - t) \in Int /\ p * (t * x) \in Int
      BY <1>1
    <3> QED
      BY <3>1
  <2>2. Amount0(t, p, liq, TRUE) <= x
    BY <1>1, <2>1, Amount0UpLeast
  <2> QED
    BY <2>2, Zenon
<1>3. c > 0
  <2>1. SUFFICES ASSUME c = 0 PROVE FALSE
    OBVIOUS
  <2>2. c * (p - t) = 0 /\ p * (t * x) \in Nat
    BY <2>1
  <2> QED
    BY <1>2, <2>2
<1>4. t < p
  <2>1. SUFFICES ASSUME t = p PROVE FALSE
    OBVIOUS
  <2>2. c * (p - t) = 0 /\ p * (t * x) \in Nat
    BY <2>1
  <2> QED
    BY <1>2, <2>2
<1>5. CASE x = 0
  <2>1. NextFromInput(p, liq, x, TRUE) = p
    BY <1>5 DEF NextFromInput
  <2>2. liq * Q * (p - p) <= p * (p * x)
    <3>1. p - p = 0 /\ p * (p * x) \in Nat
      OBVIOUS
    <3>2. c * 0 = 0
      BY <1>1
    <3> QED
      BY <1>1, <3>1, <3>2
  <2>3. Amount0(p, p, liq, TRUE) <= x
    <3>1. p <= p
      OBVIOUS
    <3> QED
      BY <2>2, <3>1, Amount0UpLeast, Zenon
  <2>4. p \in Nat /\ t < p /\ p <= p
    BY <1>4
  <2> QED
    BY <2>1, <2>3, <2>4, Zenon
<1>6. CASE x # 0
  <2>1. PICK d \in Nat \ {0} : d = c + x * p
    BY <1>3, MulCount
  <2>2. PICK e \in Nat : e = c * p
    BY MulCount
  <2>3. PICK n \in Nat : /\ n = DivUp(e, d) /\ e <= d * n
                         /\ \A m \in Nat : e <= d * m => n <= m
    BY DivUpIs
  <2>4. NextFromInput(p, liq, x, TRUE) = n
    BY <1>1, <1>6, <2>1, <2>2, <2>3 DEF NextFromInput
  <2>5. n <= p
    <3>1. d * p = c * p + x * p * p /\ x * p * p \in Nat
      BY <2>1
    <3> QED
      BY <2>2, <2>3, <3>1
  <2>6. t < n
    <3>1. SUFFICES ASSUME n <= t PROVE FALSE
      BY <2>3
    <3>2. d * n <= d * t
      BY <2>1, <2>3, <3>1, MulUp
    <3>3. d * t = c * t + p * (t * x) /\ c * (p - t) = c * p - c * t
      BY <2>1
    <3>4. d * n \in Nat /\ d * t \in Nat /\ c * t \in Nat /\ c * p \in Nat /\ p * (t * x) \in Nat
      BY <2>1
    <3> QED
      BY <1>2, <2>2, <2>3, <3>2, <3>3, <3>4
  <2>7. Amount0(n, p, liq, TRUE) <= x
    <3>1. d * n = c * n + p * (n * x) /\ c * (p - n) = c * p - c * n
      BY <2>1
    <3>2. c * n \in Nat /\ c * p \in Nat /\ p * (n * x) \in Nat
      OBVIOUS
    <3>3. c * (p - n) <= p * (n * x)
      BY <2>2, <2>3, <3>1, <3>2
    <3>4. n \in Nat \ {0}
      BY <2>6
    <3> QED
      BY <1>1, <2>5, <3>3, <3>4, Amount0UpLeast
  <2> QED
    BY <2>3, <2>4, <2>5, <2>6, <2>7
<1> QED
  BY <1>5, <1>6

\* An input of token 1 that does not reach the target lifts the price short of it, and pays for that.
LEMMA InputUp ==
  ASSUME NEW p \in Nat \ {0}, NEW t \in Nat \ {0}, p <= t, NEW liq \in Nat, NEW x \in Nat,
         ~(Amount1(p, t, liq, TRUE) <= x)
  PROVE  LET n == NextFromInput(p, liq, x, FALSE)
         IN  n \in Nat /\ p <= n /\ n < t /\ Amount1(p, n, liq, TRUE) <= x
<1>1. Q * x < liq * (t - p)
  <2>1. SUFFICES ASSUME liq * (t - p) <= Q * x PROVE FALSE
    <3>1. liq * (t - p) \in Int /\ Q * x \in Int
      BY PriceScale
    <3> QED
      BY <3>1
  <2>2. Amount1(p, t, liq, TRUE) <= x
    BY <2>1, Amount1UpLeast
  <2> QED
    BY <2>2, Zenon
<1>2. liq > 0
  <2>1. SUFFICES ASSUME liq = 0 PROVE FALSE
    OBVIOUS
  <2>2. liq * (t - p) = 0 /\ Q * x \in Nat
    BY <2>1, PriceScale
  <2> QED
    BY <1>1, <2>2
<1>3. PICK e \in Nat : e = x * Q /\ e = Q * x
  BY PriceScale
<1>4. PICK d \in Nat : d = e \div liq /\ liq * d <= e
  <2>1. liq \in Nat \ {0}
    BY <1>2
  <2> QED
    BY <2>1, DivFloor
<1>5. NextFromInput(p, liq, x, FALSE) = p + d
  BY <1>3, <1>4 DEF NextFromInput
<1>6. p + d < t
  <2>1. SUFFICES ASSUME t - p <= d PROVE FALSE
    BY <1>4
  <2>2. t - p \in Nat
    OBVIOUS
  <2>3. liq * (t - p) <= liq * d
    BY <1>4, <2>1, <2>2, MulUp
  <2>4. liq * d \in Nat /\ liq * (t - p) \in Nat
    BY <1>4, <2>2
  <2> QED
    BY <1>1, <1>3, <1>4, <2>3, <2>4
<1>7. Amount1(p, p + d, liq, TRUE) <= x
  <2>1. liq * ((p + d) - p) <= Q * x
    BY <1>3, <1>4
  <2>2. p + d \in Nat /\ p <= p + d
    BY <1>4
  <2> QED
    BY <2>1, <2>2, Amount1UpLeast
<1>8. p + d \in Nat /\ p <= p + d
  BY <1>4
<1> QED
  BY <1>5, <1>6, <1>7, <1>8, Zenon

\* The next price for an output that the way to the target more than yields: on
\* the way, and it yields the output.
LEMMA OutputDown ==
  ASSUME NEW p \in Nat \ {0}, NEW t \in Nat \ {0}, t <= p, NEW liq \in Nat, NEW x \in Nat,
         ~(Amount1(t, p, liq, FALSE) <= x)
  PROVE  LET n == NextFromOutput(p, liq, x, TRUE)
         IN  n \in Nat /\ t <= n /\ n <= p /\ x <= Amount1(n, p, liq, FALSE)
<1>1. PICK w \in Nat : Q * w <= liq * (p - t) /\ ~(w <= x)
  BY Amount1DownIs, Zenon
<1>2. Q * (x + 1) <= liq * (p - t)
  <2>1. Q * (x + 1) <= Q * w
    <3>1. x + 1 <= w
      BY <1>1
    <3> QED
      BY <3>1, PriceScale, MulUp
  <2>2. Q * (x + 1) \in Int /\ Q * w \in Int /\ liq * (p - t) \in Int
    BY PriceScale
  <2> QED
    BY <1>1, <2>1, <2>2
<1>3. PICK e \in Nat : e = x * Q /\ Q * (x + 1) = e + Q
  BY PriceScale
<1>4. liq > 0
  <2>1. SUFFICES ASSUME liq = 0 PROVE FALSE
    OBVIOUS
  <2>2. liq * (p - t) = 0
    BY <2>1
  <2> QED
    BY <1>2, <1>3, <2>2, PriceScale
<1>5. PICK d \in Nat : /\ d = DivUp(e, liq) /\ e <= liq * d
                       /\ \A k \in Nat : e <= liq * k => d <= k
  <2>1. liq \in Nat \ {0}
    BY <1>4
  <2> QED
    BY <2>1, DivUpIs
<1>6. NextFromOutput(p, liq, x, TRUE) = p - d
  BY <1>3, <1>5 DEF NextFromOutput
<1>7. d <= p - t
  <2>1. p - t \in Nat
    OBVIOUS
  <2>2. liq * (p - t) \in Nat
    BY <2>1
  <2> QED
    BY <1>2, <1>3, <1>5, <2>1, <2>2, PriceScale
<1>8. PICK n \in Nat \ {0} : n = p - d /\ p - n = d
  BY <1>5, <1>7
<1>9. x <= Amount1(n, p, liq, FALSE)
  <2>1. Q * x <= liq * (p - n)
    <3>1. Q * x = e
      BY <1>3, PriceScale
    <3> QED
      BY <1>5, <1>8, <3>1
  <2>2. n <= p
    BY <1>5, <1>8
  <2> QED
    BY <2>1, <2>2, Amount1DownMost
<1>10. n \in Nat /\ t <= n /\ n <= p
  BY <1>5, <1>7, <1>8
<1> QED
  BY <1>6, <1>8, <1>9, <1>10, Zenon

\* An output of token 0 that does not reach the target lifts the price no further, and is all there.
LEMMA OutputUp ==
  ASSUME NEW p \in Nat \ {0}, NEW t \in Nat \ {0}, p <= t, NEW liq \in Nat, NEW x \in Nat \ {0},
         ~(Amount0(p, t, liq, FALSE) <= x)
  PROVE  LET n == NextFromOutput(p, liq, x, FALSE)
         IN  n \in Nat /\ p <= n /\ n <= t /\ x <= Amount0(p, n, liq, FALSE)
<1>1. PICK c \in Nat : c = liq * Q
  BY PriceScale
<1>2. t * (p * (x + 1)) <= c * (t - p)
  <2>1. PICK w \in Nat : t * (p * w) <= c * (t - p) /\ ~(w <= x)
    <3>1. PICK v \in Nat : t * (p * v) <= liq * Q * (t - p) /\ ~(v <= x)
      BY Amount0DownIs, Zenon
    <3>2. t * (p * v) <= c * (t - p)
      BY <1>1, <3>1, Zenon
    <3> QED
      BY <3>1, <3>2, Zenon
  <2>2. p * (x + 1) <= p * w /\ p * (x + 1) \in Nat /\ p * w \in Nat
    <3>1. x + 1 <= w /\ x + 1 \in Nat
      BY <2>1
    <3> QED
      BY <3>1, MulUp, MulCount
  <2>3. t * (p * (x + 1)) <= t * (p * w)
    BY <2>2, MulUp
  <2>4. t * (p * (x + 1)) \in Int /\ t * (p * w) \in Int /\ c * (t - p) \in Int
    OBVIOUS
  <2> QED
    BY <2>1, <2>3, <2>4
<1>3. PICK e, f, g \in Nat : e = c * p /\ f = x * p /\ g = t * (p * x)
  BY MulCount
<1>4. g < c * (t - p) /\ c * (t - p) = c * t - e /\ c * t \in Nat /\ t * f = g
  <2>1. t * (p * (x + 1)) = t * (p * x) + t * p /\ t * p > 0 /\ t * p \in Nat
    OBVIOUS
  <2>2. c * (t - p) = c * t - c * p /\ c * t \in Nat
    OBVIOUS
  <2>3. t * f = g
    BY <1>3
  <2> QED
    BY <1>2, <1>3, <2>1, <2>2, <2>3
<1>5. f < c
  <2>1. SUFFICES ASSUME c <= f PROVE FALSE
    BY <1>3
  <2>2. c * t <= f * t
    BY <1>3, <2>1, MulUp
  <2>3. f * t = g
    BY <1>3
  <2> QED
    BY <1>3, <1>4, <2>2, <2>3
<1>6. PICK d \in Nat \ {0} : d = c - f
  BY <1>3, <1>5
<1>7. PICK n \in Nat : /\ n = DivUp(e, d) /\ e <= d * n
                       /\ \A m \in Nat : e <= d * m => n <= m
  BY <1>3, DivUpIs
<1>8. NextFromOutput(p, liq, x, FALSE) = n
  BY <1>1, <1>3, <1>6, <1>7 DEF NextFromOutput
<1>9. n <= t
  <2>1. d * t = c * t - g
    BY <1>3, <1>6
  <2>2. e <= d * t
    BY <1>3, <1>4, <2>1
  <2> QED
    BY <1>7, <2>2
<1>10. p <= n
  <2>1. SUFFICES ASSUME n + 1 <= p PROVE FALSE
    BY <1>7
  <2>2. d * (n + 1) <= c * p
    <3>1. d <= c /\ n + 1 \in Nat
      BY <1>3, <1>6
    <3> QED
      BY <2>1, <3>1, MulUp
  <2>3. d * (n + 1) = d * n + d /\ d * n \in Nat
    BY <1>6, <1>7
  <2> QED
    BY <1>3, <1>6, <1>7, <2>2, <2>3
<1>11. x <= Amount0(p, n, liq, FALSE)
  <2>1. d * n = c * n - n * (p * x) /\ c * n \in Nat /\ n * (p * x) \in Nat
    BY <1>3, <1>6, <1>7
  <2>2. c * (n - p) = c * n - e
    BY <1>3, <1>7
  <2>3. n * (p * x) <= c * (n - p)
    BY <1>3, <1>7, <2>1, <2>2
  <2>4. n \in Nat \ {0}
    BY <1>7, <1>10
  <2> QED
    BY <1>1, <1>10, <2>3, <2>4, Amount0DownMost
<1> QED
  BY <1>7, <1>8, <1>9, <1>10, <1>11

\* The fee is a fraction below one.
LEMMA Fees == FeePips \in Nat /\ PipScale \in Nat \ {0} /\ PipScale - FeePips \in Nat \ {0}
BY V3Assumption

\* What the fee leaves of an input, and that with its fee it fits the input.
LEMMA V3FeeFits ==
  ASSUME NEW rem \in Nat
  PROVE  LET less == (rem * (PipScale - FeePips)) \div PipScale
         IN  /\ less \in Nat /\ less <= rem
             /\ \A i \in Nat : i <= less => i + DivUp(i * FeePips, PipScale - FeePips) <= rem
<1>1. PICK d \in Nat \ {0} : d = PipScale - FeePips
  BY Fees
<1>2. PICK F \in Nat, S \in Nat \ {0} : F = FeePips /\ S = PipScale /\ S = d + F
  BY <1>1, Fees
<1>3. PICK x \in Nat : x = (rem * d) \div S /\ S * x <= rem * d
  <2>1. rem * d \in Nat
    BY MulCount
  <2> QED
    BY <1>2, <2>1, DivFloor
<1>4. ASSUME NEW i \in Nat, i <= x
      PROVE  i <= rem /\ i + DivUp(i * F, d) <= rem
  <2>1. S * i <= rem * d /\ S * i = d * i + F * i
    <3>1. S * i <= S * x
      BY <1>2, <1>4, MulUp
    <3>2. S * i \in Nat /\ S * x \in Nat /\ rem * d \in Nat
      BY <1>2, MulCount
    <3>3. S * i = d * i + F * i
      BY <1>2
    <3> QED
      BY <1>3, <3>1, <3>2, <3>3
  <2>2. PICK g \in Nat : g = i * F /\ g = F * i
    BY MulCount
  <2>3. d * i + g <= d * rem /\ d * i \in Nat /\ d * rem \in Nat
    <3>1. rem * d = d * rem /\ d * i \in Nat /\ d * rem \in Nat
      BY MulCount
    <3> QED
      BY <2>1, <2>2, <3>1
  <2>4. d * i <= d * rem
    BY <2>2, <2>3
  <2>5. i <= rem
    BY <2>4, MulDown
  <2>6. PICK k \in Nat : k = rem - i /\ k + i = rem
    BY <2>5
  <2>7. g <= d * k
    <3>1. d * rem = d * k + d * i /\ d * k \in Nat
      BY <2>6
    <3> QED
      BY <2>2, <2>3, <3>1
  <2>8. DivUp(g, d) <= k /\ DivUp(g, d) \in Nat
    BY <2>2, <2>7, DivUpIs
  <2>9. i + DivUp(g, d) <= rem
    BY <2>6, <2>8
  <2> QED
    BY <2>2, <2>5, <2>9
<1>5. x <= rem
  <2>1. x <= x
    OBVIOUS
  <2> QED
    BY <1>4, <2>1
<1>6. \A i \in Nat : i <= x => i + DivUp(i * FeePips, PipScale - FeePips) <= rem
  BY <1>1, <1>2, <1>4, Zenon
<1>7. x = (rem * (PipScale - FeePips)) \div PipScale
  BY <1>1, <1>2, <1>3
<1> QED
  BY <1>5, <1>6, <1>7, Zenon

\* A fee on top of a natural amount is natural.
LEMMA FeeCount ==
  ASSUME NEW i \in Nat
  PROVE  DivUp(i * FeePips, PipScale - FeePips) \in Nat
<1>1. i * FeePips \in Nat
  BY Fees, MulCount
<1> QED
  BY <1>1, Fees, DivUpIs

-----------------------------------------------------------------------------
(***************************************************************************)
(* The steps of a swap: what a step takes and gives, against the exact     *)
(* amounts between its prices.                                             *)
(***************************************************************************)
\* A step of a swap whose price falls: what comes in of token 0 and goes out of
\* token 1 at least and at most pays for the way.
LEMMA StepDown ==
  ASSUME NEW p \in Nat \ {0}, NEW t \in Nat \ {0}, t <= p, NEW liq \in Nat, NEW rem \in Int
  PROVE  \E n, i, o, f \in Nat : Falls(p, t, liq, rem, n, i, o, f)
<1>0. SUFFICES \E n, i, o, f \in Nat :
        /\ SwapStep(p, t, liq, rem) = [next |-> n, in |-> i, out |-> o, fee |-> f]
        /\ t <= n /\ n <= p
        /\ liq * Q * (p - n) <= p * (n * i) /\ Q * o <= liq * (p - n)
        /\ rem >= 0 => i + f <= rem /\ (n = t \/ i + f = rem)
        /\ rem < 0 => o <= -rem /\ (n = t \/ o = -rem)
  BY Zenon DEF Falls
<1>1. \A n \in Nat \ {0} : n <= p => /\ AmountOn(0, p, n, liq, TRUE) = Amount0(n, p, liq, TRUE)
                                    /\ AmountOn(1, p, n, liq, FALSE) = Amount1(n, p, liq, FALSE)
  <2>1. SUFFICES ASSUME NEW n \in Nat \ {0}, n <= p
                 PROVE  /\ AmountOn(0, p, n, liq, TRUE) = Amount0(n, p, liq, TRUE)
                        /\ AmountOn(1, p, n, liq, FALSE) = Amount1(n, p, liq, FALSE)
    OBVIOUS
  <2>2. ~(p < n) /\ 1 # 0
    BY <2>1
  <2> QED
    BY <2>2, Zenon DEF AmountOn
<1>2. \A n \in Nat \ {0} : n <= p =>
        \E i, o \in Nat : /\ i = Amount0(n, p, liq, TRUE) /\ o = Amount1(n, p, liq, FALSE)
                          /\ liq * Q * (p - n) <= p * (n * i) /\ Q * o <= liq * (p - n)
  <2>1. SUFFICES ASSUME NEW n \in Nat \ {0}, n <= p
                 PROVE  /\ Amount0(n, p, liq, TRUE) \in Nat
                        /\ Amount1(n, p, liq, FALSE) \in Nat
                        /\ liq * Q * (p - n) <= p * (n * Amount0(n, p, liq, TRUE))
                        /\ Q * Amount1(n, p, liq, FALSE) <= liq * (p - n)
    BY Zenon
  <2>2. n \in Nat /\ p \in Nat
    OBVIOUS
  <2> QED
    BY <2>1, <2>2, Amount0UpIs, Amount1DownIs, Zenon
<1>3. p >= t /\ 1 - 0 = 1 /\ t \in Nat
  OBVIOUS
<1>4. CASE rem >= 0
  <2>0. rem \in Nat /\ ~(rem < 0)
    BY <1>4
  <2>1. PICK x \in Nat : /\ x = (rem * (PipScale - FeePips)) \div PipScale /\ x <= rem
                         /\ \A i \in Nat : i <= x => i + DivUp(i * FeePips, PipScale - FeePips) <= rem
    BY <2>0, V3FeeFits, Zenon
  <2>2. CASE Amount0(t, p, liq, TRUE) <= x
    <3>1. PICK i, o \in Nat : /\ i = Amount0(t, p, liq, TRUE) /\ o = Amount1(t, p, liq, FALSE)
                              /\ liq * Q * (p - t) <= p * (t * i) /\ Q * o <= liq * (p - t)
      BY <1>2, Zenon
    <3>2. x >= AmountOn(0, p, t, liq, TRUE)
      <4>1. x >= Amount0(t, p, liq, TRUE)
        BY <2>2
      <4> QED
        BY <1>1, <4>1, Zenon
    <3>3. PICK f \in Nat : f = DivUp(i * FeePips, PipScale - FeePips) /\ i + f <= rem
      BY <2>1, <2>2, <3>1, FeeCount, Zenon
    <3>4. SwapStep(p, t, liq, rem) = [next |-> t, in |-> i, out |-> o, fee |-> f]
      BY <1>1, <1>3, <1>4, <2>1, <3>1, <3>2, <3>3, Zenon DEF SwapStep
    <3>5. t <= t
      OBVIOUS
    <3> QED
      BY <1>3, <2>0, <3>1, <3>3, <3>4, <3>5, Zenon
  <2>3. CASE ~(Amount0(t, p, liq, TRUE) <= x)
    <3>1. PICK n \in Nat \ {0} : /\ n = NextFromInput(p, liq, x, TRUE) /\ t < n /\ n <= p
                                 /\ Amount0(n, p, liq, TRUE) <= x
      <4>1. PICK n \in Nat : /\ n = NextFromInput(p, liq, x, TRUE) /\ t < n /\ n <= p
                             /\ Amount0(n, p, liq, TRUE) <= x
        BY <2>3, InputDown, Zenon
      <4>2. t < n
        BY <4>1, Zenon
      <4>3. n # 0
        BY <4>2
      <4> QED
        BY <4>1, <4>3, Zenon
    <3>2. PICK i, o \in Nat : /\ i = Amount0(n, p, liq, TRUE) /\ o = Amount1(n, p, liq, FALSE)
                              /\ liq * Q * (p - n) <= p * (n * i) /\ Q * o <= liq * (p - n)
      BY <1>2, <3>1, Zenon
    <3>3. ~(x >= AmountOn(0, p, t, liq, TRUE))
      <4>1. ~(x >= Amount0(t, p, liq, TRUE))
        BY <2>3
      <4> QED
        BY <1>1, <4>1, Zenon
    <3>4. PICK f \in Nat : f = rem - i /\ i + f <= rem /\ i + f = rem
      <4>1. i <= x
        BY <3>1, <3>2, Zenon
      <4> QED
        BY <2>0, <2>1, <4>1
    <3>5. n # t /\ t <= n /\ n \in Nat
      <4>1. t < n
        BY <3>1, Zenon
      <4> QED
        BY <4>1
    <3>6. SwapStep(p, t, liq, rem) = [next |-> n, in |-> i, out |-> o, fee |-> f]
      BY <1>1, <1>3, <1>4, <2>1, <3>1, <3>2, <3>3, <3>4, <3>5, Zenon DEF SwapStep
    <3> QED
      BY <2>0, <3>1, <3>2, <3>4, <3>5, <3>6, Zenon
  <2> QED
    BY <2>2, <2>3
<1>5. CASE rem < 0
  <2>0. PICK x \in Nat \ {0} : x = -rem /\ ~(rem >= 0)
    BY <1>5
  <2>1. CASE Amount1(t, p, liq, FALSE) <= x
    <3>1. PICK i, o \in Nat : /\ i = Amount0(t, p, liq, TRUE) /\ o = Amount1(t, p, liq, FALSE)
                              /\ liq * Q * (p - t) <= p * (t * i) /\ Q * o <= liq * (p - t)
      BY <1>2, Zenon
    <3>2. -rem >= AmountOn(1, p, t, liq, FALSE)
      <4>1. x >= Amount1(t, p, liq, FALSE)
        BY <2>1
      <4> QED
        BY <1>1, <2>0, <4>1, Zenon
    <3>3. PICK f \in Nat : f = DivUp(i * FeePips, PipScale - FeePips)
      BY FeeCount
    <3>4. o <= x
      BY <2>1, <3>1, Zenon
    <3>5. ~(o > -rem)
      BY <2>0, <3>4
    <3>6. SwapStep(p, t, liq, rem) = [next |-> t, in |-> i, out |-> o, fee |-> f]
      BY <1>1, <1>3, <2>0, <3>1, <3>2, <3>3, <3>5, Zenon DEF SwapStep
    <3>7. t <= t
      OBVIOUS
    <3> QED
      BY <1>3, <2>0, <3>1, <3>3, <3>4, <3>6, <3>7, Zenon
  <2>2. CASE ~(Amount1(t, p, liq, FALSE) <= x)
    <3>1. PICK n \in Nat \ {0} : /\ n = NextFromOutput(p, liq, x, TRUE) /\ t <= n /\ n <= p
                                 /\ x <= Amount1(n, p, liq, FALSE)
      <4>1. PICK n \in Nat : /\ n = NextFromOutput(p, liq, x, TRUE) /\ t <= n /\ n <= p
                             /\ x <= Amount1(n, p, liq, FALSE)
        BY <2>2, OutputDown, Zenon
      <4>2. t <= n
        BY <4>1, Zenon
      <4>3. n # 0
        BY <4>2
      <4> QED
        BY <4>1, <4>3, Zenon
    <3>2. PICK i, o \in Nat : /\ i = Amount0(n, p, liq, TRUE) /\ o = Amount1(n, p, liq, FALSE)
                              /\ liq * Q * (p - n) <= p * (n * i) /\ Q * o <= liq * (p - n)
      BY <1>2, <3>1, Zenon
    <3>3. ~(-rem >= AmountOn(1, p, t, liq, FALSE))
      <4>1. ~(x >= Amount1(t, p, liq, FALSE))
        BY <2>2
      <4> QED
        BY <1>1, <2>0, <4>1, Zenon
    <3>4. PICK f \in Nat : f = DivUp(i * FeePips, PipScale - FeePips)
      BY FeeCount
    <3>5. x <= o
      BY <3>1, <3>2, Zenon
    <3>6. (IF o > -rem THEN -rem ELSE o) = x
      BY <2>0, <3>5
    <3>7. SwapStep(p, t, liq, rem) = [next |-> n, in |-> i, out |-> x, fee |-> f]
      BY <1>1, <1>3, <2>0, <3>1, <3>2, <3>3, <3>4, <3>6, Zenon DEF SwapStep
    <3>8. Q * x <= liq * (p - n)
      <4>1. Q * x <= Q * o
        BY <3>5, PriceScale, MulUp
      <4>2. Q * x \in Nat /\ Q * o \in Nat /\ liq * (p - n) \in Int
        BY PriceScale, MulCount
      <4>3. Q * o <= liq * (p - n)
        BY <3>2, Zenon
      <4> QED
        BY <4>1, <4>2, <4>3
    <3>9. x <= -rem /\ x = -rem /\ x \in Nat
      BY <2>0
    <3> QED
      BY <2>0, <3>1, <3>2, <3>4, <3>7, <3>8, <3>9, Zenon
  <2> QED
    BY <2>1, <2>2
<1> QED
  BY <1>4, <1>5

\* A step of a swap whose price rises: what comes in of token 1 and goes out of
\* token 0 at least and at most pays for the way.
LEMMA StepUp ==
  ASSUME NEW p \in Nat \ {0}, NEW t \in Nat \ {0}, p < t, NEW liq \in Nat, NEW rem \in Int
  PROVE  \E n, i, o, f \in Nat : Rises(p, t, liq, rem, n, i, o, f)
<1>s. SUFFICES \E n, i, o, f \in Nat :
        /\ SwapStep(p, t, liq, rem) = [next |-> n, in |-> i, out |-> o, fee |-> f]
        /\ p <= n /\ n <= t
        /\ liq * (n - p) <= Q * i /\ n * (p * o) <= liq * Q * (n - p)
        /\ rem >= 0 => i + f <= rem /\ (n = t \/ i + f = rem)
        /\ rem < 0 => o <= -rem /\ (n = t \/ o = -rem)
  BY Zenon DEF Rises
<1>1. \A n \in Nat \ {0} : p <= n => /\ AmountOn(1, p, n, liq, TRUE) = Amount1(p, n, liq, TRUE)
                                    /\ AmountOn(0, p, n, liq, FALSE) = Amount0(p, n, liq, FALSE)
  <2>1. SUFFICES ASSUME NEW n \in Nat \ {0}, p <= n
                 PROVE  /\ AmountOn(1, p, n, liq, TRUE) = Amount1(p, n, liq, TRUE)
                        /\ AmountOn(0, p, n, liq, FALSE) = Amount0(p, n, liq, FALSE)
    OBVIOUS
  <2>2. 1 # 0
    OBVIOUS
  <2>3. CASE p < n
    BY <2>2, <2>3, Zenon DEF AmountOn
  <2>4. CASE ~(p < n)
    <3>1. p = n
      BY <2>1, <2>4
    <3> QED
      BY <2>2, <2>4, <3>1, Zenon DEF AmountOn
  <2> QED
    BY <2>3, <2>4
<1>2. \A n \in Nat \ {0} : p <= n =>
        \E i, o \in Nat : /\ i = Amount1(p, n, liq, TRUE) /\ o = Amount0(p, n, liq, FALSE)
                          /\ liq * (n - p) <= Q * i /\ n * (p * o) <= liq * Q * (n - p)
  <2>1. SUFFICES ASSUME NEW n \in Nat \ {0}, p <= n
                 PROVE  /\ Amount1(p, n, liq, TRUE) \in Nat
                        /\ Amount0(p, n, liq, FALSE) \in Nat
                        /\ liq * (n - p) <= Q * Amount1(p, n, liq, TRUE)
                        /\ n * (p * Amount0(p, n, liq, FALSE)) <= liq * Q * (n - p)
    BY Zenon
  <2>2. n \in Nat /\ p \in Nat
    OBVIOUS
  <2> QED
    BY <2>1, <2>2, Amount1UpIs, Amount0DownIs, Zenon
<1>0. ~(p >= t)
  OBVIOUS
<1>3. (p >= t) = FALSE /\ ~(p >= t) /\ 1 - 1 = 0 /\ t \in Nat /\ p <= t /\ t <= t
  <2>1. 1 - 1 = 0 /\ t \in Nat /\ p <= t /\ t <= t
    OBVIOUS
  <2>2. (p >= t) = FALSE
    BY <1>0
  <2> QED
    BY <1>0, <2>1, <2>2, Zenon
<1>4. CASE rem >= 0
  <2>0. rem \in Nat /\ ~(rem < 0)
    BY <1>4
  <2>1. PICK x \in Nat : /\ x = (rem * (PipScale - FeePips)) \div PipScale /\ x <= rem
                         /\ \A i \in Nat : i <= x => i + DivUp(i * FeePips, PipScale - FeePips) <= rem
    BY <2>0, V3FeeFits, Zenon
  <2>2. CASE Amount1(p, t, liq, TRUE) <= x
    <3>1. PICK i, o \in Nat : /\ i = Amount1(p, t, liq, TRUE) /\ o = Amount0(p, t, liq, FALSE)
                              /\ liq * (t - p) <= Q * i /\ t * (p * o) <= liq * Q * (t - p)
      BY <1>2, <1>3, Zenon
    <3>2. x >= AmountOn(1, p, t, liq, TRUE)
      <4>1. x >= Amount1(p, t, liq, TRUE)
        BY <2>2
      <4> QED
        BY <1>1, <1>3, <4>1, Zenon
    <3>3. PICK f \in Nat : f = DivUp(i * FeePips, PipScale - FeePips) /\ i + f <= rem
      BY <2>1, <2>2, <3>1, FeeCount, Zenon
    <3>4. SwapStep(p, t, liq, rem) = [next |-> t, in |-> i, out |-> o, fee |-> f]
      BY <1>1, <1>3, <1>4, <2>1, <3>1, <3>2, <3>3, Zenon DEF SwapStep
    <3>5. t <= t
      OBVIOUS
    <3> QED
      BY <1>3, <2>0, <3>1, <3>3, <3>4, <3>5, Zenon
  <2>3. CASE ~(Amount1(p, t, liq, TRUE) <= x)
    <3>1. PICK n \in Nat \ {0} : /\ n = NextFromInput(p, liq, x, FALSE) /\ p <= n /\ n < t
                                 /\ Amount1(p, n, liq, TRUE) <= x
      <4>1. PICK n \in Nat : /\ n = NextFromInput(p, liq, x, FALSE) /\ p <= n /\ n < t
                             /\ Amount1(p, n, liq, TRUE) <= x
        BY <2>3, <1>3, InputUp, Zenon
      <4>2. p <= n
        BY <4>1, Zenon
      <4>3. n # 0
        BY <4>2
      <4> QED
        BY <4>1, <4>3, Zenon
    <3>2. PICK i, o \in Nat : /\ i = Amount1(p, n, liq, TRUE) /\ o = Amount0(p, n, liq, FALSE)
                              /\ liq * (n - p) <= Q * i /\ n * (p * o) <= liq * Q * (n - p)
      BY <1>2, <3>1, Zenon
    <3>3. ~(x >= AmountOn(1, p, t, liq, TRUE))
      <4>1. ~(x >= Amount1(p, t, liq, TRUE))
        BY <2>3
      <4> QED
        BY <1>1, <1>3, <4>1, Zenon
    <3>4. PICK f \in Nat : f = rem - i /\ i + f <= rem /\ i + f = rem
      <4>1. i <= x
        BY <3>1, <3>2, Zenon
      <4> QED
        BY <2>0, <2>1, <4>1
    <3>5. n # t /\ n <= t /\ n \in Nat
      <4>1. n < t
        BY <3>1, Zenon
      <4> QED
        BY <4>1
    <3>6. SwapStep(p, t, liq, rem) = [next |-> n, in |-> i, out |-> o, fee |-> f]
      BY <1>1, <1>3, <1>4, <2>1, <3>1, <3>2, <3>3, <3>4, <3>5, Zenon DEF SwapStep
    <3> QED
      <4>1. rem >= 0 => i + f <= rem /\ (n = t \/ i + f = rem)
        BY <3>4, Zenon
      <4>2. rem < 0 => o <= -rem /\ (n = t \/ o = -rem)
        BY <2>0, Zenon
      <4> QED
        BY <3>1, <3>2, <3>5, <3>6, <4>1, <4>2, Zenon
  <2> QED
    BY <2>2, <2>3
<1>5. CASE rem < 0
  <2>0. PICK x \in Nat \ {0} : x = -rem /\ ~(rem >= 0)
    BY <1>5
  <2>1. CASE Amount0(p, t, liq, FALSE) <= x
    <3>1. PICK i, o \in Nat : /\ i = Amount1(p, t, liq, TRUE) /\ o = Amount0(p, t, liq, FALSE)
                              /\ liq * (t - p) <= Q * i /\ t * (p * o) <= liq * Q * (t - p)
      BY <1>2, <1>3, Zenon
    <3>2. -rem >= AmountOn(0, p, t, liq, FALSE)
      <4>1. x >= Amount0(p, t, liq, FALSE)
        BY <2>1
      <4> QED
        BY <1>1, <1>3, <2>0, <4>1, Zenon
    <3>3. PICK f \in Nat : f = DivUp(i * FeePips, PipScale - FeePips)
      BY FeeCount
    <3>4. o <= x
      BY <2>1, <3>1, Zenon
    <3>5. ~(o > -rem)
      BY <2>0, <3>4
    <3>6. SwapStep(p, t, liq, rem) = [next |-> t, in |-> i, out |-> o, fee |-> f]
      BY <1>1, <1>3, <2>0, <3>1, <3>2, <3>3, <3>5, Zenon DEF SwapStep
    <3>7. t <= t
      OBVIOUS
    <3> QED
      BY <1>3, <2>0, <3>1, <3>3, <3>4, <3>6, <3>7, Zenon
  <2>2. CASE ~(Amount0(p, t, liq, FALSE) <= x)
    <3>1. PICK n \in Nat \ {0} : /\ n = NextFromOutput(p, liq, x, FALSE) /\ p <= n /\ n <= t
                                 /\ x <= Amount0(p, n, liq, FALSE)
      <4>1. PICK n \in Nat : /\ n = NextFromOutput(p, liq, x, FALSE) /\ p <= n /\ n <= t
                             /\ x <= Amount0(p, n, liq, FALSE)
        BY <2>2, <1>3, OutputUp, Zenon
      <4>2. p <= n
        BY <4>1, Zenon
      <4>3. n # 0
        BY <4>2
      <4> QED
        BY <4>1, <4>3, Zenon
    <3>2. PICK i, o \in Nat : /\ i = Amount1(p, n, liq, TRUE) /\ o = Amount0(p, n, liq, FALSE)
                              /\ liq * (n - p) <= Q * i /\ n * (p * o) <= liq * Q * (n - p)
      BY <1>2, <3>1, Zenon
    <3>3. ~(-rem >= AmountOn(0, p, t, liq, FALSE))
      <4>1. ~(x >= Amount0(p, t, liq, FALSE))
        BY <2>2
      <4> QED
        BY <1>1, <1>3, <2>0, <4>1, Zenon
    <3>4. PICK f \in Nat : f = DivUp(i * FeePips, PipScale - FeePips)
      BY FeeCount
    <3>5. x <= o
      BY <3>1, <3>2, Zenon
    <3>6. (IF o > -rem THEN -rem ELSE o) = x
      BY <2>0, <3>5
    <3>7. SwapStep(p, t, liq, rem) = [next |-> n, in |-> i, out |-> x, fee |-> f]
      BY <1>1, <1>3, <2>0, <3>1, <3>2, <3>3, <3>4, <3>6, Zenon DEF SwapStep
    <3>8. n * (p * x) <= liq * Q * (n - p)
      <4>1. p * x <= p * o /\ p * x \in Nat /\ p * o \in Nat
        BY <3>5, MulUp, MulCount
      <4>2. n * (p * x) <= n * (p * o) /\ n * (p * x) \in Nat /\ n * (p * o) \in Nat
        BY <4>1, MulUp, MulCount
      <4>3. n * (p * o) <= liq * Q * (n - p)
        BY <3>2, Zenon
      <4>4. liq * Q * (n - p) \in Int
        <5>1. liq * Q \in Int /\ n - p \in Int
          BY PriceScale
        <5> QED
          BY <5>1
      <4> QED
        BY <4>2, <4>3, <4>4
    <3>9. x <= -rem /\ x = -rem /\ x \in Nat
      BY <2>0
    <3> QED
      <4>1. rem >= 0 => i + f <= rem /\ (n = t \/ i + f = rem)
        BY <2>0, Zenon
      <4>2. rem < 0 => x <= -rem /\ (n = t \/ x = -rem)
        BY <3>9, Zenon
      <4> QED
        BY <3>1, <3>2, <3>7, <3>8, <3>9, <4>1, <4>2, Zenon
  <2> QED
    BY <2>1, <2>2
<1> QED
  BY <1>4, <1>5

\* A set of naturals has a least member.
LEMMA LeastIs ==
  ASSUME NEW T \in SUBSET Nat, T # {}
  PROVE  \E k \in T : \A j \in T : k <= j
<1>1. PICK z \in T : \A x \in T : ~ (<<x, z>> \in OpToRel(<, Nat))
  BY NatLessThanWellFounded, WFMin
<1>2. \A j \in T : ~(j < z)
  BY <1>1 DEF OpToRel
<1> QED
  BY <1>2

\* The greatest and the least of a set of ticks.
LEMMA MaxIs ==
  ASSUME NEW a \in Int, NEW b \in Int, NEW S \in SUBSET (a..b), S # {}
  PROVE  Max(S) \in S /\ \A y \in S : y <= Max(S)
<1> DEFINE T == {k \in Nat : b - k \in S}
<1>0. PICK y \in S : TRUE
  OBVIOUS
<1>1. y \in S /\ y \in Int /\ b - y \in Nat /\ b - (b - y) = y
  OBVIOUS
<1>2. T # {} /\ T \in SUBSET Nat
  BY <1>1
<1>3. PICK k \in T : \A j \in T : k <= j
  BY <1>2, LeastIs
<1>4. \A x \in S : b - k >= x
  <2>1. SUFFICES ASSUME NEW x \in S PROVE b - k >= x
    OBVIOUS
  <2>2. x \in Int /\ b - x \in Nat /\ b - (b - x) = x
    OBVIOUS
  <2>3. b - x \in T
    BY <2>2
  <2>4. k <= b - x /\ k \in Nat
    BY <1>3, <2>3
  <2> QED
    BY <2>2, <2>4
<1>5. b - k \in S
  OBVIOUS
<1>6. \E x \in S : \A z \in S : x >= z
  BY <1>4, <1>5
<1>7. Max(S) \in S /\ \A z \in S : Max(S) >= z
  BY <1>6 DEF Max
<1> QED
  BY <1>7

\* The minimum of a bounded set of integers.
LEMMA MinIs ==
  ASSUME NEW a \in Int, NEW b \in Int, NEW S \in SUBSET (a..b), S # {}
  PROVE  Min(S) \in S /\ \A y \in S : Min(S) <= y
<1> DEFINE T == {k \in Nat : a + k \in S}
<1>0. PICK y \in S : TRUE
  OBVIOUS
<1>1. y \in S /\ y \in Int /\ y - a \in Nat /\ a + (y - a) = y
  OBVIOUS
<1>2. T # {} /\ T \in SUBSET Nat
  BY <1>1
<1>3. PICK k \in T : \A j \in T : k <= j
  BY <1>2, LeastIs
<1>4. \A x \in S : a + k <= x
  <2>1. SUFFICES ASSUME NEW x \in S PROVE a + k <= x
    OBVIOUS
  <2>2. x \in Int /\ x - a \in Nat /\ a + (x - a) = x
    OBVIOUS
  <2>3. x - a \in T
    BY <2>2
  <2>4. k <= x - a /\ k \in Nat
    BY <1>3, <2>3
  <2> QED
    BY <2>2, <2>4
<1>5. a + k \in S
  OBVIOUS
<1>6. \E x \in S : \A z \in S : x <= z
  BY <1>4, <1>5
<1>7. Min(S) \in S /\ \A z \in S : Min(S) <= z
  BY <1>6 DEF Min
<1> QED
  BY <1>7

\* The ticks, from the least to the greatest, around tick 0.
LEMMA TickRange ==
  /\ MinTick \in Int /\ MaxTick \in Int /\ MinTick < 0 /\ 0 < MaxTick
  /\ Ticks = MinTick..MaxTick
BY V3Assumption DEF Ticks

\* Every tick has a positive price.
LEMMA PriceOf ==
  ASSUME NEW t \in Ticks
  PROVE  SqrtPrice[t] \in Nat \ {0}
BY V3Assumption

\* Prices rise with their ticks.
LEMMA Rising ==
  ASSUME NEW a \in Ticks, NEW b \in Ticks, a < b
  PROVE  SqrtPrice[a] < SqrtPrice[b]
<1> DEFINE S == {k \in Nat : a + k + 1 <= MaxTick => SqrtPrice[a] < SqrtPrice[a + k + 1]}
<1>0. a \in Int /\ b \in Int /\ MinTick <= a /\ a < MaxTick /\ b <= MaxTick
  BY TickRange
<1>1. 0 \in S
  <2>1. a \in MinTick..(MaxTick - 1)
    BY <1>0, TickRange
  <2>2. SqrtPrice[a] < SqrtPrice[a + 1]
    BY <2>1, V3Assumption
  <2>3. a + 0 + 1 = a + 1
    BY <1>0
  <2> QED
    BY <2>2, <2>3
<1>2. \A k \in Nat : k \in S => k + 1 \in S
  <2>1. SUFFICES ASSUME NEW k \in Nat, k \in S, a + (k + 1) + 1 <= MaxTick
                 PROVE  SqrtPrice[a] < SqrtPrice[a + (k + 1) + 1]
    OBVIOUS
  <2>2. PICK c \in Int : c = a + k + 1 /\ a + (k + 1) + 1 = c + 1 /\ c \in MinTick..(MaxTick - 1)
    BY <1>0, <2>1, TickRange
  <2>3. SqrtPrice[c] < SqrtPrice[c + 1]
    BY <2>2, V3Assumption
  <2>4. SqrtPrice[a] < SqrtPrice[c]
    BY <2>1, <2>2, TickRange
  <2>5. c \in Ticks /\ c + 1 \in Ticks
    BY <2>2, TickRange
  <2>6. SqrtPrice[a] \in Nat /\ SqrtPrice[c] \in Nat /\ SqrtPrice[c + 1] \in Nat
    BY <2>5, PriceOf
  <2>7. SqrtPrice[a] < SqrtPrice[c + 1]
    BY <2>3, <2>4, <2>6
  <2> QED
    BY <2>2, <2>7
<1> HIDE DEF S
<1>3. \A k \in Nat : k \in S
  BY <1>1, <1>2, Induction
<1>4. b - a - 1 \in S /\ a + (b - a - 1) + 1 = b
  BY <1>0, <1>3
<1> QED
  BY <1>0, <1>4 DEF S

\* The tick of a price within the bounds.
LEMMA TickAtIs ==
  ASSUME NEW p \in SqrtPrice[MinTick]..(SqrtPrice[MaxTick] - 1)
  PROVE  /\ TickAt(p) \in MinTick..(MaxTick - 1)
         /\ SqrtPrice[TickAt(p)] <= p /\ p < SqrtPrice[TickAt(p) + 1]
<1> DEFINE S == {t \in Ticks : SqrtPrice[t] <= p}
<1>0. /\ MinTick \in Ticks /\ MaxTick \in Ticks
      /\ SqrtPrice[MinTick] \in Nat /\ SqrtPrice[MaxTick] \in Nat
  <2>1. MinTick \in Ticks /\ MaxTick \in Ticks
    BY TickRange
  <2> QED
    BY <2>1, PriceOf
<1>1. p \in Int /\ SqrtPrice[MinTick] <= p /\ p < SqrtPrice[MaxTick]
  BY <1>0
<1>2. MinTick \in S /\ S \in SUBSET (MinTick..MaxTick) /\ MaxTick \notin S
  BY <1>0, <1>1, TickRange
<1>3. PICK u \in S : u = TickAt(p) /\ \A y \in S : y <= u
  <2>1. Max(S) \in S /\ \A y \in S : y <= Max(S)
    BY <1>2, TickRange, MaxIs
  <2> QED
    BY <2>1, Zenon DEF TickAt
<1>4. u \in MinTick..(MaxTick - 1) /\ u + 1 \in Ticks /\ u \in Int
  BY <1>2, TickRange
<1>5. SqrtPrice[u] <= p
  OBVIOUS
<1>6. p < SqrtPrice[u + 1]
  <2>1. u + 1 \notin S
    <3>1. SUFFICES ASSUME u + 1 \in S PROVE FALSE
      OBVIOUS
    <3>2. u + 1 <= u
      BY <1>3, <3>1, Zenon
    <3> QED
      BY <1>4, <3>2
  <2>2. SqrtPrice[u + 1] \in Nat
    BY <1>4, PriceOf
  <2> QED
    BY <1>1, <1>4, <2>1, <2>2
<1> QED
  BY <1>3, <1>4, <1>5, <1>6, Zenon

\* The word of a tick starts at or before it and ends at or after it.
LEMMA WordOf ==
  ASSUME NEW s \in Int
  PROVE  /\ (s \div WordSize) * WordSize \in Int /\ (s \div WordSize) * WordSize <= s
         /\ s <= (s \div WordSize) * WordSize + WordSize - 1
         /\ (s \div WordSize) * WordSize + WordSize - 1 \in Int
         /\ ((s \div WordSize) * WordSize) % WordSize = 0
<1>1. PICK w \in Nat \ {0} : w = WordSize
  BY V3Assumption
<1>2. PICK q \in Int : q = s \div w /\ w * q <= s /\ s < w * q + w
  OBVIOUS
<1>3. PICK z \in Int : z = q * w /\ z = w * q
  OBVIOUS
<1>4. z % w = 0
  <2>1. PICK d \in Int, m \in Int : d = z \div w /\ m = z % w /\ z = w * d + m /\ 0 <= m /\ m < w
    OBVIOUS
  <2>2. m = w * (q - d) /\ q - d \in Int
    BY <1>3, <2>1
  <2>3. ~(q - d >= 1)
    <3>1. SUFFICES ASSUME q - d >= 1 PROVE FALSE
      OBVIOUS
    <3>2. w * (q - d) >= w
      BY <3>1
    <3> QED
      BY <2>1, <2>2, <3>2
  <2>4. ~(q - d <= -1)
    BY <2>1, <2>2
  <2>5. q - d = 0
    BY <2>2, <2>3, <2>4
  <2> QED
    BY <2>1, <2>2, <2>5
<1> QED
  BY <1>1, <1>2, <1>3, <1>4

\* Going down, no tick in use is passed over, and the edge of a word is not one.
LEMMA NextDown ==
  ASSUME NEW from \in MinTick..(MaxTick - 1), bitmap \subseteq Ticks
  PROVE  LET step == NextTick(from, TRUE)
         IN  /\ step.at \in MinTick..from
             /\ \A u \in (step.at + 1)..from : u \notin bitmap
             /\ step.initialized <=> step.at \in bitmap
             /\ step.initialized \/ step.at = MinTick \/ step.at % WordSize = 0
<1>0. from \in Int /\ MinTick <= from /\ from < MaxTick
  BY TickRange
<1>1. PICK first \in Int : /\ first = (from \div WordSize) * WordSize /\ first <= from
                           /\ first % WordSize = 0
  BY <1>0, WordOf
<1>2. PICK found : found = bitmap \cap (first..from)
  OBVIOUS
<1>3. PICK next : next = IF found = {} THEN first ELSE Max(found)
  OBVIOUS
<1>4. PICK at : at = IF next < MinTick THEN MinTick ELSE IF next > MaxTick THEN MaxTick ELSE next
  OBVIOUS
<1>5. NextTick(from, TRUE).at = at /\ NextTick(from, TRUE).initialized = (found # {})
  <2>1. NextTick(from, TRUE).at = at
    BY <1>1, <1>2, <1>3, <1>4, Zenon DEF NextTick
  <2>2. NextTick(from, TRUE).initialized = (found # {})
    BY <1>1, <1>2, <1>3, <1>4, Zenon DEF NextTick
  <2> QED
    BY <2>1, <2>2, Zenon
<1>6. SUFFICES /\ at \in MinTick..from
               /\ \A u \in (at + 1)..from : u \notin bitmap
               /\ found # {} <=> at \in bitmap
               /\ found # {} \/ at = MinTick \/ at % WordSize = 0
  BY <1>5, Zenon
<1>7. CASE found = {}
  <2>1. next = first
    BY <1>3, <1>7, Zenon
  <2>2. at \in Int /\ MinTick <= at /\ at <= from /\ first <= at
    BY <1>0, <1>1, <1>4, <2>1, TickRange
  <2>a. at = MinTick \/ at % WordSize = 0
    <3>1. at = MinTick \/ at = first
      BY <1>0, <1>1, <1>4, <2>1, TickRange
    <3> QED
      BY <1>1, <3>1, Zenon
  <2>3. \A u \in Int : at <= u /\ u <= from => u \notin bitmap
    BY <1>0, <1>1, <1>2, <1>7, <2>2
  <2>4. \A u \in (at + 1)..from : u \notin bitmap
    BY <1>0, <2>2, <2>3
  <2>5. at \notin bitmap /\ at \in MinTick..from
    BY <1>0, <2>2, <2>3, TickRange
  <2> QED
    BY <1>7, <2>a, <2>4, <2>5, Zenon
<1>8. CASE found # {}
  <2>1. found \in SUBSET (first..from)
    BY <1>2
  <2>2. Max(found) \in found /\ \A y \in found : y <= Max(found)
    BY <1>0, <1>1, <1>8, <2>1, MaxIs, Zenon
  <2>3. next \in found /\ \A y \in found : y <= next
    BY <1>3, <1>8, <2>2, Zenon
  <2>4. next \in bitmap /\ next \in Int /\ first <= next /\ next <= from /\ MinTick <= next
    BY <1>0, <1>1, <1>2, <2>3, TickRange
  <2>5. at = next
    BY <1>0, <1>4, <2>4, TickRange
  <2>6. \A u \in (at + 1)..from : u \notin bitmap
    <3>1. SUFFICES ASSUME NEW u \in (next + 1)..from, u \in bitmap PROVE FALSE
      BY <2>5, Zenon
    <3>2. u \in first..from /\ ~(u <= next)
      BY <1>0, <1>1, <2>4
    <3> QED
      BY <1>2, <2>3, <3>1, <3>2
  <2>7. at \in MinTick..from
    BY <1>0, <2>4, <2>5, TickRange
  <2> QED
    BY <1>8, <2>4, <2>5, <2>6, <2>7, Zenon
<1> QED
  BY <1>7, <1>8

\* Going up, likewise.
LEMMA NextUp ==
  ASSUME NEW from \in MinTick..(MaxTick - 1), bitmap \subseteq Ticks
  PROVE  LET step == NextTick(from, FALSE)
         IN  /\ step.at \in (from + 1)..MaxTick
             /\ \A u \in (from + 1)..(step.at - 1) : u \notin bitmap
             /\ step.initialized <=> step.at \in bitmap
             /\ step.initialized \/ step.at = MaxTick \/ (step.at + 1) % WordSize = 0
<1>0. PICK start \in Int : /\ start = from + 1 /\ MinTick < start /\ start <= MaxTick
                          /\ from \in Int
  BY TickRange
<1>1. PICK last \in Int : /\ last = (start \div WordSize) * WordSize + WordSize - 1
                         /\ start <= last /\ (last + 1) % WordSize = 0
  <2>1. PICK z \in Int : /\ z = (start \div WordSize) * WordSize /\ z % WordSize = 0
                         /\ start <= z + WordSize - 1 /\ z + WordSize - 1 \in Int
    BY <1>0, WordOf
  <2>2. PICK w \in Nat \ {0} : w = WordSize
    BY V3Assumption
  <2>3. (z + w) % w = 0
    <3>1. (z + w) % w = z % w
      BY <2>1, <2>2
    <3> QED
      BY <2>1, <2>2, <3>1
  <2>4. (z + w - 1) + 1 = z + w
    OBVIOUS
  <2> QED
    BY <2>1, <2>2, <2>3, <2>4
<1>2. PICK found : found = bitmap \cap (start..last)
  OBVIOUS
<1>3. PICK next : next = IF found = {} THEN last ELSE Min(found)
  OBVIOUS
<1>4. PICK at : at = IF next < MinTick THEN MinTick ELSE IF next > MaxTick THEN MaxTick ELSE next
  OBVIOUS
<1>5. NextTick(from, FALSE).at = at /\ NextTick(from, FALSE).initialized = (found # {})
  <2>1. NextTick(from, FALSE).at = at
    BY <1>0, <1>1, <1>2, <1>3, <1>4, Zenon DEF NextTick
  <2>2. NextTick(from, FALSE).initialized = (found # {})
    BY <1>0, <1>1, <1>2, <1>3, <1>4, Zenon DEF NextTick
  <2> QED
    BY <2>1, <2>2, Zenon
<1>6. SUFFICES /\ at \in start..MaxTick
               /\ \A u \in start..(at - 1) : u \notin bitmap
               /\ found # {} <=> at \in bitmap
               /\ found # {} \/ at = MaxTick \/ (at + 1) % WordSize = 0
  BY <1>0, <1>5, Zenon
<1>7. CASE found = {}
  <2>1. next = last
    BY <1>3, <1>7, Zenon
  <2>2. at \in Int /\ start <= at /\ at <= MaxTick /\ at <= last
    BY <1>0, <1>1, <1>4, <2>1, TickRange
  <2>a. at = MaxTick \/ (at + 1) % WordSize = 0
    <3>1. at = MaxTick \/ at = last
      BY <1>0, <1>1, <1>4, <2>1, TickRange
    <3> QED
      BY <1>1, <3>1, Zenon
  <2>3. \A u \in Int : start <= u /\ u <= at => u \notin bitmap
    BY <1>0, <1>1, <1>2, <1>7, <2>2
  <2>4. \A u \in start..(at - 1) : u \notin bitmap
    BY <1>0, <2>2, <2>3
  <2>5. at \notin bitmap /\ at \in start..MaxTick
    BY <1>0, <2>2, <2>3, TickRange
  <2> QED
    BY <1>7, <2>a, <2>4, <2>5, Zenon
<1>8. CASE found # {}
  <2>1. found \in SUBSET (start..last)
    BY <1>2
  <2>2. Min(found) \in found /\ \A y \in found : Min(found) <= y
    BY <1>0, <1>1, <1>8, <2>1, MinIs, Zenon
  <2>3. next \in found /\ \A y \in found : next <= y
    BY <1>3, <1>8, <2>2, Zenon
  <2>4. next \in bitmap /\ next \in Int /\ start <= next /\ next <= last /\ next <= MaxTick
    BY <1>0, <1>1, <1>2, <2>3, TickRange
  <2>5. at = next
    BY <1>0, <1>4, <2>4, TickRange
  <2>6. \A u \in start..(at - 1) : u \notin bitmap
    <3>1. SUFFICES ASSUME NEW u \in start..(next - 1), u \in bitmap PROVE FALSE
      BY <2>5, Zenon
    <3>2. u \in start..last /\ ~(next <= u)
      BY <1>0, <1>1, <2>4
    <3> QED
      BY <1>2, <2>3, <3>1, <3>2
  <2>7. at \in start..MaxTick
    BY <1>0, <2>4, <2>5, TickRange
  <2> QED
    BY <1>8, <2>4, <2>5, <2>6, <2>7, Zenon
<1> QED
  BY <1>7, <1>8

-----------------------------------------------------------------------------
(***************************************************************************)
(* The totals of the pool at the ticks: between two ticks in use the       *)
(* active liquidity is the same, and crossing one changes it by its net.   *)
(***************************************************************************)
\* The sum of two functions.
LEMMA SumOfBoth ==
  ASSUME NEW S, IsFiniteSet(S), NEW f \in [S -> Int], NEW g \in [S -> Int], NEW h \in [S -> Int],
         \A x \in S : h[x] = f[x] + g[x]
  PROVE  SumFunction(h) = SumFunction(f) + SumFunction(g)
<1>1. \A x \in S : h[x] = 1 * f[x] + 1 * g[x]
  <2>1. SUFFICES ASSUME NEW x \in S PROVE h[x] = 1 * f[x] + 1 * g[x]
    OBVIOUS
  <2>2. h[x] = f[x] + g[x] /\ f[x] \in Int /\ g[x] \in Int
    OBVIOUS
  <2> QED
    BY <2>2
<1>2. SumFunction(h) = 1 * SumFunction(f) + 1 * SumFunction(g)
  <2>1. 1 \in Int
    OBVIOUS
  <2> QED
    BY <1>1, <2>1, SumOfLinear
<1>3. SumFunction(f) \in Int /\ SumFunction(g) \in Int
  BY SumInt
<1> QED
  BY <1>2, <1>3

\* The sum of a difference.
LEMMA SumOfRest ==
  ASSUME NEW S, IsFiniteSet(S), NEW f \in [S -> Int], NEW g \in [S -> Int], NEW h \in [S -> Int],
         \A x \in S : h[x] = f[x] - g[x]
  PROVE  SumFunction(h) = SumFunction(f) - SumFunction(g)
<1>1. \A x \in S : f[x] = h[x] + g[x]
  <2>1. SUFFICES ASSUME NEW x \in S PROVE f[x] = h[x] + g[x]
    OBVIOUS
  <2>2. h[x] = f[x] - g[x] /\ f[x] \in Int /\ g[x] \in Int
    OBVIOUS
  <2> QED
    BY <2>2
<1>2. SumFunction(f) = SumFunction(h) + SumFunction(g)
  BY <1>1, SumOfBoth
<1>3. SumFunction(f) \in Int /\ SumFunction(g) \in Int /\ SumFunction(h) \in Int
  BY SumInt
<1>4. \A a, b, c \in Int : a = c + b => c = a - b
  OBVIOUS
<1> QED
  BY <1>2, <1>3, <1>4, Zenon

\* The keys of positions are finitely many, each an owner and a range of two ticks.
LEMMA KeysAre ==
  /\ IsFiniteSet(Keys)
  /\ \A k \in Keys : /\ k[1] \in Owners /\ k[2] \in Ranges /\ k = <<k[1], k[2]>>
                     /\ k[2][1] \in Ticks /\ k[2][2] \in Ticks /\ k[2][1] < k[2][2]
                     /\ k[2][1] \in Int /\ k[2][2] \in Int
<1>1. IsFiniteSet(Ticks)
  BY TickRange, FS_Interval
<1>2. IsFiniteSet(Ticks \X Ticks)
  BY <1>1, FS_Product
<1>3. Ranges \subseteq Ticks \X Ticks /\ \A r \in Ranges : r[1] < r[2]
  BY V3Assumption
<1>4. IsFiniteSet(Ranges)
  BY <1>2, <1>3, FS_Subset
<1>5. IsFiniteSet(Owners)
  <2>1. IsFiniteSet({"lp"}) /\ Owners = {"lp"} \cup {"manager"}
    BY FS_Singleton DEF Owners
  <2> QED
    BY <2>1, FS_AddElement
<1>6. IsFiniteSet(Keys)
  BY <1>4, <1>5, FS_Product DEF Keys
<1>7. \A r \in Ranges : r[1] \in Ticks /\ r[2] \in Ticks /\ r[1] \in Int /\ r[2] \in Int
  <2>1. \A r \in Ranges : r[1] \in Ticks /\ r[2] \in Ticks
    BY <1>3
  <2>2. \A t \in Ticks : t \in Int
    BY TickRange
  <2> QED
    BY <2>1, <2>2
<1>8. ASSUME NEW k \in Keys
      PROVE  k[1] \in Owners /\ k[2] \in Ranges /\ k = <<k[1], k[2]>>
  BY DEF Keys
<1> QED
  BY <1>3, <1>6, <1>7, <1>8

\* What counts of each position at a tick is natural.
LEMMA SharesAre ==
  ASSUME V3TypeOK, NEW t \in Int
  PROVE  InForce(t) \in [Keys -> Nat] /\ Starting(t) \in [Keys -> Nat] /\ Ending(t) \in [Keys -> Nat]
<1>1. \A k \in Keys : positions[k].liq \in Nat
  BY DEF V3TypeOK
<1> QED
  BY <1>1 DEF InForce, Starting, Ending

\* The liquidity in force at a tick is that at the tick before and the tick's net.
LEMMA ForceAt ==
  ASSUME V3TypeOK, Booked, NEW t \in Ticks
  PROVE  SumFunction(InForce(t)) = SumFunction(InForce(t - 1)) + net[t]
<1>1. t \in Int /\ t - 1 \in Int
  BY TickRange
<1>2. PICK f \in [Keys -> Nat], u \in [Keys -> Nat], v \in [Keys -> Nat], g \in [Keys -> Nat] :
        f = InForce(t - 1) /\ u = Starting(t) /\ v = Ending(t) /\ g = InForce(t)
  BY <1>1, SharesAre
<1>3. \A k \in Keys : g[k] = f[k] + (u[k] - v[k])
  <2>1. SUFFICES ASSUME NEW k \in Keys PROVE g[k] = f[k] + (u[k] - v[k])
    OBVIOUS
  <2>2. PICK a \in Int, b \in Int : a = k[2][1] /\ b = k[2][2] /\ a < b
    BY KeysAre, Zenon
  <2>3. PICK q \in Nat : q = positions[k].liq
    BY DEF V3TypeOK
  <2>4. /\ g[k] = (IF a <= t /\ t < b THEN q ELSE 0)
        /\ f[k] = (IF a <= t - 1 /\ t - 1 < b THEN q ELSE 0)
        /\ u[k] = (IF a = t THEN q ELSE 0) /\ v[k] = (IF b = t THEN q ELSE 0)
    BY <1>2, <2>2, <2>3 DEF InForce, Starting, Ending
  <2> QED
    BY <1>1, <2>2, <2>3, <2>4
<1>4. PICK d \in [Keys -> Int] : \A k \in Keys : d[k] = u[k] - v[k]
  <2>1. [k \in Keys |-> u[k] - v[k]] \in [Keys -> Int]
    OBVIOUS
  <2> QED
    BY <2>1
<1>5. IsFiniteSet(Keys) /\ f \in [Keys -> Int] /\ u \in [Keys -> Int] /\ v \in [Keys -> Int]
      /\ g \in [Keys -> Int]
  BY KeysAre
<1>6. SumFunction(d) = SumFunction(u) - SumFunction(v)
  BY <1>4, <1>5, SumOfRest
<1>7. SumFunction(g) = SumFunction(f) + SumFunction(d)
  <2>1. \A k \in Keys : g[k] = f[k] + d[k]
    BY <1>3, <1>4
  <2> QED
    BY <1>5, <2>1, SumOfBoth
<1>8. net[t] = SumFunction(u) - SumFunction(v)
  BY <1>2 DEF Booked
<1> QED
  BY <1>2, <1>6, <1>7, <1>8, Zenon

\* No position ends at a tick whose bit is not set.
LEMMA QuietTick ==
  ASSUME V3TypeOK, Booked, NEW u \in Ticks, u \notin bitmap
  PROVE  /\ net[u] = 0
         /\ \A k \in Keys : k[2][1] = u \/ k[2][2] = u => positions[k].liq = 0
<1>0. u \in Int
  BY TickRange
<1>1. PICK f \in [Keys -> Nat], g \in [Keys -> Nat] : f = Starting(u) /\ g = Ending(u)
  BY <1>0, SharesAre
<1>2. /\ SumFunction(f) \in Nat /\ \A k \in Keys : f[k] <= SumFunction(f)
      /\ SumFunction(g) \in Nat /\ \A k \in Keys : g[k] <= SumFunction(g)
  BY KeysAre, SumNat
<1>3. gross[u] = SumFunction(f) + SumFunction(g) /\ net[u] = SumFunction(f) - SumFunction(g)
      /\ ~(gross[u] > 0)
  BY <1>1 DEF Booked
<1>4. SumFunction(f) = 0 /\ SumFunction(g) = 0
  BY <1>2, <1>3
<1>5. \A k \in Keys : f[k] = 0 /\ g[k] = 0
  BY <1>2, <1>4
<1>6. ASSUME NEW k \in Keys, k[2][1] = u \/ k[2][2] = u PROVE positions[k].liq = 0
  <2>1. f[k] = (IF k[2][1] = u THEN positions[k].liq ELSE 0)
        /\ g[k] = (IF k[2][2] = u THEN positions[k].liq ELSE 0)
    BY <1>1 DEF Starting, Ending
  <2> QED
    BY <1>5, <1>6, <2>1
<1> QED
  BY <1>3, <1>4, <1>6

\* What is in force is the same on both sides of ticks not in use.
LEMMA ForcePassed ==
  ASSUME V3TypeOK, Booked, NEW a \in MinTick..MaxTick, NEW b \in MinTick..MaxTick, a <= b,
         \A u \in (a + 1)..b : u \notin bitmap
  PROVE  InForce(a) = InForce(b)
<1>1. SUFFICES ASSUME NEW k \in Keys PROVE InForce(a)[k] = InForce(b)[k]
  BY DEF InForce
<1>2. PICK c \in Int, d \in Int : c = k[2][1] /\ d = k[2][2] /\ c < d /\ c \in Ticks /\ d \in Ticks
  BY KeysAre, TickRange
<1>3. PICK q \in Nat : q = positions[k].liq
  BY DEF V3TypeOK
<1>4. /\ InForce(a)[k] = (IF c <= a /\ a < d THEN q ELSE 0)
      /\ InForce(b)[k] = (IF c <= b /\ b < d THEN q ELSE 0)
  BY <1>2, <1>3 DEF InForce
<1>5. a \in Int /\ b \in Int
  BY TickRange
<1>6. c \notin bitmap => q = 0
  BY <1>2, <1>3, QuietTick
<1>7. d \notin bitmap => q = 0
  BY <1>2, <1>3, QuietTick
<1>8. CASE q = 0
  BY <1>4, <1>8
<1>9. CASE q # 0
  <2>1. c \notin (a + 1)..b /\ d \notin (a + 1)..b
    BY <1>6, <1>7, <1>9
  <2> QED
    BY <1>2, <1>4, <1>5, <2>1
<1> QED
  BY <1>8, <1>9

-----------------------------------------------------------------------------
(***************************************************************************)
(* What positions have at stake, exactly: the prices of all ticks have a   *)
(* common multiple, with which every share is an integer.                  *)
(***************************************************************************)
\* The prices of all ticks have a common multiple, by induction over the ticks.
LEMMA CommonExists == \E m \in Nat \ {0} : IsCommon(m)
<1> DEFINE S == {k \in Nat : \E m \in Nat \ {0} : \A t \in Ticks : t < MinTick + k =>
                                \E q \in Nat \ {0} : m = SqrtPrice[t] * q}
<1>1. 0 \in S
  <2>1. \A t \in Ticks : ~(t < MinTick + 0)
    BY TickRange
  <2> QED
    BY <2>1
<1>2. \A k \in Nat : k \in S => k + 1 \in S
  <2>1. SUFFICES ASSUME NEW k \in Nat, k \in S PROVE k + 1 \in S
    OBVIOUS
  <2>2. PICK m \in Nat \ {0} : \A t \in Ticks : t < MinTick + k =>
                                 \E q \in Nat \ {0} : m = SqrtPrice[t] * q
    BY <2>1
  <2>3. CASE MinTick + k \notin Ticks
    <3>1. \A t \in Ticks : t < MinTick + (k + 1) => t < MinTick + k
      BY <2>3, TickRange
    <3> QED
      BY <2>2, <3>1
  <2>4. CASE MinTick + k \in Ticks
    <3>1. PICK x \in Nat \ {0} : x = SqrtPrice[MinTick + k]
      BY <2>4, PriceOf
    <3>2. PICK l \in Nat \ {0} : l = x * m
      BY MulCount, MulPositive
    <3>3. ASSUME NEW t \in Ticks, t < MinTick + (k + 1)
          PROVE  \E q \in Nat \ {0} : l = SqrtPrice[t] * q
      <4>1. CASE t = MinTick + k
        BY <3>1, <3>2, <4>1
      <4>2. CASE t # MinTick + k
        <5>1. t < MinTick + k
          BY <3>3, <4>2, TickRange
        <5>2. PICK q \in Nat \ {0}, y \in Nat \ {0} : m = y * q /\ y = SqrtPrice[t]
          BY <2>2, <5>1, PriceOf
        <5>3. PICK z \in Nat \ {0} : z = x * q
          BY MulCount, MulPositive
        <5>4. x * (y * q) = y * (x * q)
          OBVIOUS
        <5>5. l = SqrtPrice[t] * z
          BY <3>2, <5>2, <5>3, <5>4, Zenon
        <5> QED
          BY <5>5
      <4> QED
        BY <4>1, <4>2
    <3> QED
      BY <3>3
  <2> QED
    BY <2>3, <2>4
<1> HIDE DEF S
<1>3. \A k \in Nat : k \in S
  BY <1>1, <1>2, Induction
<1>4. PICK n \in Nat : n = MaxTick - MinTick + 1
  BY TickRange
<1>5. PICK m \in Nat \ {0} : \A t \in Ticks : t < MinTick + n =>
                                \E q \in Nat \ {0} : m = SqrtPrice[t] * q
  <2>1. n \in S
    BY <1>3
  <2> QED
    BY <2>1 DEF S
<1>6. \A t \in Ticks : t < MinTick + n
  BY <1>4, TickRange
<1> QED
  BY <1>5, <1>6 DEF IsCommon

\* The common multiple is positive, and a multiple of the price of every tick.
LEMMA CommonIs ==
  /\ Common \in Nat \ {0}
  /\ \A t \in Ticks : PerTick(t) \in Nat \ {0} /\ Common = SqrtPrice[t] * PerTick(t)
<1>1. Common \in Nat \ {0} /\ IsCommon(Common)
  BY CommonExists DEF Common
<1>2. \A t \in Ticks : PerTick(t) \in Nat \ {0} /\ Common = SqrtPrice[t] * PerTick(t)
  BY <1>1 DEF IsCommon, PerTick
<1> QED
  BY <1>1, <1>2

\* The shares of a unit of liquidity are integers.
LEMMA SharesInt ==
  ASSUME NEW r \in Ranges, NEW p \in Nat, NEW t \in Int
  PROVE  Share0(r, p, t) \in Int /\ Share1(r, p, t) \in Int
<1>1. r[1] \in Ticks /\ r[2] \in Ticks
  BY V3Assumption
<1>2. PICK x \in Nat, y \in Nat : x = PerTick(r[1]) /\ y = PerTick(r[2])
  BY <1>1, CommonIs
<1>3. PICK a \in Nat, b \in Nat : a = SqrtPrice[r[1]] /\ b = SqrtPrice[r[2]]
  BY <1>1, PriceOf
<1>4. Common \in Int
  BY CommonIs
<1>5. p * (x - y) \in Int /\ Common - p * y \in Int /\ p - a \in Int /\ b - a \in Int
  BY <1>4
<1>6. Share0(r, p, t) = IF t < r[1] THEN p * (x - y) ELSE IF t < r[2] THEN Common - p * y ELSE 0
  BY <1>2, Zenon DEF Share0
<1>7. Share1(r, p, t) = IF t < r[1] THEN 0 ELSE IF t < r[2] THEN p - a ELSE b - a
  BY <1>3, Zenon DEF Share1
<1>8. 0 \in Int
  OBVIOUS
<1> QED
  BY <1>5, <1>6, <1>7, <1>8, Zenon

\* The stakes of the positions are integers.
LEMMA StakesInt ==
  ASSUME V3TypeOK, NEW p \in Nat, NEW t \in Int
  PROVE  Stake0(p, t) \in [Keys -> Int] /\ Stake1(p, t) \in [Keys -> Int]
<1>1. ASSUME NEW k \in Keys
      PROVE  positions[k].liq * Share0(k[2], p, t) \in Int /\ positions[k].liq * Share1(k[2], p, t) \in Int
  <2>1. k[2] \in Ranges
    BY KeysAre
  <2>2. positions[k].liq \in Int
    BY DEF V3TypeOK
  <2>3. Share0(k[2], p, t) \in Int /\ Share1(k[2], p, t) \in Int
    BY <2>1, SharesInt
  <2> QED
    BY <2>2, <2>3
<1> QED
  BY <1>1 DEF Stake0, Stake1

\* The shares when the price moves within a tick.
LEMMA ShareMoves ==
  ASSUME NEW r \in Ranges, NEW p \in Nat, NEW n \in Nat, NEW t \in Int, NEW q \in Nat
  PROVE  /\ q * Share1(r, n, t) = q * Share1(r, p, t)
                                  + (n - p) * (IF r[1] <= t /\ t < r[2] THEN q ELSE 0)
         /\ p * (q * Share0(r, n, t)) = n * (q * Share0(r, p, t))
              + ((p - n) * Common) * (IF r[1] <= t /\ t < r[2] THEN q ELSE 0)
<1>1. PICK c \in Int, d \in Int : c = r[1] /\ d = r[2] /\ c < d /\ c \in Ticks /\ d \in Ticks
  BY V3Assumption, TickRange
<1>2. PICK x \in Nat, y \in Nat : x = PerTick(c) /\ y = PerTick(d)
  BY <1>1, CommonIs
<1>3. PICK a \in Nat, b \in Nat : a = SqrtPrice[c] /\ b = SqrtPrice[d]
  BY <1>1, PriceOf
<1>4. PICK m \in Nat : m = Common
  BY CommonIs
<1>5. PICK i : i = IF c <= t /\ t < d THEN q ELSE 0
  OBVIOUS
<1>6. \A z : Share0(r, z, t) = IF t < c THEN z * (x - y) ELSE IF t < d THEN m - z * y ELSE 0
  BY <1>1, <1>2, <1>4, Zenon DEF Share0
<1>7. \A z : Share1(r, z, t) = IF t < c THEN 0 ELSE IF t < d THEN z - a ELSE b - a
  BY <1>1, <1>3, Zenon DEF Share1
<1>8. SUFFICES /\ q * Share1(r, n, t) = q * Share1(r, p, t) + (n - p) * i
               /\ p * (q * Share0(r, n, t)) = n * (q * Share0(r, p, t)) + ((p - n) * m) * i
  BY <1>1, <1>4, <1>5, Zenon
<1>9. CASE t < c
  <2>1. i = 0 /\ ~(c <= t)
    BY <1>1, <1>5, <1>9
  <2>2. Share0(r, n, t) = n * (x - y) /\ Share0(r, p, t) = p * (x - y)
        /\ Share1(r, n, t) = 0 /\ Share1(r, p, t) = 0
    BY <1>6, <1>7, <1>9, Zenon
  <2>3. p * (q * (n * (x - y))) = n * (q * (p * (x - y))) + ((p - n) * m) * 0
    <3>1. ((p - n) * m) * 0 = 0
      OBVIOUS
    <3>2. p * (q * (n * (x - y))) = n * (q * (p * (x - y))) /\ n * (q * (p * (x - y))) \in Int
      OBVIOUS
    <3> QED
      BY <3>1, <3>2
  <2>4. q * 0 = q * 0 + (n - p) * 0
    OBVIOUS
  <2> QED
    BY <2>1, <2>2, <2>3, <2>4, Zenon
<1>10. CASE c <= t /\ t < d
  <2>1. i = q /\ ~(t < c)
    BY <1>1, <1>5, <1>10
  <2>2. Share0(r, n, t) = m - n * y /\ Share0(r, p, t) = m - p * y
        /\ Share1(r, n, t) = n - a /\ Share1(r, p, t) = p - a
    BY <1>6, <1>7, <1>10, <2>1, Zenon
  <2>3. p * (q * (m - n * y)) = n * (q * (m - p * y)) + ((p - n) * m) * q
    OBVIOUS
  <2>4. q * (n - a) = q * (p - a) + (n - p) * q
    OBVIOUS
  <2> QED
    BY <2>1, <2>2, <2>3, <2>4, Zenon
<1>11. CASE ~(t < d) /\ ~(t < c)
  <2>1. i = 0
    BY <1>5, <1>11
  <2>2. Share0(r, n, t) = 0 /\ Share0(r, p, t) = 0
        /\ Share1(r, n, t) = b - a /\ Share1(r, p, t) = b - a
    BY <1>6, <1>7, <1>11, Zenon
  <2>3. p * (q * 0) = n * (q * 0) + ((p - n) * m) * 0
    OBVIOUS
  <2>4. q * (b - a) = q * (b - a) + (n - p) * 0
    OBVIOUS
  <2> QED
    BY <2>1, <2>2, <2>3, <2>4, Zenon
<1>12. t < c \/ (c <= t /\ t < d) \/ (~(t < d) /\ ~(t < c))
  BY <1>1
<1> QED
  BY <1>9, <1>10, <1>11, <1>12

\* What all positions are worth when the price moves within a tick.
LEMMA StakesMove ==
  ASSUME V3TypeOK, NEW p \in Nat, NEW n \in Nat, NEW t \in Int
  PROVE  /\ SumFunction(Stake1(n, t)) = SumFunction(Stake1(p, t)) + (n - p) * SumFunction(InForce(t))
         /\ p * SumFunction(Stake0(n, t))
              = n * SumFunction(Stake0(p, t)) + ((p - n) * Common) * SumFunction(InForce(t))
<1>1. PICK f \in [Keys -> Int], fn \in [Keys -> Int], g \in [Keys -> Int], gn \in [Keys -> Int] :
        f = Stake0(p, t) /\ fn = Stake0(n, t) /\ g = Stake1(p, t) /\ gn = Stake1(n, t)
  BY StakesInt
<1>2. PICK w \in [Keys -> Int] : w = InForce(t)
  <2>1. InForce(t) \in [Keys -> Nat]
    BY SharesAre
  <2>2. InForce(t) \in [Keys -> Int]
    BY <2>1
  <2> QED
    BY <2>2
<1>3. PICK c \in Int, d \in Int : c = (p - n) * Common /\ d = n - p
  <2>1. Common \in Int /\ p - n \in Int /\ n - p \in Int
    BY CommonIs
  <2>2. (p - n) * Common \in Int
    BY <2>1
  <2> QED
    BY <2>1, <2>2
<1>4. \A k \in Keys : gn[k] = g[k] + d * w[k] /\ p * fn[k] = n * f[k] + c * w[k]
  <2>1. SUFFICES ASSUME NEW k \in Keys
                 PROVE  gn[k] = g[k] + d * w[k] /\ p * fn[k] = n * f[k] + c * w[k]
    OBVIOUS
  <2>2. PICK q \in Nat, r \in Ranges : q = positions[k].liq /\ r = k[2]
    BY KeysAre DEF V3TypeOK
  <2>3. /\ fn[k] = q * Share0(r, n, t) /\ f[k] = q * Share0(r, p, t)
        /\ gn[k] = q * Share1(r, n, t) /\ g[k] = q * Share1(r, p, t)
        /\ w[k] = IF r[1] <= t /\ t < r[2] THEN q ELSE 0
    BY <1>1, <1>2, <2>2, Zenon DEF Stake0, Stake1, InForce
  <2>4. /\ q * Share1(r, n, t) = q * Share1(r, p, t)
                                   + (n - p) * (IF r[1] <= t /\ t < r[2] THEN q ELSE 0)
        /\ p * (q * Share0(r, n, t)) = n * (q * Share0(r, p, t))
              + ((p - n) * Common) * (IF r[1] <= t /\ t < r[2] THEN q ELSE 0)
    BY ShareMoves
  <2> QED
    BY <1>3, <2>3, <2>4, Zenon
<1>5. IsFiniteSet(Keys) /\ p \in Int /\ n \in Int /\ 1 \in Int /\ 0 \in Int
  BY KeysAre
<1>6. SumFunction(gn) = 1 * SumFunction(g) + d * SumFunction(w)
  <2>1. \A k \in Keys : gn[k] = 1 * g[k] + d * w[k]
    <3>1. \A k \in Keys : 1 * g[k] = g[k]
      OBVIOUS
    <3> QED
      BY <1>4, <3>1, Zenon
  <2>2. PICK one \in Int : one = 1
    OBVIOUS
  <2>3. \A k \in Keys : gn[k] = one * g[k] + d * w[k]
    BY <2>1, <2>2, Zenon
  <2>4. SumFunction(gn) = one * SumFunction(g) + d * SumFunction(w)
    BY <1>5, <2>3, SumOfLinear
  <2> QED
    BY <2>2, <2>4, Zenon
<1>7. PICK e \in [Keys -> Int] : \A k \in Keys : e[k] = p * fn[k]
  <2>1. [k \in Keys |-> p * fn[k]] \in [Keys -> Int]
    OBVIOUS
  <2> QED
    BY <2>1
<1>8. SumFunction(e) = n * SumFunction(f) + c * SumFunction(w)
  <2>1. \A k \in Keys : e[k] = n * f[k] + c * w[k]
    BY <1>4, <1>7, Zenon
  <2> QED
    BY <1>5, <2>1, SumOfLinear
<1>9. SumFunction(e) = p * SumFunction(fn) + 0 * SumFunction(w)
  <2>1. \A k \in Keys : e[k] = p * fn[k] + 0 * w[k]
    <3>1. \A k \in Keys : p * fn[k] + 0 * w[k] = p * fn[k]
      <4>1. SUFFICES ASSUME NEW k \in Keys PROVE p * fn[k] + 0 * w[k] = p * fn[k]
        OBVIOUS
      <4>2. fn[k] \in Int /\ w[k] \in Int
        OBVIOUS
      <4> QED
        BY <4>2
    <3> QED
      BY <1>7, <3>1, Zenon
  <2> QED
    BY <1>5, <2>1, SumOfLinear
<1>10. SumFunction(g) \in Int /\ SumFunction(w) \in Int /\ SumFunction(fn) \in Int
  BY <1>5, SumInt
<1>11. p * SumFunction(fn) = n * SumFunction(f) + c * SumFunction(w)
  <2>1. p * SumFunction(fn) + 0 * SumFunction(w) = p * SumFunction(fn)
    BY <1>10
  <2> QED
    BY <1>8, <1>9, <2>1, Zenon
<1>12. SumFunction(gn) = SumFunction(g) + d * SumFunction(w)
  <2>1. 1 * SumFunction(g) = SumFunction(g)
    BY <1>10
  <2> QED
    BY <1>6, <2>1, Zenon
<1> QED
  BY <1>1, <1>2, <1>3, <1>11, <1>12, Zenon

\* A price may count to either side of ticks that are not in use or have that price.
LEMMA StakesHeld ==
  ASSUME V3TypeOK, Booked, NEW p \in Nat,
         NEW a \in MinTick..MaxTick, NEW b \in MinTick..MaxTick, a <= b,
         \A u \in (a + 1)..b : u \notin bitmap \/ SqrtPrice[u] = p
  PROVE  Stake0(p, a) = Stake0(p, b) /\ Stake1(p, a) = Stake1(p, b)
<1>1. SUFFICES ASSUME NEW k \in Keys
               PROVE  /\ positions[k].liq * Share0(k[2], p, a) = positions[k].liq * Share0(k[2], p, b)
                      /\ positions[k].liq * Share1(k[2], p, a) = positions[k].liq * Share1(k[2], p, b)
  BY Zenon DEF Stake0, Stake1
<1>2. PICK c \in Int, d \in Int : c = k[2][1] /\ d = k[2][2] /\ c < d /\ c \in Ticks /\ d \in Ticks
  BY KeysAre, Zenon
<1>3. PICK q \in Nat : q = positions[k].liq
  BY DEF V3TypeOK
<1>4. PICK x \in Nat, y \in Nat, m \in Nat :
        x = PerTick(c) /\ y = PerTick(d) /\ m = Common /\ m = SqrtPrice[c] * x /\ m = SqrtPrice[d] * y
  BY <1>2, CommonIs
<1>5. PICK A \in Nat, B \in Nat : A = SqrtPrice[c] /\ B = SqrtPrice[d]
  BY <1>2, PriceOf
<1>6. A # B
  BY <1>2, <1>5, Rising
<1>7. \A z : Share0(k[2], p, z) = IF z < c THEN p * (x - y) ELSE IF z < d THEN m - p * y ELSE 0
  BY <1>2, <1>4, Zenon DEF Share0
<1>8. \A z : Share1(k[2], p, z) = IF z < c THEN 0 ELSE IF z < d THEN p - A ELSE B - A
  BY <1>2, <1>5, Zenon DEF Share1
<1>9. a \in Int /\ b \in Int
  BY TickRange
<1>10. CASE q = 0
  <2>1. Share0(k[2], p, a) \in Int /\ Share0(k[2], p, b) \in Int
        /\ Share1(k[2], p, a) \in Int /\ Share1(k[2], p, b) \in Int
    BY <1>9, KeysAre, SharesInt
  <2>2. \A z \in Int : 0 * z = 0
    OBVIOUS
  <2> QED
    BY <1>3, <1>10, <2>1, <2>2, Zenon
<1>11. CASE q # 0
  <2>1. c \in bitmap /\ d \in bitmap
    BY <1>2, <1>3, <1>11, QuietTick
  <2>2. c \in (a + 1)..b => A = p
    BY <1>5, <2>1
  <2>3. d \in (a + 1)..b => B = p
    BY <1>5, <2>1
  <2>4. c \in (a + 1)..b => p * x = m
    BY <1>4, <1>5, <2>2, Zenon
  <2>5. d \in (a + 1)..b => p * y = m
    BY <1>4, <1>5, <2>3, Zenon
  <2>6. p * (x - y) = p * x - p * y /\ p * x \in Int /\ p * y \in Int
    OBVIOUS
  <2>7. CASE c \in (a + 1)..b
    <3>1. d \notin (a + 1)..b
      BY <1>6, <2>2, <2>3, <2>7
    <3>2. a < c /\ ~(b < c) /\ b < d
      BY <1>2, <1>9, <2>7, <3>1
    <3>3. /\ Share0(k[2], p, a) = p * (x - y) /\ Share0(k[2], p, b) = m - p * y
          /\ Share1(k[2], p, a) = 0 /\ Share1(k[2], p, b) = p - A
      BY <1>7, <1>8, <3>2, Zenon
    <3>4. p * (x - y) = m - p * y /\ 0 = p - A
      BY <2>2, <2>4, <2>6, <2>7
    <3> QED
      BY <3>3, <3>4, Zenon
  <2>8. CASE d \in (a + 1)..b
    <3>1. c \notin (a + 1)..b
      BY <1>6, <2>2, <2>3, <2>8
    <3>2. ~(a < c) /\ ~(b < c) /\ a < d /\ ~(b < d)
      BY <1>2, <1>9, <2>8, <3>1
    <3>3. /\ Share0(k[2], p, a) = m - p * y /\ Share0(k[2], p, b) = 0
          /\ Share1(k[2], p, a) = p - A /\ Share1(k[2], p, b) = B - A
      BY <1>7, <1>8, <3>2, Zenon
    <3>4. m - p * y = 0 /\ p - A = B - A
      BY <2>3, <2>5, <2>8
    <3> QED
      BY <3>3, <3>4, Zenon
  <2>9. CASE c \notin (a + 1)..b /\ d \notin (a + 1)..b
    <3>1. (a < c) = (b < c) /\ (a < d) = (b < d)
      BY <1>2, <1>9, <2>9
    <3>2. Share0(k[2], p, a) = Share0(k[2], p, b) /\ Share1(k[2], p, a) = Share1(k[2], p, b)
      BY <1>7, <1>8, <3>1, Zenon
    <3> QED
      BY <3>2, Zenon
  <2> QED
    BY <2>7, <2>8, <2>9
<1> QED
  BY <1>10, <1>11

\* What is owed in each token is a natural sum.
LEMMA OwedSums ==
  ASSUME V3TypeOK, NEW i \in 1..2
  PROVE  Owed(i) \in [Keys -> Nat] /\ SumFunction(Owed(i)) \in Nat
<1>1. Owed(i) \in [Keys -> Nat]
  <2>1. \A k \in Keys : positions[k].owed[1] \in Nat /\ positions[k].owed[2] \in Nat
    BY DEF V3TypeOK
  <2>2. i = 1 \/ i = 2
    OBVIOUS
  <2> QED
    BY <2>1, <2>2 DEF Owed
<1>2. PICK f \in [Keys -> Nat] : f = Owed(i)
  BY <1>1
<1>3. SumFunction(f) \in Nat
  BY KeysAre, SumNat
<1> QED
  BY <1>1, <1>2, <1>3

\* The sums of the stakes are integers.
LEMMA StakeSums ==
  ASSUME V3TypeOK, NEW p \in Nat, NEW t \in Int
  PROVE  SumFunction(Stake0(p, t)) \in Int /\ SumFunction(Stake1(p, t)) \in Int
<1>1. PICK f \in [Keys -> Int], g \in [Keys -> Int] : f = Stake0(p, t) /\ g = Stake1(p, t)
  BY StakesInt
<1>2. SumFunction(f) \in Int /\ SumFunction(g) \in Int
  BY KeysAre, SumInt
<1> QED
  BY <1>1, <1>2

\* The liquidity around a tick is a natural sum.
LEMMA ForceSum ==
  ASSUME V3TypeOK, NEW t \in Int
  PROVE  SumFunction(InForce(t)) \in Nat
<1>1. PICK f \in [Keys -> Nat] : f = InForce(t)
  BY SharesAre
<1>2. SumFunction(f) \in Nat
  BY KeysAre, SumNat
<1> QED
  BY <1>1, <1>2

\* A positive factor may be taken off both sides.
LEMMA IntDown ==
  ASSUME NEW k \in Nat \ {0}, NEW a \in Int, NEW b \in Int, k * a <= k * b
  PROVE  a <= b
<1>1. SUFFICES ASSUME b + 1 <= a PROVE FALSE
  OBVIOUS
<1>2. PICK d \in Nat \ {0} : a = b + d
  <2>1. a - b \in Nat \ {0} /\ a = b + (a - b)
    BY <1>1
  <2> QED
    BY <2>1
<1>3. k * (b + d) = k * b + k * d /\ k * d > 0 /\ k * d \in Int /\ k * b \in Int
  OBVIOUS
<1>4. k * a = k * b + k * d
  BY <1>2, <1>3, Zenon
<1> QED
  BY <1>3, <1>4

\* A positive factor may be put on both sides.
LEMMA IntUp ==
  ASSUME NEW k \in Nat, NEW a \in Int, NEW b \in Int, a <= b
  PROVE  k * a <= k * b
<1>1. PICK d \in Nat : b = a + d
  <2>1. b - a \in Nat /\ b = a + (b - a)
    OBVIOUS
  <2> QED
    BY <2>1
<1>2. k * (a + d) = k * a + k * d /\ k * d \in Nat /\ k * a \in Int
  BY MulCount
<1>3. k * b = k * a + k * d
  BY <1>1, <1>2, Zenon
<1> QED
  BY <1>2, <1>3

\* A price that moves within a tick leaves the stakes covered, if what comes in and
\* goes out pays for the way.
LEMMA BackedMoves ==
  ASSUME V3TypeOK, NEW p \in Nat \ {0}, NEW n \in Nat \ {0}, NEW t \in Int,
         NEW h0 \in Int, NEW h1 \in Int, NEW d0 \in Int, NEW d1 \in Int,
         Covers(p, t, h0, h1),
         SumFunction(InForce(t)) * (n - p) <= Q * d1,
         SumFunction(InForce(t)) * Q * (p - n) <= p * (n * d0)
  PROVE  Covers(n, t, h0 + d0, h1 + d1)
<1>1. PICK A \in Nat, q \in Nat \ {0}, m \in Nat \ {0} : A = SumFunction(InForce(t)) /\ q = Q /\ m = Common
  BY ForceSum, PriceScale, CommonIs
<1>2. PICK f \in Int, fn \in Int, g \in Int, gn \in Int :
        /\ f = SumFunction(Stake0(p, t)) /\ fn = SumFunction(Stake0(n, t))
        /\ g = SumFunction(Stake1(p, t)) /\ gn = SumFunction(Stake1(n, t))
  BY StakeSums
<1>3. PICK x0 \in Int, x1 \in Int, y0 \in Int, y1 \in Int :
        /\ x0 = h0 - SumFunction(Owed(1)) /\ x1 = h1 - SumFunction(Owed(2))
        /\ y0 = (h0 + d0) - SumFunction(Owed(1)) /\ y1 = (h1 + d1) - SumFunction(Owed(2))
        /\ y0 = x0 + d0 /\ y1 = x1 + d1
  <2>1. PICK o0 \in Int, o1 \in Int : o0 = SumFunction(Owed(1)) /\ o1 = SumFunction(Owed(2))
    <3>1. 1 \in 1..2 /\ 2 \in 1..2
      OBVIOUS
    <3>2. SumFunction(Owed(1)) \in Nat /\ SumFunction(Owed(2)) \in Nat
      BY <3>1, OwedSums
    <3> QED
      BY <3>2
  <2>2. /\ h0 - o0 \in Int /\ h1 - o1 \in Int /\ (h0 + d0) - o0 \in Int /\ (h1 + d1) - o1 \in Int
        /\ (h0 + d0) - o0 = (h0 - o0) + d0 /\ (h1 + d1) - o1 = (h1 - o1) + d1
    OBVIOUS
  <2> QED
    BY <2>1, <2>2, Zenon
<1>4. g <= q * x1 /\ q * f <= p * (m * x0)
  BY <1>1, <1>2, <1>3, Zenon DEF Covers
<1>5. A * (n - p) <= q * d1 /\ A * q * (p - n) <= p * (n * d0)
  BY <1>1, Zenon
<1>6. gn = g + (n - p) * A /\ p * fn = n * f + ((p - n) * m) * A
  <2>1. /\ SumFunction(Stake1(n, t)) = SumFunction(Stake1(p, t)) + (n - p) * SumFunction(InForce(t))
        /\ p * SumFunction(Stake0(n, t))
              = n * SumFunction(Stake0(p, t)) + ((p - n) * Common) * SumFunction(InForce(t))
    BY StakesMove
  <2> QED
    BY <1>1, <1>2, <2>1, Zenon
<1>7. gn <= q * y1
  <2>1. q * (x1 + d1) = q * x1 + q * d1 /\ (n - p) * A = A * (n - p)
        /\ q * x1 \in Int /\ q * d1 \in Int /\ A * (n - p) \in Int
    OBVIOUS
  <2>2. q * y1 = q * x1 + q * d1
    BY <1>3, <2>1, Zenon
  <2> QED
    BY <1>4, <1>5, <1>6, <2>1, <2>2
<1>8. q * fn <= n * (m * y0)
  <2>1. n * (q * f) <= n * (p * (m * x0))
    <3>1. q * f \in Int /\ p * (m * x0) \in Int
      OBVIOUS
    <3> QED
      BY <1>4, <3>1, IntUp
  <2>2. m * (A * q * (p - n)) <= m * (p * (n * d0))
    <3>1. A * q * (p - n) \in Int /\ p * (n * d0) \in Int
      OBVIOUS
    <3> QED
      BY <1>5, <3>1, IntUp
  <2>3. p * (n * (m * (x0 + d0))) = n * (p * (m * x0)) + m * (p * (n * d0))
    OBVIOUS
  <2>4. q * (n * f + ((p - n) * m) * A) = n * (q * f) + m * (A * q * (p - n))
    OBVIOUS
  <2>5. q * (p * fn) = p * (q * fn)
    OBVIOUS
  <2>6. p * (q * fn) = n * (q * f) + m * (A * q * (p - n))
    BY <1>6, <2>4, <2>5, Zenon
  <2>7. p * (n * (m * y0)) = n * (p * (m * x0)) + m * (p * (n * d0))
    BY <1>3, <2>3, Zenon
  <2>8. /\ n * (q * f) \in Int /\ n * (p * (m * x0)) \in Int
        /\ m * (A * q * (p - n)) \in Int /\ m * (p * (n * d0)) \in Int
    OBVIOUS
  <2>9. p * (q * fn) <= p * (n * (m * y0))
    BY <2>1, <2>2, <2>6, <2>7, <2>8
  <2>10. q * fn \in Int /\ n * (m * y0) \in Int
    OBVIOUS
  <2> QED
    BY <2>9, <2>10, IntDown
<1>9. SumFunction(Stake1(n, t)) <= Q * ((h1 + d1) - SumFunction(Owed(2)))
  BY <1>1, <1>2, <1>3, <1>7, Zenon
<1>10. Q * SumFunction(Stake0(n, t)) <= n * (Common * ((h0 + d0) - SumFunction(Owed(1))))
  <2>1. Q * SumFunction(Stake0(n, t)) = q * fn
    BY <1>1, <1>2, Zenon
  <2>2. n * (Common * ((h0 + d0) - SumFunction(Owed(1)))) = n * (m * y0)
    BY <1>1, <1>3, Zenon
  <2> QED
    BY <1>8, <2>1, <2>2, Zenon
<1> QED
  BY <1>9, <1>10, Zenon DEF Covers

\* The target of a round's step lies ahead, not beyond the next tick in use nor
\* the limit, and at one of the two.
LEMMA TargetDown ==
  ASSUME NEW tau \in MinTick..(MaxTick - 1), NEW at \in MinTick..tau,
         NEW p \in Nat, SqrtPrice[tau] <= p, NEW limit \in Nat, limit <= p
  PROVE  /\ at \in Ticks
        /\ \E target \in Nat \ {0} :
              /\ target = IF SqrtPrice[at] < limit THEN limit ELSE SqrtPrice[at]
              /\ target <= p /\ SqrtPrice[at] <= target /\ limit <= target
              /\ target = SqrtPrice[at] \/ target = limit
<1>1. at \in Ticks /\ tau \in Ticks /\ at \in Int /\ tau \in Int /\ at <= tau
  BY TickRange
<1>2. PICK e \in Nat \ {0}, x \in Nat : e = SqrtPrice[at] /\ x = SqrtPrice[tau]
  BY <1>1, PriceOf
<1>3. e <= x
  <2>1. CASE at = tau
    BY <1>2, <2>1
  <2>2. CASE at # tau
    <3>1. at < tau
      BY <1>1, <2>2
    <3> QED
      BY <1>1, <1>2, <3>1, Rising
  <2> QED
    BY <2>1, <2>2
<1>4. e <= p
  BY <1>2, <1>3
<1>5. PICK target \in Nat \ {0} : target = IF e < limit THEN limit ELSE e
  OBVIOUS
<1>6. target <= p /\ e <= target /\ limit <= target /\ (target = e \/ target = limit)
  BY <1>4, <1>5
<1> QED
  BY <1>1, <1>2, <1>5, <1>6, Zenon

\* The target of a step up is ahead of the price.
LEMMA TargetUp ==
  ASSUME NEW tau \in MinTick..(MaxTick - 1), NEW at \in (tau + 1)..MaxTick,
         NEW p \in Nat \ {0}, p <= SqrtPrice[tau + 1], NEW limit \in Nat, p <= limit
  PROVE  /\ at \in Ticks
        /\ \E target \in Nat \ {0} :
              /\ target = IF SqrtPrice[at] > limit THEN limit ELSE SqrtPrice[at]
              /\ p <= target /\ target <= SqrtPrice[at] /\ target <= limit
              /\ target = SqrtPrice[at] \/ target = limit
<1>1. at \in Ticks /\ tau + 1 \in Ticks /\ at \in Int /\ tau \in Int /\ tau + 1 <= at
  BY TickRange
<1>2. PICK e \in Nat \ {0}, x \in Nat : e = SqrtPrice[at] /\ x = SqrtPrice[tau + 1]
  BY <1>1, PriceOf
<1>3. x <= e
  <2>1. CASE at = tau + 1
    BY <1>2, <2>1
  <2>2. CASE at # tau + 1
    <3>1. tau + 1 < at
      BY <1>1, <2>2
    <3> QED
      BY <1>1, <1>2, <3>1, Rising
  <2> QED
    BY <2>1, <2>2
<1>4. p <= e
  BY <1>2, <1>3
<1>5. PICK target \in Nat \ {0} : target = IF e > limit THEN limit ELSE e
  BY <1>4
<1>6. p <= target /\ target <= e /\ target <= limit /\ (target = e \/ target = limit)
  BY <1>4, <1>5
<1> QED
  BY <1>1, <1>2, <1>5, <1>6, Zenon

\* A step of a swap, in either direction: where the price goes, and what the
\* changes d0 and d1 of the pool's holdings pay for.
LEMMA StepMoves ==
  ASSUME NEW down \in BOOLEAN, NEW p \in Nat \ {0}, NEW t \in Nat \ {0},
         IF down THEN t <= p ELSE p <= t, NEW liq \in Nat, NEW rem \in Int
  PROVE  \E n \in Nat \ {0}, i, o, f \in Nat : Moves(down, p, t, liq, rem, n, i, o, f)
<1>s. SUFFICES \E n \in Nat \ {0}, i, o, f \in Nat :
        /\ SwapStep(p, t, liq, rem) = [next |-> n, in |-> i, out |-> o, fee |-> f]
        /\ IF down THEN t <= n /\ n <= p ELSE p <= n /\ n <= t
        /\ liq * (n - p) <= Q * (IF down THEN 0 - o ELSE i + f)
        /\ liq * Q * (p - n) <= p * (n * (IF down THEN i + f ELSE 0 - o))
        /\ rem >= 0 => i + f <= rem /\ (n = t \/ i + f = rem)
        /\ rem < 0 => o <= -rem /\ (n = t \/ o = -rem)
  BY Zenon DEF Moves
<1>0. PICK q \in Nat \ {0} : q = Q
  BY PriceScale
<1>1. CASE t <= p
  <2>0. PICK n, i, o, f \in Nat : Falls(p, t, liq, rem, n, i, o, f)
    BY <1>1, StepDown
  <2>1. /\ SwapStep(p, t, liq, rem) = [next |-> n, in |-> i, out |-> o, fee |-> f]
        /\ t <= n /\ n <= p
        /\ liq * Q * (p - n) <= p * (n * i) /\ Q * o <= liq * (p - n)
        /\ rem >= 0 => i + f <= rem /\ (n = t \/ i + f = rem)
        /\ rem < 0 => o <= -rem /\ (n = t \/ o = -rem)
    BY <2>0, Zenon DEF Falls
  <2>2. n \in Nat \ {0} /\ t <= n /\ n <= p
    BY <2>1
  <2>3. liq * q * (p - n) <= p * (n * i) /\ q * o <= liq * (p - n)
    BY <1>0, <2>1, Zenon
  <2>4. p * (n * i) <= p * (n * (i + f))
    <3>1. n * i <= n * (i + f) /\ n * i \in Int /\ n * (i + f) \in Int
      <4>1. n * (i + f) = n * i + n * f /\ n * f \in Nat /\ n * i \in Nat
        BY MulCount
      <4> QED
        BY <4>1
    <3> QED
      BY <3>1, IntUp
  <2>5. liq * q * (p - n) \in Int /\ p * (n * i) \in Int /\ p * (n * (i + f)) \in Int
    OBVIOUS
  <2>6. liq * q * (p - n) <= p * (n * (i + f))
    BY <2>3, <2>4, <2>5
  <2>7. liq * (n - p) <= q * (0 - o)
    <3>1. liq * (n - p) = -(liq * (p - n)) /\ q * (0 - o) = -(q * o)
          /\ liq * (p - n) \in Int /\ q * o \in Int
      OBVIOUS
    <3> QED
      BY <2>3, <3>1
  <2>8. CASE down
    BY <1>0, <2>1, <2>2, <2>6, <2>7, <2>8, Zenon
  <2>9. CASE ~down
    <3>1. t = p /\ n = p /\ p <= p
      BY <1>1, <2>2, <2>9
    <3>2. o = 0
      <4>1. liq * (p - n) = 0
        BY <3>1
      <4>2. q * o <= 0
        BY <2>3, <4>1
      <4> QED
        BY <4>2
    <3>3. liq * (n - p) <= q * (i + f) /\ liq * q * (p - n) <= p * (n * (0 - o))
      <4>1. liq * (n - p) = 0 /\ liq * q * (p - n) = 0
        <5>1. n - p = 0 /\ p - n = 0
          BY <3>1
        <5>2. liq * 0 = 0 /\ liq * q * 0 = 0
          OBVIOUS
        <5> QED
          BY <5>1, <5>2, Zenon
      <4>2. p * (n * (0 - o)) = 0
        <5>1. 0 - o = 0 /\ n * 0 = 0 /\ p * 0 = 0
          BY <3>2
        <5>2. n * (0 - o) = 0
          BY <5>1, Zenon
        <5> QED
          BY <5>1, <5>2, Zenon
      <4>3. q * (i + f) \in Nat
        BY MulCount
      <4> QED
        BY <4>1, <4>2, <4>3
    <3>4. p <= n /\ n <= t
      BY <3>1
    <3> QED
      BY <1>0, <2>1, <2>2, <2>9, <3>3, <3>4, Zenon
  <2> QED
    BY <2>8, <2>9
<1>2. CASE ~(t <= p)
  <2>0. p < t /\ ~down
    BY <1>2
  <2>p. PICK n, i, o, f \in Nat : Rises(p, t, liq, rem, n, i, o, f)
    BY <2>0, StepUp
  <2>1. /\ SwapStep(p, t, liq, rem) = [next |-> n, in |-> i, out |-> o, fee |-> f]
        /\ p <= n /\ n <= t
        /\ liq * (n - p) <= Q * i /\ n * (p * o) <= liq * Q * (n - p)
        /\ rem >= 0 => i + f <= rem /\ (n = t \/ i + f = rem)
        /\ rem < 0 => o <= -rem /\ (n = t \/ o = -rem)
    BY <2>p, Zenon DEF Rises
  <2>2. n \in Nat \ {0} /\ p <= n /\ n <= t
    BY <2>1
  <2>3. liq * (n - p) <= q * i /\ n * (p * o) <= liq * q * (n - p)
    BY <1>0, <2>1, Zenon
  <2>4. liq * (n - p) <= q * (i + f)
    <3>1. q * (i + f) = q * i + q * f /\ q * i \in Nat /\ q * f \in Nat /\ liq * (n - p) \in Int
      BY MulCount
    <3> QED
      BY <2>3, <3>1
  <2>5. liq * q * (p - n) <= p * (n * (0 - o))
    <3>1. liq * q * (p - n) = -(liq * q * (n - p)) /\ p * (n * (0 - o)) = -(n * (p * o))
          /\ liq * q * (n - p) \in Int /\ n * (p * o) \in Int
      OBVIOUS
    <3> QED
      BY <2>3, <3>1
  <2> QED
    BY <1>0, <2>0, <2>1, <2>2, <2>4, <2>5, Zenon
<1> QED
  BY <1>1, <1>2

-----------------------------------------------------------------------------
(***************************************************************************)
(* The rounds of a swap, and its loop.                                     *)
(***************************************************************************)
\* They are positive, and between those of the first tick and the last.
LEMMA InPrices ==
  ASSUME NEW p \in Prices
  PROVE  p \in Nat \ {0} /\ SqrtPrice[MinTick] <= p /\ p < SqrtPrice[MaxTick]
<1>1. MinTick \in Ticks /\ MaxTick \in Ticks
  BY TickRange
<1>2. SqrtPrice[MinTick] \in Nat \ {0} /\ SqrtPrice[MaxTick] \in Nat
  BY <1>1, PriceOf
<1> QED
  BY <1>2 DEF Prices

\* A limit is a price above that of the first tick.
LEMMA InBounds ==
  ASSUME NEW p \in Bounds
  PROVE  p \in Prices /\ p \in Nat \ {0} /\ SqrtPrice[MinTick] < p /\ p < SqrtPrice[MaxTick]
<1>1. MinTick \in Ticks /\ MaxTick \in Ticks
  BY TickRange
<1>2. SqrtPrice[MinTick] \in Nat \ {0} /\ SqrtPrice[MaxTick] \in Nat
  BY <1>1, PriceOf
<1> QED
  BY <1>2 DEF Prices, Bounds

\* Prices in the order of their ticks.
LEMMA Order ==
  ASSUME NEW a \in Ticks, NEW b \in Ticks
  PROVE  /\ SqrtPrice[a] \in Nat \ {0} /\ SqrtPrice[b] \in Nat \ {0} /\ a \in Int /\ b \in Int
         /\ SqrtPrice[a] <= SqrtPrice[b] <=> a <= b
         /\ SqrtPrice[a] < SqrtPrice[b] <=> a < b
<1>1. SqrtPrice[a] \in Nat \ {0} /\ SqrtPrice[b] \in Nat \ {0} /\ a \in Int /\ b \in Int
  BY PriceOf, TickRange
<1>2. a < b => SqrtPrice[a] < SqrtPrice[b]
  BY Rising
<1>3. b < a => SqrtPrice[b] < SqrtPrice[a]
  BY Rising
<1>4. a = b => SqrtPrice[a] = SqrtPrice[b]
  OBVIOUS
<1> QED
  BY <1>1, <1>2, <1>3, <1>4

\* The fields of what the search for the next tick returns.
LEMMA Fields ==
  ASSUME NEW x, NEW a, NEW b, x = [at |-> a, initialized |-> b]
  PROVE  x.at = a /\ x.initialized = b
OBVIOUS

\* The fields of what a step returns.
LEMMA StepFields ==
  ASSUME NEW x, NEW n, NEW i, NEW o, NEW f, x = [next |-> n, in |-> i, out |-> o, fee |-> f]
  PROVE  x.next = n /\ x.in = i /\ x.out = o /\ x.fee = f
OBVIOUS

\* The search finds a tick ahead, and no tick in use before it.
LEMMA NextFound ==
  ASSUME NEW from \in MinTick..(MaxTick - 1), bitmap \subseteq Ticks, NEW down \in BOOLEAN
  PROVE  \E at \in MinTick..MaxTick, ini \in BOOLEAN : Found(from, down, at, ini)
<1>0. MinTick \in Int /\ MaxTick \in Int /\ from \in Int
  BY TickRange
<1>1. PICK at, ini : NextTick(from, down) = [at |-> at, initialized |-> ini] /\ ini \in BOOLEAN
  <2>1. \E a, b : NextTick(from, down) = [at |-> a, initialized |-> b # {}]
    BY Zenon DEF NextTick
  <2>2. PICK a, b : NextTick(from, down) = [at |-> a, initialized |-> b # {}]
    BY <2>1
  <2>3. (b # {}) \in BOOLEAN
    OBVIOUS
  <2> QED
    BY <2>2, <2>3, Zenon
<1>2. NextTick(from, down).at = at /\ NextTick(from, down).initialized = ini
  BY <1>1, Fields, Zenon
<1>3. CASE down = TRUE
  <2>1. /\ at \in MinTick..from
        /\ \A u \in (at + 1)..from : u \notin bitmap
        /\ ini <=> at \in bitmap
        /\ ini \/ at = MinTick \/ at % WordSize = 0
    BY <1>2, <1>3, NextDown, Zenon
  <2>2. at \in MinTick..MaxTick /\ at <= from
    BY <1>0, <2>1
  <2> QED
    BY <1>1, <1>3, <2>1, <2>2, Zenon DEF Found
<1>4. CASE down = FALSE
  <2>1. /\ at \in (from + 1)..MaxTick
        /\ \A u \in (from + 1)..(at - 1) : u \notin bitmap
        /\ ini <=> at \in bitmap
        /\ ini \/ at = MaxTick \/ (at + 1) % WordSize = 0
    BY <1>2, <1>4, NextUp, Zenon
  <2>2. at \in MinTick..MaxTick /\ from < at
    BY <1>0, <2>1
  <2> QED
    BY <1>1, <1>4, <2>1, <2>2, Zenon DEF Found
<1> QED
  BY <1>3, <1>4

\* The target of a step is ahead of the price, in either direction.
LEMMA TargetAhead ==
  ASSUME NEW tau \in MinTick..(MaxTick - 1), NEW at \in MinTick..MaxTick, NEW down \in BOOLEAN,
         IF down THEN at <= tau ELSE tau < at,
         NEW p \in Nat \ {0}, SqrtPrice[tau] <= p, p <= SqrtPrice[tau + 1],
         NEW limit \in Nat, IF down THEN limit <= p ELSE p <= limit
  PROVE  at \in Ticks /\ \E target \in Nat \ {0} : Ahead(down, p, SqrtPrice[at], limit, target)
<1>0. MinTick \in Int /\ MaxTick \in Int /\ tau \in Int /\ at \in Int /\ at \in Ticks
  BY TickRange
<1>1. CASE down
  <2>1. at \in MinTick..tau
    BY <1>0, <1>1
  <2>2. PICK target \in Nat \ {0} :
              /\ target = IF SqrtPrice[at] < limit THEN limit ELSE SqrtPrice[at]
              /\ target <= p /\ SqrtPrice[at] <= target /\ limit <= target
              /\ target = SqrtPrice[at] \/ target = limit
    BY <1>1, <2>1, TargetDown
  <2> QED
    BY <1>0, <1>1, <2>2, Zenon DEF Ahead
<1>2. CASE ~down
  <2>1. at \in (tau + 1)..MaxTick
    BY <1>0, <1>2
  <2>2. PICK target \in Nat \ {0} :
              /\ target = IF SqrtPrice[at] > limit THEN limit ELSE SqrtPrice[at]
              /\ p <= target /\ target <= SqrtPrice[at] /\ target <= limit
              /\ target = SqrtPrice[at] \/ target = limit
    BY <1>2, <2>1, TargetUp
  <2> QED
    BY <1>0, <1>2, <2>2, Zenon DEF Ahead
<1> QED
  BY <1>1, <1>2

\* A round is a search, a step towards what was found, and a crossing if that is reached.
LEMMA RoundIs ==
  ASSUME V3TypeOK, NEW s, NEW exact \in BOOLEAN, NEW down \in BOOLEAN, NEW limit \in Nat,
         NEW amount, Underway(s, exact, down, limit, amount), s.remaining # 0, s.price # limit
  PROVE  \E at \in MinTick..MaxTick, ini \in BOOLEAN, t \in Nat \ {0}, n \in Nat \ {0},
            i \in Nat, o \in Nat, f \in Nat :
           Rounded(s, exact, down, limit, at, ini, t, n, i, o, f)
<1>0. /\ s.remaining \in Int /\ s.price \in Prices /\ s.tick \in MinTick..(MaxTick - 1)
      /\ IF down THEN limit <= s.price ELSE s.price <= limit
      /\ SqrtPrice[s.tick] <= s.price /\ s.price <= SqrtPrice[s.tick + 1]
      /\ s.liq = SumFunction(InForce(s.tick))
  BY Zenon DEF Underway, Prices
<1>1. s.price \in Nat \ {0} /\ s.tick \in Int
  BY <1>0, InPrices, TickRange
<1>2. s.liq \in Nat
  BY <1>0, <1>1, ForceSum
<1>3. PICK at \in MinTick..MaxTick, ini \in BOOLEAN : Found(s.tick, down, at, ini)
  <2>1. bitmap \subseteq Ticks
    BY DEF V3TypeOK
  <2> QED
    BY <1>0, <2>1, NextFound
<1>4. PICK t \in Nat \ {0} : Ahead(down, s.price, SqrtPrice[at], limit, t)
  <2>1. IF down THEN at <= s.tick ELSE s.tick < at
    BY <1>3, Zenon DEF Found
  <2> QED
    BY <1>0, <1>1, <2>1, TargetAhead
<1>5. PICK n \in Nat \ {0}, i, o, f \in Nat : Moves(down, s.price, t, s.liq, s.remaining, n, i, o, f)
  <2>1. IF down THEN t <= s.price ELSE s.price <= t
    BY <1>4, Zenon DEF Ahead
  <2> QED
    BY <1>0, <1>1, <1>2, <2>1, StepMoves
<1>6. SwapRound(s, exact, down, limit) =
       [remaining  |-> IF exact THEN s.remaining - (i + f) ELSE s.remaining + o,
        calculated |-> IF exact THEN s.calculated - o ELSE s.calculated + (i + f),
        price      |-> n,
        tick       |-> TickAfter(down, s.tick, at, s.price, n),
        liq        |-> LiqAfter(down, s.liq, at, ini, n)]
  <2>0. NextTick(s.tick, down) = [at |-> at, initialized |-> ini]
    BY <1>3, Zenon DEF Found
  <2>1. NextTick(s.tick, down).at = at /\ NextTick(s.tick, down).initialized = ini
    BY <2>0, Fields, Zenon
  <2>2. t = IF (IF down THEN SqrtPrice[at] < limit ELSE SqrtPrice[at] > limit) THEN limit
            ELSE SqrtPrice[at]
    BY <1>4, Zenon DEF Ahead
  <2>3. SwapStep(s.price, t, s.liq, s.remaining) = [next |-> n, in |-> i, out |-> o, fee |-> f]
    BY <1>5, Zenon DEF Moves
  <2>4. /\ SwapStep(s.price, t, s.liq, s.remaining).next = n
        /\ SwapStep(s.price, t, s.liq, s.remaining).in = i
        /\ SwapStep(s.price, t, s.liq, s.remaining).out = o
        /\ SwapStep(s.price, t, s.liq, s.remaining).fee = f
    BY <2>3, StepFields, Zenon
  <2>5. ~(s.remaining = 0 \/ s.price = limit)
    OBVIOUS
  <2> QED
    BY <2>1, <2>2, <2>4, <2>5, Zenon DEF SwapRound, Crossed, TickAfter, LiqAfter
<1> QED
  BY <1>3, <1>4, <1>5, <1>6, Zenon DEF Rounded

\* The tick after a step is that of the price: short of the tick found, or, if
\* that is reached, past it.
LEMMA Landing ==
  ASSUME NEW down \in BOOLEAN, NEW tau \in MinTick..(MaxTick - 1), NEW at \in MinTick..MaxTick,
         IF down THEN at <= tau ELSE tau < at,
         NEW p \in Prices, SqrtPrice[tau] <= p, p <= SqrtPrice[tau + 1],
         NEW n \in Prices, down => SqrtPrice[MinTick] < n, Toward(down, p, n), Toward(down, n, SqrtPrice[at])
  PROVE  \E v \in MinTick..(MaxTick - 1) :
           /\ v = TickAfter(down, tau, at, p, n) /\ SqrtPrice[v] <= n /\ n <= SqrtPrice[v + 1]
           /\ IF down THEN v <= tau ELSE tau <= v
           /\ n = SqrtPrice[at] => v = (IF down THEN at - 1 ELSE at)
           /\ n # SqrtPrice[at] => IF down THEN at <= v ELSE v < at
<1>1. /\ tau \in Int /\ at \in Int /\ MinTick <= tau /\ tau < MaxTick /\ MinTick <= at /\ at <= MaxTick
      /\ tau \in Ticks /\ at \in Ticks /\ tau + 1 \in Ticks /\ MinTick \in Ticks /\ MaxTick \in Ticks
      /\ MinTick \in Int /\ MaxTick \in Int
  BY TickRange
<1>2. n \in Nat \ {0} /\ p \in Nat \ {0} /\ n < SqrtPrice[MaxTick]
  BY InPrices
<1>3. /\ SqrtPrice[tau] \in Nat /\ SqrtPrice[tau + 1] \in Nat /\ SqrtPrice[at] \in Nat
      /\ SqrtPrice[MinTick] \in Nat /\ SqrtPrice[MaxTick] \in Nat
  BY <1>1, PriceOf
<1>4. IF down THEN n <= p /\ SqrtPrice[at] <= n ELSE p <= n /\ n <= SqrtPrice[at]
  BY DEF Toward
<1>5. CASE n = SqrtPrice[at]
  <2>1. PICK v : v = IF down THEN at - 1 ELSE at
    OBVIOUS
  <2>2. v = TickAfter(down, tau, at, p, n)
    BY <1>5, <2>1, Zenon DEF TickAfter
  <2>3. at # MinTick /\ at # MaxTick
    <3>1. down => at # MinTick
      BY <1>2, <1>3, <1>5
    <3>2. ~down => at # MinTick
      BY <1>1
    <3> QED
      BY <1>2, <1>3, <1>5, <3>1, <3>2
  <2>4. v \in MinTick..(MaxTick - 1) /\ v \in Ticks /\ v + 1 \in Ticks /\ IF down THEN v <= tau ELSE tau <= v
    BY <1>1, <2>1, <2>3, TickRange
  <2>5. v <= at /\ at <= v + 1
    BY <1>1, <2>1
  <2>6. SqrtPrice[v] <= n /\ n <= SqrtPrice[v + 1]
    BY <1>1, <1>5, <2>4, <2>5, Order
  <2> QED
    BY <1>5, <2>1, <2>2, <2>4, <2>6, Zenon
<1>6. CASE n # SqrtPrice[at] /\ n # p
  <2>1. PICK v \in MinTick..(MaxTick - 1) : v = TickAt(n) /\ SqrtPrice[v] <= n /\ n < SqrtPrice[v + 1]
    BY TickAtIs DEF Prices
  <2>2. v \in Int /\ v \in Ticks /\ v + 1 \in Ticks
    BY <2>1, TickRange
  <2>3. SqrtPrice[v] \in Nat /\ SqrtPrice[v + 1] \in Nat
    BY <2>2, PriceOf
  <2>4. /\ at < v + 1 <=> SqrtPrice[at] < SqrtPrice[v + 1]
        /\ v < at <=> SqrtPrice[v] < SqrtPrice[at]
        /\ v < tau + 1 <=> SqrtPrice[v] < SqrtPrice[tau + 1]
        /\ tau < v + 1 <=> SqrtPrice[tau] < SqrtPrice[v + 1]
    BY <1>1, <2>2, Order
  <2>5. IF down THEN at <= v /\ v <= tau ELSE tau <= v /\ v < at
    <3>1. CASE down
      BY <1>1, <1>2, <1>3, <1>4, <1>6, <2>1, <2>2, <2>3, <2>4, <3>1
    <3>2. CASE ~down
      BY <1>1, <1>2, <1>3, <1>4, <1>6, <2>1, <2>2, <2>3, <2>4, <3>2
    <3> QED
      BY <3>1, <3>2
  <2>6. n <= SqrtPrice[v + 1]
    BY <1>2, <2>1, <2>3
  <2> QED
    BY <1>6, <2>1, <2>5, <2>6, Zenon DEF TickAfter
<1>7. CASE n # SqrtPrice[at] /\ n = p
  <2>1. IF down THEN tau <= tau ELSE tau <= tau
    BY <1>1
  <2>2. SqrtPrice[tau] <= n /\ n <= SqrtPrice[tau + 1]
    BY <1>7
  <2> QED
    BY <1>7, <2>1, <2>2, Zenon DEF TickAfter
<1> QED
  BY <1>5, <1>6, <1>7

\* The tick and the liquidity after a round are those of the price it ends at.
LEMMA RoundLands ==
  ASSUME V3TypeOK, Booked, NEW down \in BOOLEAN, NEW limit \in Bounds,
         NEW tau \in MinTick..(MaxTick - 1), NEW p \in Prices,
         SqrtPrice[tau] <= p, p <= SqrtPrice[tau + 1],
         IF down THEN limit <= p ELSE p <= limit,
         NEW at \in MinTick..MaxTick, NEW ini \in BOOLEAN, NEW t \in Nat \ {0}, NEW n \in Nat \ {0},
         Found(tau, down, at, ini), Ahead(down, p, SqrtPrice[at], limit, t),
         IF down THEN t <= n /\ n <= p ELSE p <= n /\ n <= t
  PROVE  /\ Lands(p, tau, n, TickAfter(down, tau, at, p, n),
                  LiqAfter(down, SumFunction(InForce(tau)), at, ini, n))
         /\ IF down THEN limit <= n ELSE n <= limit
<1>0. /\ MinTick \in Int /\ MaxTick \in Int /\ tau \in Int /\ at \in Int /\ at \in Ticks
      /\ tau \in MinTick..MaxTick
  BY TickRange
<1>1. SqrtPrice[at] \in Nat /\ p \in Nat /\ limit \in Nat
  BY <1>0, PriceOf, InPrices, InBounds
<1>2. /\ IF down THEN at <= tau /\ \A u \in (at + 1)..tau : u \notin bitmap
             ELSE tau < at /\ \A u \in (tau + 1)..(at - 1) : u \notin bitmap
      /\ ini \/ at \notin bitmap
  BY Zenon DEF Found
<1>3. IF down THEN t <= p /\ SqrtPrice[at] <= t /\ limit <= t
             ELSE p <= t /\ t <= SqrtPrice[at] /\ t <= limit
  BY Zenon DEF Ahead
<1>4. IF down THEN limit <= n /\ n <= p /\ SqrtPrice[at] <= n
             ELSE n <= limit /\ p <= n /\ n <= SqrtPrice[at]
  BY <1>1, <1>3
<1>5. n \in Prices /\ (down => SqrtPrice[MinTick] < n)
  <2>1. PICK lo \in Int, hi \in Int : lo = SqrtPrice[MinTick] /\ hi = SqrtPrice[MaxTick]
    BY PriceOf, TickRange
  <2>2. p \in lo..(hi - 1) /\ limit \in (lo + 1)..(hi - 1)
    BY <2>1, Zenon DEF Prices, Bounds
  <2>3. n \in lo..(hi - 1) /\ (down => lo < n)
    BY <1>4, <2>2
  <2> QED
    BY <2>1, <2>3, Zenon DEF Prices
<1>6. PICK v \in MinTick..(MaxTick - 1) :
        /\ v = TickAfter(down, tau, at, p, n) /\ SqrtPrice[v] <= n /\ n <= SqrtPrice[v + 1]
        /\ IF down THEN v <= tau ELSE tau <= v
        /\ n = SqrtPrice[at] => v = (IF down THEN at - 1 ELSE at)
        /\ n # SqrtPrice[at] => IF down THEN at <= v ELSE v < at
  <2>1. Toward(down, p, n) /\ Toward(down, n, SqrtPrice[at])
    BY <1>4, Zenon DEF Toward
  <2>2. IF down THEN at <= tau ELSE tau < at
    BY <1>2
  <2> QED
    BY <1>5, <2>1, <2>2, Landing
<1>7. /\ v \in Int /\ v \in MinTick..MaxTick
      /\ down => v <= tau /\ at <= tau /\ (at <= v \/ (v = at - 1 /\ n = SqrtPrice[at]))
      /\ ~down => tau <= v /\ tau < at /\ (v < at \/ (v = at /\ n = SqrtPrice[at]))
      /\ n # SqrtPrice[at] => IF down THEN at <= v ELSE v < at
  <2>1. v \in Int /\ v \in MinTick..MaxTick
    BY <1>0
  <2> QED
    BY <1>2, <1>6, <2>1, Zenon
<1>8. Stake0(n, tau) = Stake0(n, v) /\ Stake1(n, tau) = Stake1(n, v)
  <2>1. CASE down
    <3>1. ASSUME NEW u \in (v + 1)..tau PROVE u \notin bitmap \/ SqrtPrice[u] = n
      <4>1. u \in (at + 1)..tau \/ u = at
        BY <1>0, <1>7, <2>1
      <4>2. u = at => n = SqrtPrice[at]
        BY <1>0, <1>7, <2>1
      <4> QED
        BY <1>2, <2>1, <4>1, <4>2
    <3> QED
      BY <1>0, <1>7, <2>1, <3>1, StakesHeld
  <2>2. CASE ~down
    <3>1. ASSUME NEW u \in (tau + 1)..v PROVE u \notin bitmap \/ SqrtPrice[u] = n
      <4>1. u \in (tau + 1)..(at - 1) \/ u = at
        BY <1>0, <1>7, <2>2
      <4>2. u = at => n = SqrtPrice[at]
        BY <1>0, <1>7, <2>2
      <4> QED
        BY <1>2, <2>2, <4>1, <4>2
    <3> QED
      BY <1>0, <1>7, <2>2, <3>1, StakesHeld
  <2> QED
    BY <2>1, <2>2
<1>9. LiqAfter(down, SumFunction(InForce(tau)), at, ini, n) = SumFunction(InForce(v))
  <2>1. CASE n # SqrtPrice[at]
    <3>1. InForce(v) = InForce(tau)
      <4>1. CASE down
        <5>1. at <= v /\ v <= tau
          BY <1>7, <2>1, <4>1
        <5>2. \A u \in (v + 1)..tau : u \in (at + 1)..tau
          BY <1>0, <1>7, <5>1
        <5> QED
          BY <1>0, <1>2, <1>7, <4>1, <5>1, <5>2, ForcePassed
      <4>2. CASE ~down
        <5>1. tau <= v /\ v < at
          BY <1>7, <2>1, <4>2
        <5>2. \A u \in (tau + 1)..v : u \in (tau + 1)..(at - 1)
          BY <1>0, <1>7, <5>1
        <5> QED
          BY <1>0, <1>2, <1>7, <4>2, <5>1, <5>2, ForcePassed
      <4> QED
        BY <4>1, <4>2
    <3> QED
      BY <2>1, <3>1, Zenon DEF LiqAfter
  <2>2. CASE n = SqrtPrice[at]
    <3>0. net[at] \in Int /\ at - 1 \in Int
      BY <1>0 DEF V3TypeOK
    <3>1. PICK x \in Int, y \in Int, z \in Int : /\ x = SumFunction(InForce(at))
                                                 /\ y = SumFunction(InForce(at - 1))
                                                 /\ z = net[at] /\ x = y + z
      <4>1. SumFunction(InForce(at)) \in Int /\ SumFunction(InForce(at - 1)) \in Int
        BY <1>0, <3>0, ForceSum
      <4>2. SumFunction(InForce(at)) = SumFunction(InForce(at - 1)) + net[at]
        BY <1>0, ForceAt
      <4> QED
        BY <3>0, <4>1, <4>2, Zenon
    <3>2. ini \/ z = 0
      BY <1>0, <1>2, <3>1, QuietTick
    <3>3. CASE down
      <4>1. InForce(at) = InForce(tau)
        <5>1. at \in MinTick..MaxTick /\ tau \in MinTick..MaxTick
          BY <1>0
        <5> QED
          BY <1>2, <3>3, <5>1, ForcePassed
      <4>2. v = at - 1
        BY <1>6, <2>2, <3>3
      <4>3. (IF ini THEN x + (-z) ELSE x) = y
        BY <3>1, <3>2
      <4> QED
        BY <2>2, <3>1, <3>3, <4>1, <4>2, <4>3, Zenon DEF LiqAfter
    <3>4. CASE ~down
      <4>1. at - 1 \in MinTick..MaxTick /\ tau <= at - 1
        BY <1>0, <1>2, <3>4
      <4>2. InForce(tau) = InForce(at - 1)
        BY <1>0, <1>2, <3>4, <4>1, ForcePassed
      <4>3. v = at
        BY <1>6, <2>2, <3>4
      <4>4. (IF ini THEN y + z ELSE y) = x
        BY <3>1, <3>2
      <4> QED
        BY <2>2, <3>1, <3>4, <4>2, <4>3, <4>4, Zenon DEF LiqAfter
    <3> QED
      BY <3>3, <3>4
  <2> QED
    BY <2>1, <2>2
<1>10. Lands(p, tau, n, v, SumFunction(InForce(v)))
  BY <1>5, <1>6, <1>8, Zenon DEF Lands
<1>11. IF down THEN limit <= n ELSE n <= limit
  BY <1>4
<1> QED
  BY <1>6, <1>9, <1>10, <1>11, Zenon

\* The fields of the record the loop works on.
LEMMA LoopFields ==
  ASSUME NEW x, NEW a, NEW b, NEW c, NEW d, NEW e,
         x = [remaining |-> a, calculated |-> b, price |-> c, tick |-> d, liq |-> e]
  PROVE  x.remaining = a /\ x.calculated = b /\ x.price = c /\ x.tick = d /\ x.liq = e
OBVIOUS

\* How the pool's holdings change with a round.
LEMMA ChangeOfRound ==
  ASSUME NEW exact \in BOOLEAN, NEW down \in BOOLEAN, NEW amount \in Int, NEW s, NEW r,
         s.remaining \in Int, s.calculated \in Int, NEW i \in Nat, NEW o \in Nat, NEW f \in Nat,
         r.remaining = (IF exact THEN s.remaining - (i + f) ELSE s.remaining + o),
         r.calculated = (IF exact THEN s.calculated - o ELSE s.calculated + (i + f))
  PROVE  /\ Change(s, exact, down, amount)[1] \in Int /\ Change(s, exact, down, amount)[2] \in Int
         /\ Change(r, exact, down, amount)[1] =
              Change(s, exact, down, amount)[1] + (IF down THEN i + f ELSE 0 - o)
         /\ Change(r, exact, down, amount)[2] =
              Change(s, exact, down, amount)[2] + (IF down THEN 0 - o ELSE i + f)
<1>1. PICK a \in Int, b \in Int : a = s.remaining /\ b = s.calculated
  OBVIOUS
<1>2. PICK x, y : x = r.remaining /\ y = r.calculated
  OBVIOUS
<1>3. /\ x = IF exact THEN a - (i + f) ELSE a + o
      /\ y = IF exact THEN b - o ELSE b + (i + f)
  BY <1>1, <1>2
<1>4. x \in Int /\ y \in Int
  BY <1>3
<1>5. /\ Change(s, exact, down, amount)[1] = IF down = exact THEN amount - a ELSE b
      /\ Change(s, exact, down, amount)[2] = IF down = exact THEN b ELSE amount - a
      /\ Change(r, exact, down, amount)[1] = IF down = exact THEN amount - x ELSE y
      /\ Change(r, exact, down, amount)[2] = IF down = exact THEN y ELSE amount - x
  BY <1>1, <1>2 DEF Change
<1>6. CASE exact = TRUE /\ down = TRUE
  <2>1. x = a - (i + f) /\ y = b - o
    BY <1>3, <1>6
  <2>2. /\ Change(s, exact, down, amount)[1] = amount - a /\ Change(s, exact, down, amount)[2] = b
        /\ Change(r, exact, down, amount)[1] = amount - x /\ Change(r, exact, down, amount)[2] = y
    BY <1>5, <1>6
  <2> QED
    BY <1>6, <2>1, <2>2
<1>7. CASE exact = TRUE /\ down = FALSE
  <2>1. x = a - (i + f) /\ y = b - o
    BY <1>3, <1>7
  <2>2. /\ Change(s, exact, down, amount)[1] = b /\ Change(s, exact, down, amount)[2] = amount - a
        /\ Change(r, exact, down, amount)[1] = y /\ Change(r, exact, down, amount)[2] = amount - x
    BY <1>5, <1>7
  <2> QED
    BY <1>7, <2>1, <2>2
<1>8. CASE exact = FALSE /\ down = TRUE
  <2>1. x = a + o /\ y = b + (i + f)
    BY <1>3, <1>8
  <2>2. /\ Change(s, exact, down, amount)[1] = b /\ Change(s, exact, down, amount)[2] = amount - a
        /\ Change(r, exact, down, amount)[1] = y /\ Change(r, exact, down, amount)[2] = amount - x
    BY <1>5, <1>8
  <2> QED
    BY <1>8, <2>1, <2>2
<1>9. CASE exact = FALSE /\ down = FALSE
  <2>1. x = a + o /\ y = b + (i + f)
    BY <1>3, <1>9
  <2>2. /\ Change(s, exact, down, amount)[1] = amount - a /\ Change(s, exact, down, amount)[2] = b
        /\ Change(r, exact, down, amount)[1] = amount - x /\ Change(r, exact, down, amount)[2] = y
    BY <1>5, <1>9
  <2> QED
    BY <1>9, <2>1, <2>2
<1> QED
  BY <1>6, <1>7, <1>8, <1>9

\* The loop's invariant survives a round.
LEMMA RoundKeeps ==
  ASSUME V3TypeOK, Booked, NEW exact \in BOOLEAN, NEW down \in BOOLEAN, NEW limit \in Bounds,
         NEW amount \in Int, NEW s, Underway(s, exact, down, limit, amount)
  PROVE  Underway(SwapRound(s, exact, down, limit), exact, down, limit, amount)
<1>1. CASE s.remaining = 0 \/ s.price = limit
  BY <1>1, Zenon DEF SwapRound
<1>2. CASE s.remaining # 0 /\ s.price # limit
  <2>0. limit \in Nat
    BY InBounds
  <2>1. PICK at \in MinTick..MaxTick, ini \in BOOLEAN, t \in Nat \ {0}, n \in Nat \ {0},
             i \in Nat, o \in Nat, f \in Nat :
           Rounded(s, exact, down, limit, at, ini, t, n, i, o, f)
    BY <1>2, <2>0, RoundIs
  <2>2. PICK tau, p, L, rem, cal : /\ tau = s.tick /\ p = s.price /\ L = s.liq
                                   /\ rem = s.remaining /\ cal = s.calculated
    OBVIOUS
  <2>3. /\ rem \in Int /\ cal \in Int
        /\ IF exact THEN rem >= 0 ELSE rem <= 0
        /\ p \in Prices
        /\ IF down THEN limit <= p ELSE p <= limit
        /\ tau \in MinTick..(MaxTick - 1)
        /\ SqrtPrice[tau] <= p /\ p <= SqrtPrice[tau + 1]
        /\ L = SumFunction(InForce(tau))
        /\ Covers(p, tau, holding[0] + Change(s, exact, down, amount)[1],
                          holding[1] + Change(s, exact, down, amount)[2])
    BY <2>2, Zenon DEF Underway, Prices
  <2>4. /\ Found(tau, down, at, ini) /\ Ahead(down, p, SqrtPrice[at], limit, t)
        /\ Moves(down, p, t, L, rem, n, i, o, f)
    BY <2>1, <2>2, Zenon DEF Rounded
  <2>5. PICK r : r = SwapRound(s, exact, down, limit)
    OBVIOUS
  <2>6. r = [remaining  |-> IF exact THEN rem - (i + f) ELSE rem + o,
             calculated |-> IF exact THEN cal - o ELSE cal + (i + f),
             price      |-> n,
             tick       |-> TickAfter(down, tau, at, p, n),
             liq        |-> LiqAfter(down, L, at, ini, n)]
    BY <2>1, <2>2, <2>5, Zenon DEF Rounded
  <2>7. /\ r.remaining = IF exact THEN rem - (i + f) ELSE rem + o
        /\ r.calculated = IF exact THEN cal - o ELSE cal + (i + f)
        /\ r.price = n
        /\ r.tick = TickAfter(down, tau, at, p, n)
        /\ r.liq = LiqAfter(down, L, at, ini, n)
    BY <2>6, LoopFields, Zenon
  <2>8. /\ IF down THEN t <= n /\ n <= p ELSE p <= n /\ n <= t
        /\ L * (n - p) <= Q * (IF down THEN 0 - o ELSE i + f)
        /\ L * Q * (p - n) <= p * (n * (IF down THEN i + f ELSE 0 - o))
        /\ rem >= 0 => i + f <= rem
        /\ rem < 0 => o <= -rem
    BY <2>4, Zenon DEF Moves
  <2>9. /\ Lands(p, tau, n, r.tick, r.liq)
        /\ IF down THEN limit <= n ELSE n <= limit
    <3>1. /\ Lands(p, tau, n, TickAfter(down, tau, at, p, n),
                  LiqAfter(down, SumFunction(InForce(tau)), at, ini, n))
          /\ IF down THEN limit <= n ELSE n <= limit
      BY <2>3, <2>4, <2>8, RoundLands
    <3> QED
      BY <2>3, <2>7, <3>1, Zenon
  <2>10. PICK d0 \in Int, d1 \in Int : /\ d0 = IF down THEN i + f ELSE 0 - o
                                       /\ d1 = IF down THEN 0 - o ELSE i + f
    <3>1. (IF down THEN i + f ELSE 0 - o) \in Int /\ (IF down THEN 0 - o ELSE i + f) \in Int
      OBVIOUS
    <3> QED
      BY <3>1, Zenon
  <2>11. PICK c0 \in Int, c1 \in Int :
           /\ c0 = Change(s, exact, down, amount)[1] /\ c1 = Change(s, exact, down, amount)[2]
           /\ Change(r, exact, down, amount)[1] = c0 + d0
           /\ Change(r, exact, down, amount)[2] = c1 + d1
    <3>1. /\ s.remaining \in Int /\ s.calculated \in Int
          /\ r.remaining = (IF exact THEN s.remaining - (i + f) ELSE s.remaining + o)
          /\ r.calculated = (IF exact THEN s.calculated - o ELSE s.calculated + (i + f))
      BY <2>2, <2>3, <2>7, Zenon
    <3>2. /\ Change(s, exact, down, amount)[1] \in Int /\ Change(s, exact, down, amount)[2] \in Int
         /\ Change(r, exact, down, amount)[1] =
              Change(s, exact, down, amount)[1] + (IF down THEN i + f ELSE 0 - o)
         /\ Change(r, exact, down, amount)[2] =
              Change(s, exact, down, amount)[2] + (IF down THEN 0 - o ELSE i + f)
      BY <3>1, ChangeOfRound
    <3> QED
      BY <2>10, <3>2, Zenon
  <2>12. PICK h0 \in Int, h1 \in Int : h0 = holding[0] /\ h1 = holding[1]
    BY DEF V3TypeOK, TokenIds
  <2>13. Covers(n, tau, (h0 + c0) + d0, (h1 + c1) + d1)
    <3>1. h0 + c0 \in Int /\ h1 + c1 \in Int /\ tau \in Int /\ p \in Nat \ {0}
      BY <2>3, InPrices, TickRange
    <3>2. Covers(p, tau, h0 + c0, h1 + c1)
      BY <2>3, <2>11, <2>12, Zenon
    <3>3. /\ SumFunction(InForce(tau)) * (n - p) <= Q * d1
          /\ SumFunction(InForce(tau)) * Q * (p - n) <= p * (n * d0)
      BY <2>3, <2>8, <2>10, Zenon
    <3> QED
      BY <3>1, <3>2, <3>3, BackedMoves
  <2>14. (h0 + c0) + d0 = h0 + (c0 + d0) /\ (h1 + c1) + d1 = h1 + (c1 + d1)
    OBVIOUS
  <2>15. Covers(n, r.tick, holding[0] + Change(r, exact, down, amount)[1],
                           holding[1] + Change(r, exact, down, amount)[2])
    <3>1. Covers(n, tau, holding[0] + Change(r, exact, down, amount)[1],
                         holding[1] + Change(r, exact, down, amount)[2])
      BY <2>11, <2>12, <2>13, <2>14, Zenon
    <3>2. Stake0(n, tau) = Stake0(n, r.tick) /\ Stake1(n, tau) = Stake1(n, r.tick)
      BY <2>9, Zenon DEF Lands
    <3> QED
      BY <3>1, <3>2, Zenon DEF Covers
  <2>16. r.remaining \in Int /\ r.calculated \in Int /\ IF exact THEN r.remaining >= 0 ELSE r.remaining <= 0
    <3>1. PICK x, y : x = r.remaining /\ y = r.calculated
      OBVIOUS
    <3>2. x = (IF exact THEN rem - (i + f) ELSE rem + o) /\ y = (IF exact THEN cal - o ELSE cal + (i + f))
      BY <2>7, <3>1, Zenon
    <3>3. exact => i + f <= rem
      BY <2>3, <2>8
    <3>4. ~exact => o <= 0 - rem
      <4>1. SUFFICES ASSUME ~exact PROVE o <= 0 - rem
        OBVIOUS
      <4>2. rem <= 0 /\ rem # 0
        BY <1>2, <2>2, <2>3, <4>1
      <4>3. rem < 0
        BY <2>3, <4>2
      <4>4. o <= -rem
        BY <2>8, <4>3
      <4> QED
        BY <2>3, <4>3, <4>4
    <3>5. x \in Int /\ y \in Int /\ IF exact THEN x >= 0 ELSE x <= 0
      <4>1. CASE exact
        <5>1. x = rem - (i + f) /\ y = cal - o
          BY <3>2, <4>1
        <5> QED
          BY <2>3, <3>3, <4>1, <5>1
      <4>2. CASE ~exact
        <5>1. x = rem + o /\ y = cal + (i + f)
          BY <3>2, <4>2
        <5> QED
          BY <2>3, <3>4, <4>2, <5>1
      <4> QED
        BY <4>1, <4>2
    <3> QED
      BY <3>1, <3>5
  <2>17. Underway(r, exact, down, limit, amount)
    BY <2>7, <2>9, <2>15, <2>16, Zenon DEF Underway, Lands, Prices
  <2> QED
    BY <2>5, <2>17, Zenon
<1> QED
  BY <1>1, <1>2

\* The rounds exist as a function, by induction over their number.
LEMMA RoundsExist ==
  ASSUME NEW N \in Nat, NEW s, NEW exact, NEW down, NEW limit
  PROVE  \E q : IsRounds(q, N, s, exact, down, limit)
<1> DEFINE Is(q, m) == q = [n \in 0..m |-> IF n = 0 THEN s ELSE SwapRound(q[n - 1], exact, down, limit)]
           S == {m \in Nat : \E q : Is(q, m)}
<1>1. 0 \in S
  <2>1. PICK q : q = [n \in 0..0 |-> s]
    OBVIOUS
  <2>2. \A n \in 0..0 : n = 0
    OBVIOUS
  <2>3. Is(q, 0)
    BY <2>1, <2>2, Zenon
  <2> QED
    BY <2>3
<1>2. ASSUME NEW m \in Nat, m \in S PROVE m + 1 \in S
  <2>1. PICK q : Is(q, m)
    BY <1>2
  <2>2. PICK u : u = [n \in 0..(m + 1) |-> IF n = 0 THEN s ELSE SwapRound(q[n - 1], exact, down, limit)]
    OBVIOUS
  <2>3. \A n \in 0..m : u[n] = q[n]
    <3>1. SUFFICES ASSUME NEW n \in 0..m PROVE u[n] = q[n]
      OBVIOUS
    <3>2. n \in 0..(m + 1)
      OBVIOUS
    <3>3. u[n] = IF n = 0 THEN s ELSE SwapRound(q[n - 1], exact, down, limit)
      BY <2>2, <3>2, Zenon
    <3>4. q[n] = IF n = 0 THEN s ELSE SwapRound(q[n - 1], exact, down, limit)
      BY <2>1, <3>1, Zenon
    <3> QED
      BY <3>3, <3>4
  <2>4. ASSUME NEW n \in 0..(m + 1) PROVE u[n] = IF n = 0 THEN s ELSE SwapRound(u[n - 1], exact, down, limit)
    <3>1. u[n] = IF n = 0 THEN s ELSE SwapRound(q[n - 1], exact, down, limit)
      BY <2>2, <2>4, Zenon
    <3>2. n = 0 \/ n - 1 \in 0..m
      OBVIOUS
    <3>3. n = 0 \/ u[n - 1] = q[n - 1]
      BY <2>3, <3>2, Zenon
    <3> QED
      BY <3>1, <3>3, Zenon
  <2>5. Is(u, m + 1)
    <3>1. u = [n \in 0..(m + 1) |-> u[n]]
      BY <2>2, Zenon
    <3> QED
      BY <2>4, <3>1
  <2>6. m + 1 \in Nat
    OBVIOUS
  <2> QED
    BY <2>5, <2>6
<1> HIDE DEF S
<1>3. \A k \in Nat : k \in S
  BY <1>1, <1>2, Induction
<1>4. N \in S
  BY <1>3
<1> QED
  BY <1>4 DEF S, IsRounds

\* Every swap has its rounds.
LEMMA LoopIs ==
  ASSUME NEW s, NEW exact, NEW down, NEW limit
  PROVE  \E q : RoundsAfter(q, s, exact, down, limit)
<1>1. Rounds \in Nat
  BY TickRange DEF Rounds
<1> DEFINE q == CHOOSE after : after =
             [n \in 0..Rounds |-> IF n = 0 THEN s ELSE SwapRound(after[n - 1], exact, down, limit)]
<1>2. q = [n \in 0..Rounds |-> IF n = 0 THEN s ELSE SwapRound(q[n - 1], exact, down, limit)]
  <2>1. \E u : IsRounds(u, Rounds, s, exact, down, limit)
    BY <1>1, RoundsExist
  <2> QED
    BY <2>1 DEF IsRounds
<1>3. SwapLoop(s, exact, down, limit) = q[Rounds]
  BY DEF SwapLoop
<1> HIDE DEF q
<1>4. q[0] = s
  <2>1. 0 \in 0..Rounds
    BY <1>1
  <2> QED
    BY <1>2, <2>1, Zenon
<1>5. ASSUME NEW k \in Nat, k + 1 \in 0..Rounds
      PROVE  q[k + 1] = SwapRound(q[k], exact, down, limit)
  <2>1. k + 1 # 0 /\ (k + 1) - 1 = k
    OBVIOUS
  <2>2. q[k + 1] = IF k + 1 = 0 THEN s ELSE SwapRound(q[(k + 1) - 1], exact, down, limit)
    BY <1>2, <1>5, Zenon
  <2> QED
    BY <2>1, <2>2, Zenon
<1> QED
  BY <1>3, <1>4, <1>5 DEF RoundsAfter

\* The invariant of the loop holds at its end, by induction over the rounds.
LEMMA LoopKeeps ==
  ASSUME V3TypeOK, Booked, NEW exact \in BOOLEAN, NEW down \in BOOLEAN, NEW limit \in Bounds,
         NEW amount \in Int, NEW s, Underway(s, exact, down, limit, amount)
  PROVE  Underway(SwapLoop(s, exact, down, limit), exact, down, limit, amount)
<1>0. Rounds \in Nat
  BY TickRange DEF Rounds
<1>1. PICK q : RoundsAfter(q, s, exact, down, limit)
  BY LoopIs
<1> DEFINE S == {k \in Nat : k \in 0..Rounds => Underway(q[k], exact, down, limit, amount)}
<1>2. 0 \in S
  <2>1. q[0] = s
    BY <1>1, Zenon DEF RoundsAfter
  <2>2. Underway(q[0], exact, down, limit, amount)
    BY <2>1
  <2> QED
    BY <2>2
<1>3. ASSUME NEW k \in Nat, k \in S PROVE k + 1 \in S
  <2>1. SUFFICES ASSUME k + 1 \in 0..Rounds PROVE Underway(q[k + 1], exact, down, limit, amount)
    OBVIOUS
  <2>2. k \in 0..Rounds
    BY <1>0, <2>1
  <2>3. Underway(q[k], exact, down, limit, amount)
    BY <1>3, <2>2
  <2>4. q[k + 1] = SwapRound(q[k], exact, down, limit)
    BY <1>1, <2>1, Zenon DEF RoundsAfter
  <2>5. Underway(SwapRound(q[k], exact, down, limit), exact, down, limit, amount)
    BY <2>3, RoundKeeps
  <2> QED
    BY <2>4, <2>5
<1> HIDE DEF S
<1>4. \A k \in Nat : k \in S
  BY <1>2, <1>3, Induction
<1>5. Rounds \in S /\ Rounds \in 0..Rounds
  BY <1>0, <1>4
<1>6. Underway(q[Rounds], exact, down, limit, amount)
  BY <1>5 DEF S
<1>7. SwapLoop(s, exact, down, limit) = q[Rounds]
  BY <1>1, Zenon DEF RoundsAfter
<1> QED
  BY <1>6, <1>7

\* A round that does not end the loop passes a tick.
LEMMA RoundPasses ==
  ASSUME V3TypeOK, Booked, NEW exact \in BOOLEAN, NEW down \in BOOLEAN, NEW limit \in Bounds,
         NEW amount \in Int, NEW s, Underway(s, exact, down, limit, amount), ~Ended(s, limit),
         ~Ended(SwapRound(s, exact, down, limit), limit)
  PROVE  IF down THEN SwapRound(s, exact, down, limit).tick + 1 <= s.tick
         ELSE s.tick + 1 <= SwapRound(s, exact, down, limit).tick
<1>0. limit \in Nat /\ s.remaining # 0 /\ s.price # limit
  BY InBounds DEF Ended
<1>1. PICK at \in MinTick..MaxTick, ini \in BOOLEAN, t \in Nat \ {0}, n \in Nat \ {0},
           i \in Nat, o \in Nat, f \in Nat :
         Rounded(s, exact, down, limit, at, ini, t, n, i, o, f)
  BY <1>0, RoundIs
<1>2. PICK tau, rem, r : tau = s.tick /\ rem = s.remaining /\ r = SwapRound(s, exact, down, limit)
  OBVIOUS
<1>3. rem \in Int /\ tau \in MinTick..(MaxTick - 1) /\ (IF exact THEN rem >= 0 ELSE rem <= 0) /\ rem # 0
  BY <1>0, <1>2, Zenon DEF Underway
<1>4. /\ Found(tau, down, at, ini)
      /\ Ahead(down, s.price, SqrtPrice[at], limit, t)
      /\ Moves(down, s.price, t, s.liq, rem, n, i, o, f)
      /\ r = [remaining  |-> IF exact THEN rem - (i + f) ELSE rem + o,
              calculated |-> IF exact THEN s.calculated - o ELSE s.calculated + (i + f),
              price      |-> n,
              tick       |-> TickAfter(down, tau, at, s.price, n),
              liq        |-> LiqAfter(down, s.liq, at, ini, n)]
  BY <1>1, <1>2, Zenon DEF Rounded
<1>5. /\ r.remaining = IF exact THEN rem - (i + f) ELSE rem + o
      /\ r.price = n
      /\ r.tick = TickAfter(down, tau, at, s.price, n)
  BY <1>4, LoopFields, Zenon
<1>6. r.remaining # 0 /\ r.price # limit
  BY <1>2, Zenon DEF Ended
<1>7. /\ rem >= 0 => (n = t \/ i + f = rem)
      /\ rem < 0 => (n = t \/ o = -rem)
  BY <1>4, Zenon DEF Moves
<1>8. n = t
  <2>1. CASE exact
    <3>1. rem - (i + f) # 0
      BY <1>5, <1>6, <2>1
    <3> QED
      BY <1>3, <1>7, <2>1, <3>1
  <2>2. CASE ~exact
    <3>1. rem + o # 0
      BY <1>5, <1>6, <2>2
    <3>2. rem < 0
      BY <1>3, <2>2
    <3> QED
      BY <1>3, <1>7, <3>1, <3>2
  <2> QED
    BY <2>1, <2>2
<1>9. n = SqrtPrice[at]
  <2>1. t = SqrtPrice[at] \/ t = limit
    BY <1>4, Zenon DEF Ahead
  <2> QED
    BY <1>5, <1>6, <1>8, <2>1
<1>10. r.tick = IF down THEN at - 1 ELSE at
  BY <1>5, <1>9, Zenon DEF TickAfter
<1>11. IF down THEN at <= tau ELSE tau < at
  BY <1>4, Zenon DEF Found
<1>12. tau \in Int /\ at \in Int
  BY <1>3, TickRange
<1>13. IF down THEN r.tick + 1 <= tau ELSE tau + 1 <= r.tick
  <2>1. CASE down
    BY <1>10, <1>11, <1>12, <2>1
  <2>2. CASE ~down
    BY <1>10, <1>11, <1>12, <2>2
  <2> QED
    BY <2>1, <2>2
<1> QED
  BY <1>2, <1>13, Zenon

\* The rounds a swap's loop is given are enough for any swap to come to its end.
LEMMA LoopEnds ==
  ASSUME V3TypeOK, Booked, NEW exact \in BOOLEAN, NEW down \in BOOLEAN, NEW limit \in Bounds,
         NEW amount \in Int, NEW s, Underway(s, exact, down, limit, amount)
  PROVE  Ended(SwapLoop(s, exact, down, limit), limit)
<1>0. Rounds \in Nat /\ MinTick \in Int /\ MaxTick \in Int /\ Rounds = MaxTick - MinTick + 2
  BY TickRange DEF Rounds
<1>1. PICK q : RoundsAfter(q, s, exact, down, limit)
  BY LoopIs
<1> DEFINE Far(k) == IF down THEN q[k].tick + k <= MaxTick ELSE MinTick + k <= q[k].tick
           S == {k \in Nat : k \in 0..Rounds => /\ Underway(q[k], exact, down, limit, amount)
                                                /\ Ended(q[k], limit) \/ Far(k)}
<1>2. 0 \in S
  <2>1. q[0] = s
    BY <1>1, Zenon DEF RoundsAfter
  <2>2. Underway(q[0], exact, down, limit, amount)
    BY <2>1
  <2>3. q[0].tick \in MinTick..(MaxTick - 1)
    BY <2>2, Zenon DEF Underway
  <2>4. Far(0)
    BY <1>0, <2>3
  <2> QED
    BY <2>2, <2>4
<1>3. ASSUME NEW k \in Nat, k \in S PROVE k + 1 \in S
  <2>1. SUFFICES ASSUME k + 1 \in 0..Rounds
                 PROVE  /\ Underway(q[k + 1], exact, down, limit, amount)
                        /\ Ended(q[k + 1], limit) \/ Far(k + 1)
    OBVIOUS
  <2>2. k \in 0..Rounds
    BY <1>0, <2>1
  <2>3. Underway(q[k], exact, down, limit, amount) /\ (Ended(q[k], limit) \/ Far(k))
    BY <1>3, <2>2
  <2>4. q[k + 1] = SwapRound(q[k], exact, down, limit)
    BY <1>1, <2>1, Zenon DEF RoundsAfter
  <2>5. Underway(SwapRound(q[k], exact, down, limit), exact, down, limit, amount)
    BY <2>3, RoundKeeps
  <2>6. Underway(q[k + 1], exact, down, limit, amount)
    BY <2>4, <2>5, Zenon
  <2>7. CASE Ended(q[k], limit)
    <3>1. SwapRound(q[k], exact, down, limit) = q[k]
      BY <2>7, Zenon DEF SwapRound, Ended
    <3>2. q[k + 1] = q[k]
      BY <2>4, <3>1, Zenon
    <3> QED
      BY <2>6, <2>7, <3>2, Zenon
  <2>8. CASE ~Ended(q[k], limit) /\ ~Ended(q[k + 1], limit)
    <3>1. IF down THEN q[k + 1].tick + 1 <= q[k].tick ELSE q[k].tick + 1 <= q[k + 1].tick
      <4>1. ~Ended(SwapRound(q[k], exact, down, limit), limit)
        BY <2>4, <2>8, Zenon
      <4>2. IF down THEN SwapRound(q[k], exact, down, limit).tick + 1 <= q[k].tick
            ELSE q[k].tick + 1 <= SwapRound(q[k], exact, down, limit).tick
        BY <2>3, <2>8, <4>1, RoundPasses
      <4> QED
        BY <2>4, <4>2, Zenon
    <3>2. PICK a, b : a = q[k].tick /\ b = q[k + 1].tick
      OBVIOUS
    <3>3. a \in MinTick..(MaxTick - 1) /\ b \in MinTick..(MaxTick - 1)
      BY <2>3, <2>6, <3>2, Zenon DEF Underway
    <3>4. IF down THEN a + k <= MaxTick ELSE MinTick + k <= a
      BY <2>3, <2>8, <3>2
    <3>5. IF down THEN b + 1 <= a ELSE a + 1 <= b
      BY <3>1, <3>2
    <3>6. IF down THEN b + (k + 1) <= MaxTick ELSE MinTick + (k + 1) <= b
      <4>1. CASE down
        BY <1>0, <3>3, <3>4, <3>5, <4>1
      <4>2. CASE ~down
        BY <1>0, <3>3, <3>4, <3>5, <4>2
      <4> QED
        BY <4>1, <4>2
    <3>7. Far(k + 1)
      BY <3>2, <3>6, Zenon
    <3> QED
      BY <2>6, <3>7
  <2> QED
    BY <2>6, <2>7, <2>8
<1> HIDE DEF S
<1>4. \A k \in Nat : k \in S
  BY <1>2, <1>3, Induction
<1>5. Rounds \in S /\ Rounds \in 0..Rounds
  BY <1>0, <1>4
<1>6. Underway(q[Rounds], exact, down, limit, amount) /\ (Ended(q[Rounds], limit) \/ Far(Rounds))
  BY <1>5 DEF S
<1>7. ~Far(Rounds)
  <2>1. q[Rounds].tick \in MinTick..(MaxTick - 1)
    BY <1>6, Zenon DEF Underway
  <2>2. PICK a \in Int : a = q[Rounds].tick /\ MinTick <= a /\ a <= MaxTick - 1
    BY <1>0, <2>1
  <2>3. ~(a + Rounds <= MaxTick) /\ ~(MinTick + Rounds <= a)
    BY <1>0, <2>2
  <2> QED
    BY <2>2, <2>3, Zenon
<1>8. SwapLoop(s, exact, down, limit) = q[Rounds]
  BY <1>1, Zenon DEF RoundsAfter
<1> QED
  BY <1>6, <1>7, <1>8

\* Adding to one value adds to the sum.
LEMMA SumOfAdded ==
  ASSUME NEW S, IsFiniteSet(S), NEW f \in [S -> Int], NEW g \in [S -> Int], NEW x \in S, NEW e \in Int,
         \A y \in S \ {x} : g[y] = f[y], g[x] = f[x] + e
  PROVE  SumFunction(g) = SumFunction(f) + e
<1>2. SumFunction(g) = SumFunction(f) - f[x] + g[x]
  BY SumOfChanged
<1>3. f[x] \in Int /\ SumFunction(f) \in Int
  BY SumInt
<1> QED
  BY <1>2, <1>3

-----------------------------------------------------------------------------
(***************************************************************************)
(* What one position's change does to the sums.                            *)
(***************************************************************************)
\* Adding to one key of a function of naturals adds to its sum.
LEMMA SumOfKeysAdded ==
  ASSUME NEW f \in [Keys -> Nat], NEW g \in [Keys -> Nat], NEW key \in Keys, NEW e \in Int,
         Added(f, g, key, e)
  PROVE  SumFunction(g) = SumFunction(f) + e
<1>1. f \in [Keys -> Int] /\ g \in [Keys -> Int] /\ IsFiniteSet(Keys)
  BY KeysAre
<1>2. (\A k \in Keys \ {key} : g[k] = f[k]) /\ g[key] = f[key] + e
  BY DEF Added
<1> QED
  BY <1>1, <1>2, SumOfAdded

\* What a change d of one position's liquidity does to the sums over positions.
LEMMA SharesChange ==
  ASSUME V3TypeOK, NEW o, NEW r \in Ranges, NEW d \in Int, Shifts(o, r, d), NEW t \in Int
  PROVE  /\ InForce(t)' \in [Keys -> Nat] /\ Starting(t)' \in [Keys -> Nat] /\ Ending(t)' \in [Keys -> Nat]
         /\ SumFunction(InForce(t)') = SumFunction(InForce(t)) + (IF r[1] <= t /\ t < r[2] THEN d ELSE 0)
         /\ SumFunction(Starting(t)') = SumFunction(Starting(t)) + (IF r[1] = t THEN d ELSE 0)
         /\ SumFunction(Ending(t)') = SumFunction(Ending(t)) + (IF r[2] = t THEN d ELSE 0)
<1>0. PICK key : key = <<o, r>> /\ key \in Keys /\ key[2] = r
  BY DEF Shifts
<1>1. PICK p, q : p = positions /\ q = positions'
  OBVIOUS
<1>2. /\ p \in [Keys -> [liq : Nat, owed : Nat \X Nat]] /\ q \in [Keys -> [liq : Nat, owed : Nat \X Nat]]
      /\ \A k \in Keys : q[k].liq = p[k].liq + (IF k = key THEN d ELSE 0)
  BY <1>0, <1>1, Zenon DEF V3TypeOK, Shifts
<1>3. \A k \in Keys : p[k].liq \in Nat /\ q[k].liq \in Nat
  BY <1>2
<1> DEFINE F(x) == [k \in Keys |-> IF k[2][1] <= t /\ t < k[2][2] THEN x[k].liq ELSE 0]
           A(x) == [k \in Keys |-> IF k[2][1] = t THEN x[k].liq ELSE 0]
           B(x) == [k \in Keys |-> IF k[2][2] = t THEN x[k].liq ELSE 0]
<1>4. /\ InForce(t) = F(p) /\ Starting(t) = A(p) /\ Ending(t) = B(p)
      /\ InForce(t)' = F(q) /\ Starting(t)' = A(q) /\ Ending(t)' = B(q)
  BY <1>1, Zenon DEF InForce, Starting, Ending
<1>5. PICK f1 \in [Keys -> Nat], f2 \in [Keys -> Nat], a1 \in [Keys -> Nat], a2 \in [Keys -> Nat],
           b1 \in [Keys -> Nat], b2 \in [Keys -> Nat] :
        f1 = F(p) /\ f2 = F(q) /\ a1 = A(p) /\ a2 = A(q) /\ b1 = B(p) /\ b2 = B(q)
  <2>1. F(p) \in [Keys -> Nat] /\ F(q) \in [Keys -> Nat]
    BY <1>3
  <2>2. A(p) \in [Keys -> Nat] /\ A(q) \in [Keys -> Nat]
    BY <1>3
  <2>3. B(p) \in [Keys -> Nat] /\ B(q) \in [Keys -> Nat]
    BY <1>3
  <2> QED
    BY <2>1, <2>2, <2>3, Zenon
<1>6. PICK lo \in Int, hi \in Int : lo = r[1] /\ hi = r[2]
  BY <1>0, KeysAre, Zenon
<1>7. PICK e1 \in Int, e2 \in Int, e3 \in Int :
        /\ e1 = IF lo <= t /\ t < hi THEN d ELSE 0
        /\ e2 = IF lo = t THEN d ELSE 0
        /\ e3 = IF hi = t THEN d ELSE 0
  OBVIOUS
<1>8. ASSUME NEW k \in Keys
      PROVE  /\ k # key => f2[k] = f1[k] /\ a2[k] = a1[k] /\ b2[k] = b1[k]
             /\ k = key => f2[k] = f1[k] + e1 /\ a2[k] = a1[k] + e2 /\ b2[k] = b1[k] + e3
  <2>1. PICK x \in Nat, y \in Nat, u \in Int, v \in Int :
          /\ x = p[k].liq /\ y = q[k].liq /\ u = k[2][1] /\ v = k[2][2]
          /\ y = x + (IF k = key THEN d ELSE 0)
    BY <1>2, <1>3, KeysAre, Zenon
  <2>2. /\ f1[k] = IF u <= t /\ t < v THEN x ELSE 0
        /\ f2[k] = IF u <= t /\ t < v THEN y ELSE 0
    BY <1>5, <2>1, Zenon
  <2>3. /\ a1[k] = IF u = t THEN x ELSE 0
        /\ a2[k] = IF u = t THEN y ELSE 0
        /\ b1[k] = IF v = t THEN x ELSE 0
        /\ b2[k] = IF v = t THEN y ELSE 0
    BY <1>5, <2>1, Zenon
  <2>4. CASE k = key
    <3>1. u = lo /\ v = hi /\ y = x + d
      BY <1>0, <1>6, <2>1, <2>4, Zenon
    <3> QED
      BY <1>7, <2>2, <2>3, <2>4, <3>1
  <2>5. CASE k # key
    <3>1. y = x
      BY <2>1, <2>5
    <3> QED
      BY <2>2, <2>3, <2>5, <3>1
  <2> QED
    BY <2>4, <2>5
<1> HIDE DEF F, A, B
<1>9. /\ SumFunction(f2) = SumFunction(f1) + e1
      /\ SumFunction(a2) = SumFunction(a1) + e2
      /\ SumFunction(b2) = SumFunction(b1) + e3
  <2>1. key \in Keys
    BY <1>0
  <2>2. SumFunction(f2) = SumFunction(f1) + e1
    <3>1. \A k \in Keys : k # key => f2[k] = f1[k]
      BY <1>8
    <3>2. f2[key] = f1[key] + e1
      BY <1>8, <2>1
    <3>3. Added(f1, f2, key, e1)
      BY <3>1, <3>2 DEF Added
    <3> QED
      BY <2>1, <3>3, SumOfKeysAdded
  <2>3. SumFunction(a2) = SumFunction(a1) + e2
    <3>1. \A k \in Keys : k # key => a2[k] = a1[k]
      BY <1>8
    <3>2. a2[key] = a1[key] + e2
      BY <1>8, <2>1
    <3>3. Added(a1, a2, key, e2)
      BY <3>1, <3>2 DEF Added
    <3> QED
      BY <2>1, <3>3, SumOfKeysAdded
  <2>4. SumFunction(b2) = SumFunction(b1) + e3
    <3>1. \A k \in Keys : k # key => b2[k] = b1[k]
      BY <1>8
    <3>2. b2[key] = b1[key] + e3
      BY <1>8, <2>1
    <3>3. Added(b1, b2, key, e3)
      BY <3>1, <3>2 DEF Added
    <3> QED
      BY <2>1, <3>3, SumOfKeysAdded
  <2> QED
    BY <2>2, <2>3, <2>4
<1>10. /\ f1 = InForce(t) /\ f2 = InForce(t)' /\ a1 = Starting(t) /\ a2 = Starting(t)'
       /\ b1 = Ending(t) /\ b2 = Ending(t)'
  BY <1>4, <1>5, Zenon
<1> QED
  BY <1>5, <1>6, <1>7, <1>9, <1>10, Zenon

\* The tick is an integer, with the pool initialized or not.
LEMMA TickInt ==
  ASSUME V3TypeOK
  PROVE  tick \in Int /\ tick \in MinTick..(MaxTick - 1) /\ tick \in MinTick..MaxTick
<1>1. tick = 0 \/ tick \in MinTick..(MaxTick - 1)
  BY DEF V3TypeOK
<1> QED
  BY <1>1, TickRange

\* A sum of naturals over the keys is natural.
LEMMA SumOfKeysNat ==
  ASSUME NEW f \in [Keys -> Nat]
  PROVE  SumFunction(f) \in Nat
BY KeysAre, SumNat

\* A change of the liquidity of one position keeps the pool's totals.
LEMMA ModifyKeeps ==
  ASSUME V3TypeOK, Booked, liquidity = SumFunction(InForce(tick)),
         NEW o, NEW r \in Ranges, NEW d \in Int, Shifts(o, r, d),
         ModifyTicks(r, d), tick' = tick
  PROVE  /\ gross' \in [Ticks -> Nat] /\ net' \in [Ticks -> Int] /\ bitmap' \subseteq Ticks
         /\ liquidity' \in Nat /\ liquidity' = SumFunction(InForce(tick))'
         /\ Booked'
<1>1. PICK lo \in Int, hi \in Int : lo = r[1] /\ hi = r[2] /\ lo < hi /\ lo \in Ticks /\ hi \in Ticks
  <2>1. <<o, r>> \in Keys /\ <<o, r>>[2] = r
    BY DEF Shifts
  <2> QED
    BY <2>1, KeysAre, Zenon
<1>2. ASSUME NEW t \in Int
      PROVE  /\ SumFunction(InForce(t)') \in Nat /\ SumFunction(Starting(t)') \in Nat
             /\ SumFunction(Ending(t)') \in Nat
             /\ SumFunction(InForce(t)) \in Nat /\ SumFunction(Starting(t)) \in Nat
             /\ SumFunction(Ending(t)) \in Nat
             /\ SumFunction(InForce(t)') = SumFunction(InForce(t)) + (IF lo <= t /\ t < hi THEN d ELSE 0)
             /\ SumFunction(Starting(t)') = SumFunction(Starting(t)) + (IF lo = t THEN d ELSE 0)
             /\ SumFunction(Ending(t)') = SumFunction(Ending(t)) + (IF hi = t THEN d ELSE 0)
  <2>1. /\ InForce(t)' \in [Keys -> Nat] /\ Starting(t)' \in [Keys -> Nat] /\ Ending(t)' \in [Keys -> Nat]
        /\ SumFunction(InForce(t)') = SumFunction(InForce(t)) + (IF r[1] <= t /\ t < r[2] THEN d ELSE 0)
        /\ SumFunction(Starting(t)') = SumFunction(Starting(t)) + (IF r[1] = t THEN d ELSE 0)
        /\ SumFunction(Ending(t)') = SumFunction(Ending(t)) + (IF r[2] = t THEN d ELSE 0)
    BY SharesChange, Zenon
  <2>2. PICK f1 \in [Keys -> Nat], f2 \in [Keys -> Nat], a1 \in [Keys -> Nat], a2 \in [Keys -> Nat],
             b1 \in [Keys -> Nat], b2 \in [Keys -> Nat] :
          /\ f1 = InForce(t) /\ f2 = InForce(t)' /\ a1 = Starting(t) /\ a2 = Starting(t)'
          /\ b1 = Ending(t) /\ b2 = Ending(t)'
    BY <2>1, SharesAre
  <2>3. /\ SumFunction(f1) \in Nat /\ SumFunction(f2) \in Nat /\ SumFunction(a1) \in Nat
        /\ SumFunction(a2) \in Nat /\ SumFunction(b1) \in Nat /\ SumFunction(b2) \in Nat
    BY SumOfKeysNat
  <2> QED
    BY <1>1, <2>1, <2>2, <2>3, Zenon
<1>3. PICK gr, ne, af : /\ gr = gross /\ ne = net
                        /\ af = [t \in Ticks |-> IF t \in {lo, hi} THEN gr[t] + d ELSE gr[t]]
  OBVIOUS
<1>4. /\ gross' = af
      /\ net' = [t \in Ticks |-> IF t = lo THEN ne[t] + d ELSE IF t = hi THEN ne[t] - d ELSE ne[t]]
      /\ bitmap' = {t \in Ticks : IF ~(af[t] = 0 <=> gr[t] = 0) THEN t \notin bitmap ELSE t \in bitmap}
      /\ liquidity' = IF lo <= tick /\ tick < hi THEN liquidity + d ELSE liquidity
  BY <1>1, <1>3, Zenon DEF ModifyTicks, InRange
<1>5. gr \in [Ticks -> Nat] /\ ne \in [Ticks -> Int]
  BY <1>3, Zenon DEF V3TypeOK
<1>6. ASSUME NEW t \in Ticks
      PROVE  /\ gross'[t] \in Nat /\ net'[t] \in Int
             /\ gross'[t] = SumFunction(Starting(t)') + SumFunction(Ending(t)')
             /\ net'[t] = SumFunction(Starting(t)') - SumFunction(Ending(t)')
             /\ t \in bitmap' <=> gross'[t] > 0
  <2>0. t \in Int
    BY TickRange
  <2>1. PICK a \in Nat, b \in Nat, a2 \in Nat, b2 \in Nat :
          /\ a = SumFunction(Starting(t)) /\ b = SumFunction(Ending(t))
          /\ a2 = SumFunction(Starting(t)') /\ b2 = SumFunction(Ending(t)')
          /\ a2 = a + (IF lo = t THEN d ELSE 0) /\ b2 = b + (IF hi = t THEN d ELSE 0)
    BY <1>2, <2>0
  <2>2. PICK g, x : g = gr[t] /\ x = ne[t]
    OBVIOUS
  <2>3. /\ g = a + b /\ x = a - b /\ (t \in bitmap <=> g > 0)
    BY <1>3, <2>1, <2>2, Zenon DEF Booked
  <2>4. /\ af[t] = (IF t \in {lo, hi} THEN g + d ELSE g)
        /\ net'[t] = IF t = lo THEN x + d ELSE IF t = hi THEN x - d ELSE x
    BY <1>3, <1>4, <2>2, Zenon
  <2>5. af[t] = a2 + b2 /\ a2 + b2 \in Nat
    BY <1>1, <2>1, <2>3, <2>4
  <2>6. net'[t] = a2 - b2 /\ a2 - b2 \in Int
    <3>1. PICK y : y = net'[t]
      OBVIOUS
    <3>2. y = IF t = lo THEN x + d ELSE IF t = hi THEN x - d ELSE x
      BY <2>4, <3>1, Zenon
    <3>3. y = a2 - b2
      BY <1>1, <2>1, <2>3, <3>2
    <3> QED
      BY <3>1, <3>3
  <2>7. t \in bitmap' <=> af[t] > 0
    <3>1. PICK z \in Nat : z = af[t]
      BY <2>5
    <3>2. t \in bitmap' <=> (IF ~(z = 0 <=> g = 0) THEN t \notin bitmap ELSE t \in bitmap)
      BY <1>4, <2>2, <3>1, Zenon
    <3>3. g \in Nat
      BY <2>1, <2>3
    <3>4. (z = 0 <=> ~(z > 0)) /\ (g = 0 <=> ~(g > 0))
      BY <3>1, <3>3
    <3>5. t \in bitmap' <=> z > 0
      BY <2>3, <3>2, <3>4, Zenon
    <3> QED
      BY <3>1, <3>5, Zenon
  <2> QED
    BY <1>4, <2>1, <2>5, <2>6, <2>7, Zenon
<1>7. Booked'
  BY <1>6 DEF Booked
<1>8. liquidity' \in Nat /\ liquidity' = SumFunction(InForce(tick))'
  <2>1. tick \in Int
    BY TickInt
  <2>2. /\ SumFunction(InForce(tick)') \in Nat /\ SumFunction(InForce(tick)) \in Nat
        /\ SumFunction(InForce(tick)') = SumFunction(InForce(tick)) + (IF lo <= tick /\ tick < hi THEN d ELSE 0)
    BY <1>2, <2>1
  <2> QED
    BY <1>4, <2>2
<1>9. gross' \in [Ticks -> Nat] /\ net' \in [Ticks -> Int] /\ bitmap' \subseteq Ticks
  <2>1. gross' = [t \in Ticks |-> gross'[t]]
    BY <1>3, <1>4
  <2>2. net' = [t \in Ticks |-> net'[t]]
    BY <1>4, <1>5
  <2>3. bitmap' \subseteq Ticks
    BY <1>4
  <2> QED
    BY <1>6, <2>1, <2>2, <2>3
<1> QED
  BY <1>7, <1>8, <1>9

\* Amounts rounded either way are on their side of the exact one.
LEMMA AmountsRight ==
  ASSUME NEW a \in Nat \ {0}, NEW b \in Nat \ {0}, a <= b, NEW liq \in Nat, NEW up \in BOOLEAN
  PROVE  /\ \E w \in Nat : Right0(a, b, liq, up, w)
         /\ \E w \in Nat : Right1(a, b, liq, up, w)
<1>0. a \in Nat /\ b \in Nat
  OBVIOUS
<1>1. CASE up = TRUE
  <2>1. PICK v \in Nat : v = Amount0(a, b, liq, TRUE) /\ liq * Q * (b - a) <= b * (a * v)
    BY Amount0UpIs, Zenon
  <2>2. PICK w \in Nat : w = Amount1(a, b, liq, TRUE) /\ liq * (b - a) <= Q * w
    BY <1>0, Amount1UpIs, Zenon
  <2> QED
    BY <1>1, <2>1, <2>2, Zenon DEF Right0, Right1
<1>2. CASE up = FALSE
  <2>1. PICK v \in Nat : v = Amount0(a, b, liq, FALSE) /\ b * (a * v) <= liq * Q * (b - a)
    BY Amount0DownIs, Zenon
  <2>2. PICK w \in Nat : w = Amount1(a, b, liq, FALSE) /\ Q * w <= liq * (b - a)
    BY <1>0, Amount1DownIs, Zenon
  <2> QED
    BY <1>2, <2>1, <2>2, Zenon DEF Right0, Right1
<1> QED
  BY <1>1, <1>2

\* Token 0 of a whole range, and of the part above the price, without fractions.
LEMMA WholeScaled ==
  ASSUME NEW a \in Nat \ {0}, NEW b \in Nat \ {0}, NEW x \in Nat \ {0}, NEW y \in Nat \ {0},
         NEW m \in Nat \ {0}, m = a * x, m = b * y,
         NEW liq \in Nat, NEW q \in Nat, NEW w \in Nat, NEW p \in Nat
  PROVE  /\ liq * q * (b - a) <= b * (a * w) => q * (liq * (p * (x - y))) <= p * (m * w)
         /\ b * (a * w) <= liq * q * (b - a) => p * (m * w) <= q * (liq * (p * (x - y)))
<1>1. PICK e \in Int, u \in Int, s \in Int, z \in Int :
        /\ e = liq * q * (b - a) /\ u = b * (a * w) /\ s = q * (liq * (x - y)) /\ z = m * w
  <2>1. liq * q * (b - a) \in Int /\ b * (a * w) \in Int /\ q * (liq * (x - y)) \in Int /\ m * w \in Int
    OBVIOUS
  <2> QED
    BY <2>1
<1>2. PICK c \in Nat : c = x * y
  BY MulCount
<1>3. c * e = m * s
  <2>1. (x * y) * (liq * q * (b - a)) = q * (liq * (x * (b * y) - y * (a * x)))
    OBVIOUS
  <2>2. m * (q * (liq * (x - y))) = q * (liq * (x * m - y * m))
    OBVIOUS
  <2>3. (x * y) * (liq * q * (b - a)) = q * (liq * (x * m - y * m))
    BY <2>1, Zenon
  <2> QED
    BY <1>1, <1>2, <2>2, <2>3, Zenon
<1>4. c * u = m * z
  <2>1. (x * y) * (b * (a * w)) = (a * x) * ((b * y) * w)
    OBVIOUS
  <2> QED
    BY <1>1, <1>2, <2>1, Zenon
<1>5. p * s = q * (liq * (p * (x - y))) /\ p * z = p * (m * w)
  <2>1. p * (q * (liq * (x - y))) = q * (liq * (p * (x - y)))
    OBVIOUS
  <2> QED
    BY <1>1, <2>1, Zenon
<1>6. ASSUME e <= u PROVE p * s <= p * z
  <2>1. c * e <= c * u
    BY <1>6, IntUp
  <2>2. s <= z
    BY <1>3, <1>4, <2>1, IntDown
  <2> QED
    BY <2>2, IntUp
<1>7. ASSUME u <= e PROVE p * z <= p * s
  <2>1. c * u <= c * e
    BY <1>7, IntUp
  <2>2. z <= s
    BY <1>3, <1>4, <2>1, IntDown
  <2> QED
    BY <2>2, IntUp
<1> QED
  BY <1>1, <1>5, <1>6, <1>7, Zenon

\* The same for the part of a range above the price.
LEMMA PartScaled ==
  ASSUME NEW b \in Nat \ {0}, NEW y \in Nat \ {0}, NEW m \in Nat \ {0}, m = b * y,
         NEW liq \in Nat, NEW q \in Nat, NEW w \in Nat, NEW p \in Nat
  PROVE  /\ liq * q * (b - p) <= b * (p * w) => q * (liq * (m - p * y)) <= p * (m * w)
         /\ b * (p * w) <= liq * q * (b - p) => p * (m * w) <= q * (liq * (m - p * y))
<1>1. PICK e \in Int, u \in Int : e = liq * q * (b - p) /\ u = b * (p * w)
  <2>1. liq * q * (b - p) \in Int /\ b * (p * w) \in Int
    OBVIOUS
  <2> QED
    BY <2>1
<1>2. y * e = q * (liq * (m - p * y))
  <2>1. y * (liq * q * (b - p)) = q * (liq * (b * y - p * y))
    OBVIOUS
  <2> QED
    BY <1>1, <2>1, Zenon
<1>3. y * u = p * (m * w)
  <2>1. y * (b * (p * w)) = p * ((b * y) * w)
    OBVIOUS
  <2> QED
    BY <1>1, <2>1, Zenon
<1>4. (e <= u => y * e <= y * u) /\ (u <= e => y * u <= y * e)
  BY IntUp
<1> QED
  BY <1>1, <1>2, <1>3, <1>4, Zenon

\* What a position is worth is rounded, in both tokens, to the side that is asked.
LEMMA WorthIsRight ==
  ASSUME InStep, NEW r \in Ranges, NEW liq \in Nat, NEW up \in BOOLEAN
  PROVE  \E w0, w1 \in Nat : WorthRight(r, liq, up, w0, w1)
<1>1. /\ r[1] \in Ticks /\ r[2] \in Ticks /\ r[1] < r[2] /\ r[1] \in Int /\ r[2] \in Int
  <2>1. r[1] \in Ticks /\ r[2] \in Ticks /\ r[1] < r[2]
    BY V3Assumption
  <2> QED
    BY <2>1, TickRange
<1>2. PICK lo \in Int, hi \in Int : lo = r[1] /\ hi = r[2] /\ lo < hi /\ lo \in Ticks /\ hi \in Ticks
  BY <1>1
<1>3. PICK a \in Nat \ {0}, b \in Nat \ {0} : a = SqrtPrice[lo] /\ b = SqrtPrice[hi]
  BY <1>2, PriceOf
<1>4. a <= b
  BY <1>2, <1>3, Order
<1>5. PICK m \in Nat \ {0}, x \in Nat \ {0}, y \in Nat \ {0} :
        m = Common /\ x = PerTick(lo) /\ y = PerTick(hi) /\ m = a * x /\ m = b * y
  BY <1>2, <1>3, CommonIs
<1>6. PICK q \in Nat \ {0} : q = Q
  BY PriceScale
<1>7. PICK p \in Nat \ {0}, t \in Int : p = price /\ t = tick /\ tick \in Ticks /\ tick + 1 \in Ticks
  BY InPrices, TickRange DEF InStep
<1>8. /\ Worth(r, liq, up) = IF t < lo THEN <<Amount0(a, b, liq, up), 0>>
                             ELSE IF t < hi THEN <<Amount0(p, b, liq, up), Amount1(a, p, liq, up)>>
                             ELSE <<0, Amount1(a, b, liq, up)>>
      /\ Share0(r, p, t) = IF t < lo THEN p * (x - y) ELSE IF t < hi THEN m - p * y ELSE 0
      /\ Share1(r, p, t) = IF t < lo THEN 0 ELSE IF t < hi THEN p - a ELSE b - a
  BY <1>2, <1>3, <1>5, <1>7, Zenon DEF Worth, Share0, Share1
<1>9. SUFFICES \E w0, w1 \in Nat :
        /\ Worth(r, liq, up) = <<w0, w1>>
        /\ IF up THEN /\ liq * Share1(r, p, t) <= q * w1
                      /\ q * (liq * Share0(r, p, t)) <= p * (m * w0)
                 ELSE /\ q * w1 <= liq * Share1(r, p, t)
                      /\ p * (m * w0) <= q * (liq * Share0(r, p, t))
  BY <1>5, <1>6, <1>7, Zenon DEF WorthRight
<1>10. p * (m * 0) = 0 /\ q * 0 = 0 /\ liq * 0 = 0 /\ q * (liq * 0) = 0 /\ 0 <= 0 /\ 0 \in Nat
  OBVIOUS
<1>11. CASE t < lo
  <2>1. PICK w \in Nat : Right0(a, b, liq, up, w)
    BY <1>4, AmountsRight
  <2>2. /\ Amount0(a, b, liq, up) = w
        /\ IF up THEN liq * q * (b - a) <= b * (a * w) ELSE b * (a * w) <= liq * q * (b - a)
    BY <1>6, <2>1, Zenon DEF Right0
  <2>3. IF up THEN q * (liq * (p * (x - y))) <= p * (m * w) ELSE p * (m * w) <= q * (liq * (p * (x - y)))
    <3>1. /\ liq * q * (b - a) <= b * (a * w) => q * (liq * (p * (x - y))) <= p * (m * w)
          /\ b * (a * w) <= liq * q * (b - a) => p * (m * w) <= q * (liq * (p * (x - y)))
      BY <1>5, WholeScaled
    <3> QED
      BY <2>2, <3>1, Zenon
  <2>4. Worth(r, liq, up) = <<w, 0>> /\ Share0(r, p, t) = p * (x - y) /\ Share1(r, p, t) = 0
    BY <1>8, <1>11, <2>2, Zenon
  <2> QED
    BY <1>10, <2>3, <2>4, Zenon
<1>12. CASE ~(t < lo) /\ t < hi
  <2>0. a <= p /\ p <= b
    <3>1. SqrtPrice[lo] <= SqrtPrice[tick] /\ SqrtPrice[tick + 1] <= SqrtPrice[hi]
      <4>1. lo <= tick /\ tick + 1 <= hi
        BY <1>2, <1>7, <1>12
      <4> QED
        BY <1>2, <1>7, <4>1, Order
    <3>2. SqrtPrice[tick] \in Nat /\ SqrtPrice[tick + 1] \in Nat
      BY <1>7, PriceOf
    <3>3. SqrtPrice[tick] <= p /\ p <= SqrtPrice[tick + 1]
      BY <1>7 DEF InStep
    <3> QED
      BY <1>3, <3>1, <3>2, <3>3
  <2>1. PICK w \in Nat : Right0(p, b, liq, up, w)
    BY <2>0, AmountsRight
  <2>2. PICK v \in Nat : Right1(a, p, liq, up, v)
    BY <2>0, AmountsRight
  <2>3. /\ Amount0(p, b, liq, up) = w
        /\ IF up THEN liq * q * (b - p) <= b * (p * w) ELSE b * (p * w) <= liq * q * (b - p)
    BY <1>6, <2>1, Zenon DEF Right0
  <2>4. /\ Amount1(a, p, liq, up) = v
        /\ IF up THEN liq * (p - a) <= q * v ELSE q * v <= liq * (p - a)
    BY <1>6, <2>2, Zenon DEF Right1
  <2>5. IF up THEN q * (liq * (m - p * y)) <= p * (m * w) ELSE p * (m * w) <= q * (liq * (m - p * y))
    <3>1. /\ liq * q * (b - p) <= b * (p * w) => q * (liq * (m - p * y)) <= p * (m * w)
          /\ b * (p * w) <= liq * q * (b - p) => p * (m * w) <= q * (liq * (m - p * y))
      BY <1>5, PartScaled
    <3> QED
      BY <2>3, <3>1, Zenon
  <2>6. Worth(r, liq, up) = <<w, v>> /\ Share0(r, p, t) = m - p * y /\ Share1(r, p, t) = p - a
    BY <1>8, <1>12, <2>3, <2>4, Zenon
  <2> QED
    BY <2>4, <2>5, <2>6, Zenon
<1>13. CASE ~(t < lo) /\ ~(t < hi)
  <2>2. PICK v \in Nat : Right1(a, b, liq, up, v)
    BY <1>4, AmountsRight
  <2>4. /\ Amount1(a, b, liq, up) = v
        /\ IF up THEN liq * (b - a) <= q * v ELSE q * v <= liq * (b - a)
    BY <1>6, <2>2, Zenon DEF Right1
  <2>6. Worth(r, liq, up) = <<0, v>> /\ Share0(r, p, t) = 0 /\ Share1(r, p, t) = b - a
    BY <1>8, <1>13, <2>4, Zenon
  <2> QED
    BY <1>10, <2>4, <2>6, Zenon
<1> QED
  BY <1>11, <1>12, <1>13

\* Adding to one key of a function of integers adds to its sum.
LEMMA SumOfIntsAdded ==
  ASSUME NEW f \in [Keys -> Int], NEW g \in [Keys -> Int], NEW key \in Keys, NEW e \in Int,
         Added(f, g, key, e)
  PROVE  SumFunction(g) = SumFunction(f) + e /\ SumFunction(f) \in Int /\ SumFunction(g) \in Int
<1>1. IsFiniteSet(Keys)
  BY KeysAre
<1>2. (\A k \in Keys \ {key} : g[k] = f[k]) /\ g[key] = f[key] + e
  BY DEF Added
<1>3. SumFunction(g) = SumFunction(f) + e
  BY <1>1, <1>2, SumOfAdded
<1> QED
  BY <1>1, <1>3, SumInt

\* The sums that Covers compares, after a change of one position.
LEMMA StakesChange ==
  ASSUME V3TypeOK, NEW o, NEW r \in Ranges, NEW d \in Int, Shifts(o, r, d),
         NEW w0 \in Int, NEW w1 \in Int, OwedShifts(o, r, w0, w1),
         NEW p \in Nat, NEW t \in Int
  PROVE  /\ SumFunction(Stake0(p, t)') = SumFunction(Stake0(p, t)) + d * Share0(r, p, t)
         /\ SumFunction(Stake1(p, t)') = SumFunction(Stake1(p, t)) + d * Share1(r, p, t)
         /\ SumFunction(Owed(1)') = SumFunction(Owed(1)) + w0
         /\ SumFunction(Owed(2)') = SumFunction(Owed(2)) + w1
<1>0. PICK key : key = <<o, r>> /\ key \in Keys /\ key[2] = r
  BY DEF Shifts
<1>1. PICK x, y : x = positions /\ y = positions'
  OBVIOUS
<1>2. /\ x \in [Keys -> [liq : Nat, owed : Nat \X Nat]] /\ y \in [Keys -> [liq : Nat, owed : Nat \X Nat]]
      /\ \A k \in Keys : y[k].liq = x[k].liq + (IF k = key THEN d ELSE 0)
      /\ \A k \in Keys : /\ y[k].owed[1] = x[k].owed[1] + (IF k = key THEN w0 ELSE 0)
                         /\ y[k].owed[2] = x[k].owed[2] + (IF k = key THEN w1 ELSE 0)
  BY <1>0, <1>1, Zenon DEF V3TypeOK, Shifts, OwedShifts
<1>3. \A k \in Keys : /\ x[k].liq \in Nat /\ y[k].liq \in Nat
                      /\ x[k].owed[1] \in Nat /\ x[k].owed[2] \in Nat
                      /\ y[k].owed[1] \in Nat /\ y[k].owed[2] \in Nat
  BY <1>2
<1>4. PICK v0, v1 : /\ v0 = [k \in Keys |-> Share0(k[2], p, t)]
                    /\ v1 = [k \in Keys |-> Share1(k[2], p, t)]
  OBVIOUS
<1>5. /\ v0 \in [Keys -> Int] /\ v1 \in [Keys -> Int]
      /\ v0[key] = Share0(r, p, t) /\ v1[key] = Share1(r, p, t)
  <2>1. \A k \in Keys : Share0(k[2], p, t) \in Int /\ Share1(k[2], p, t) \in Int
    BY KeysAre, SharesInt
  <2> QED
    BY <1>0, <1>4, <2>1
<1> DEFINE G0(z) == [k \in Keys |-> z[k].liq * v0[k]]
           G1(z) == [k \in Keys |-> z[k].liq * v1[k]]
           W(z, i) == [k \in Keys |-> z[k].owed[i]]
<1>6. /\ Stake0(p, t) = G0(x) /\ Stake0(p, t)' = G0(y)
      /\ Stake1(p, t) = G1(x) /\ Stake1(p, t)' = G1(y)
  <2>1. \A k \in Keys : v0[k] = Share0(k[2], p, t) /\ v1[k] = Share1(k[2], p, t)
    BY <1>4, Zenon
  <2>2. \A k \in Keys : /\ x[k].liq * v0[k] = x[k].liq * Share0(k[2], p, t)
                        /\ y[k].liq * v0[k] = y[k].liq * Share0(k[2], p, t)
                        /\ x[k].liq * v1[k] = x[k].liq * Share1(k[2], p, t)
                        /\ y[k].liq * v1[k] = y[k].liq * Share1(k[2], p, t)
    BY <2>1, Zenon
  <2>3. /\ Stake0(p, t) = [k \in Keys |-> x[k].liq * Share0(k[2], p, t)]
        /\ Stake0(p, t)' = [k \in Keys |-> y[k].liq * Share0(k[2], p, t)]
        /\ Stake1(p, t) = [k \in Keys |-> x[k].liq * Share1(k[2], p, t)]
        /\ Stake1(p, t)' = [k \in Keys |-> y[k].liq * Share1(k[2], p, t)]
    BY <1>1, Zenon DEF Stake0, Stake1
  <2> QED
    BY <2>2, <2>3
<1>7. /\ Owed(1) = W(x, 1) /\ Owed(1)' = W(y, 1) /\ Owed(2) = W(x, 2) /\ Owed(2)' = W(y, 2)
  BY <1>1, Zenon DEF Owed
<1>8. PICK f0 \in [Keys -> Int], f1 \in [Keys -> Int], g0 \in [Keys -> Int], g1 \in [Keys -> Int] :
        f0 = G0(x) /\ f1 = G1(x) /\ g0 = G0(y) /\ g1 = G1(y)
  <2>1. \A k \in Keys : /\ x[k].liq * v0[k] \in Int /\ y[k].liq * v0[k] \in Int
                        /\ x[k].liq * v1[k] \in Int /\ y[k].liq * v1[k] \in Int
    <3>1. SUFFICES ASSUME NEW k \in Keys
                   PROVE  /\ x[k].liq * v0[k] \in Int /\ y[k].liq * v0[k] \in Int
                          /\ x[k].liq * v1[k] \in Int /\ y[k].liq * v1[k] \in Int
      OBVIOUS
    <3>2. PICK a \in Int, b \in Int, c \in Int, e \in Int :
            a = x[k].liq /\ b = y[k].liq /\ c = v0[k] /\ e = v1[k]
      BY <1>3, <1>5
    <3>3. a * c \in Int /\ b * c \in Int /\ a * e \in Int /\ b * e \in Int
      OBVIOUS
    <3> QED
      BY <3>2, <3>3, Zenon
  <2>2. G0(x) \in [Keys -> Int] /\ G0(y) \in [Keys -> Int]
    BY <2>1
  <2>3. G1(x) \in [Keys -> Int] /\ G1(y) \in [Keys -> Int]
    BY <2>1
  <2> QED
    BY <2>2, <2>3, Zenon
<1>9. PICK a0 \in [Keys -> Int], a1 \in [Keys -> Int], b0 \in [Keys -> Int], b1 \in [Keys -> Int] :
        a0 = W(x, 1) /\ a1 = W(x, 2) /\ b0 = W(y, 1) /\ b1 = W(y, 2)
  <2>1. W(x, 1) \in [Keys -> Int] /\ W(y, 1) \in [Keys -> Int]
    BY <1>3
  <2>2. W(x, 2) \in [Keys -> Int] /\ W(y, 2) \in [Keys -> Int]
    BY <1>3
  <2> QED
    BY <2>1, <2>2, Zenon
<1>10. PICK s0 \in Int, s1 \in Int, m0 \in Int, m1 \in Int :
         s0 = v0[key] /\ s1 = v1[key] /\ m0 = d * s0 /\ m1 = d * s1
  <2>1. PICK s0 \in Int, s1 \in Int : s0 = v0[key] /\ s1 = v1[key]
    BY <1>0, <1>5
  <2>2. d * s0 \in Int /\ d * s1 \in Int
    OBVIOUS
  <2> QED
    BY <2>1, <2>2
<1>11. ASSUME NEW k \in Keys
       PROVE  /\ k # key => g0[k] = f0[k] /\ g1[k] = f1[k] /\ b0[k] = a0[k] /\ b1[k] = a1[k]
              /\ k = key => /\ g0[k] = f0[k] + m0 /\ g1[k] = f1[k] + m1
                            /\ b0[k] = a0[k] + w0 /\ b1[k] = a1[k] + w1
  <2>1. PICK a \in Int, b \in Int, c \in Int, e \in Int :
          /\ a = x[k].liq /\ b = y[k].liq /\ c = v0[k] /\ e = v1[k]
          /\ b = a + (IF k = key THEN d ELSE 0)
    <3>1. x[k].liq \in Int /\ y[k].liq \in Int /\ v0[k] \in Int /\ v1[k] \in Int
      BY <1>3, <1>5
    <3> QED
      BY <1>2, <3>1, Zenon
  <2>2. /\ f0[k] = a * c /\ f1[k] = a * e /\ g0[k] = b * c /\ g1[k] = b * e
    BY <1>8, <2>1, Zenon
  <2>3. PICK i0 \in Int, i1 \in Int, j0 \in Int, j1 \in Int :
          /\ i0 = a0[k] /\ i1 = a1[k] /\ j0 = b0[k] /\ j1 = b1[k]
          /\ j0 = i0 + (IF k = key THEN w0 ELSE 0) /\ j1 = i1 + (IF k = key THEN w1 ELSE 0)
    <3>1. a0[k] \in Int /\ a1[k] \in Int /\ b0[k] \in Int /\ b1[k] \in Int
      OBVIOUS
    <3>2. /\ b0[k] = a0[k] + (IF k = key THEN w0 ELSE 0)
          /\ b1[k] = a1[k] + (IF k = key THEN w1 ELSE 0)
      BY <1>2, <1>9, Zenon
    <3> QED
      BY <3>1, <3>2, Zenon
  <2>4. CASE k = key
    <3>1. b = a + d /\ c = s0 /\ e = s1 /\ j0 = i0 + w0 /\ j1 = i1 + w1
      BY <1>10, <2>1, <2>3, <2>4, Zenon
    <3>2. (a + d) * s0 = a * s0 + d * s0 /\ (a + d) * s1 = a * s1 + d * s1
      OBVIOUS
    <3>3. g0[k] = f0[k] + m0 /\ g1[k] = f1[k] + m1
      BY <1>10, <2>2, <3>1, <3>2, Zenon
    <3> QED
      BY <2>3, <2>4, <3>1, <3>3, Zenon
  <2>5. CASE k # key
    <3>1. b = a /\ j0 = i0 /\ j1 = i1
      BY <2>1, <2>3, <2>5
    <3> QED
      BY <2>2, <2>3, <2>5, <3>1, Zenon
  <2> QED
    BY <2>4, <2>5
<1> HIDE DEF G0, G1, W
<1>12. /\ SumFunction(g0) = SumFunction(f0) + m0 /\ SumFunction(g1) = SumFunction(f1) + m1
       /\ SumFunction(b0) = SumFunction(a0) + w0 /\ SumFunction(b1) = SumFunction(a1) + w1
  <2>0. key \in Keys
    BY <1>0
  <2>1. Added(f0, g0, key, m0)
    BY <1>11, <2>0 DEF Added
  <2>2. Added(f1, g1, key, m1)
    BY <1>11, <2>0 DEF Added
  <2>3. Added(a0, b0, key, w0)
    BY <1>11, <2>0 DEF Added
  <2>4. Added(a1, b1, key, w1)
    BY <1>11, <2>0 DEF Added
  <2> QED
    BY <2>0, <2>1, <2>2, <2>3, <2>4, SumOfIntsAdded
<1>13. /\ f0 = Stake0(p, t) /\ g0 = Stake0(p, t)' /\ f1 = Stake1(p, t) /\ g1 = Stake1(p, t)'
       /\ a0 = Owed(1) /\ a1 = Owed(2) /\ b0 = Owed(1)' /\ b1 = Owed(2)'
  BY <1>6, <1>7, <1>8, <1>9, Zenon
<1>14. m0 = d * Share0(r, p, t) /\ m1 = d * Share1(r, p, t)
  BY <1>5, <1>10, Zenon
<1> QED
  BY <1>12, <1>13, <1>14, Zenon

\* A change of one position leaves the pool backed, if what comes in and what
\* comes to be owed match what its stake changes by.
LEMMA BackedChanges ==
  ASSUME V3TypeOK, NEW o, NEW r \in Ranges, NEW d \in Int, Shifts(o, r, d),
         NEW w0 \in Int, NEW w1 \in Int, OwedShifts(o, r, w0, w1),
         NEW p \in Nat, NEW t \in Int, NEW h0 \in Int, NEW h1 \in Int, NEW e0 \in Int, NEW e1 \in Int,
         Covers(p, t, h0, h1),
         d * Share1(r, p, t) <= Q * (e1 - w1),
         Q * (d * Share0(r, p, t)) <= p * (Common * (e0 - w0))
  PROVE  Covers(p, t, h0 + e0, h1 + e1)'
<1>1. PICK q \in Nat, m \in Nat, s0 \in Int, s1 \in Int, f \in Int, g \in Int, a \in Int, b \in Int :
        /\ q = Q /\ m = Common /\ s0 = Share0(r, p, t) /\ s1 = Share1(r, p, t)
        /\ f = SumFunction(Stake0(p, t)) /\ g = SumFunction(Stake1(p, t))
        /\ a = SumFunction(Owed(1)) /\ b = SumFunction(Owed(2))
  <2>1. SumFunction(Owed(1)) \in Int /\ SumFunction(Owed(2)) \in Int
    <3>1. 1 \in 1..2 /\ 2 \in 1..2
      OBVIOUS
    <3> QED
      BY <3>1, OwedSums
  <2>2. Q \in Nat /\ Common \in Nat
    BY PriceScale, CommonIs
  <2>3. Share0(r, p, t) \in Int /\ Share1(r, p, t) \in Int
    BY SharesInt
  <2>4. SumFunction(Stake0(p, t)) \in Int /\ SumFunction(Stake1(p, t)) \in Int
    BY StakeSums
  <2> QED
    BY <2>1, <2>2, <2>3, <2>4, Zenon
<1>2. /\ SumFunction(Stake0(p, t)') = f + d * s0 /\ SumFunction(Stake1(p, t)') = g + d * s1
      /\ SumFunction(Owed(1)') = a + w0 /\ SumFunction(Owed(2)') = b + w1
  <2>1. /\ SumFunction(Stake0(p, t)') = SumFunction(Stake0(p, t)) + d * Share0(r, p, t)
        /\ SumFunction(Stake1(p, t)') = SumFunction(Stake1(p, t)) + d * Share1(r, p, t)
        /\ SumFunction(Owed(1)') = SumFunction(Owed(1)) + w0
        /\ SumFunction(Owed(2)') = SumFunction(Owed(2)) + w1
    BY StakesChange
  <2> QED
    BY <1>1, <2>1, Zenon
<1>3. /\ g <= q * (h1 - b) /\ q * f <= p * (m * (h0 - a))
      /\ d * s1 <= q * (e1 - w1) /\ q * (d * s0) <= p * (m * (e0 - w0))
  BY <1>1, Zenon DEF Covers
<1>4. g + d * s1 <= q * ((h1 + e1) - (b + w1))
  <2>1. q * ((h1 + e1) - (b + w1)) = q * (h1 - b) + q * (e1 - w1)
    OBVIOUS
  <2>2. d * s1 \in Int /\ q * (h1 - b) \in Int /\ q * (e1 - w1) \in Int
    OBVIOUS
  <2> QED
    BY <1>3, <2>1, <2>2
<1>5. q * (f + d * s0) <= p * (m * ((h0 + e0) - (a + w0)))
  <2>1. p * (m * ((h0 + e0) - (a + w0))) = p * (m * (h0 - a)) + p * (m * (e0 - w0))
    OBVIOUS
  <2>2. q * (f + d * s0) = q * f + q * (d * s0)
    OBVIOUS
  <2>3. q * f \in Int /\ q * (d * s0) \in Int /\ p * (m * (h0 - a)) \in Int /\ p * (m * (e0 - w0)) \in Int
    OBVIOUS
  <2> QED
    BY <1>3, <2>1, <2>2, <2>3
<1>6. /\ SumFunction(Stake1(p, t)') <= Q * ((h1 + e1) - SumFunction(Owed(2)'))
      /\ Q * SumFunction(Stake0(p, t)') <= p * (Common * ((h0 + e0) - SumFunction(Owed(1)')))
  BY <1>1, <1>2, <1>4, <1>5, Zenon
<1> QED
  BY <1>6, Zenon DEF Covers

-----------------------------------------------------------------------------
(***************************************************************************)
(* The invariant of the pool, kept by every call.                          *)
(***************************************************************************)
\* What the invariant says at once.
LEMMA PoolFacts ==
  ASSUME TotalsInv
  PROVE  /\ V3TypeOK /\ Booked /\ liquidity = SumFunction(InForce(tick))
         /\ price # 0 => InStep
<1>1. V3TypeOK /\ Booked /\ liquidity = SumFunction(InForce(tick))
  BY Zenon DEF TotalsInv, TotalsAgree, Booked
<1>2. price # 0 => SqrtPrice[tick] <= price /\ price <= SqrtPrice[tick + 1]
  BY Zenon DEF TotalsInv, TotalsAgree
<1>3. price # 0 => price \in Prices /\ tick \in MinTick..(MaxTick - 1)
  BY <1>1, Zenon DEF V3TypeOK, Prices
<1> QED
  BY <1>1, <1>2, <1>3, Zenon DEF InStep

\* To change no liquidity is to change no tick.
LEMMA ModifyNone ==
  ASSUME V3TypeOK, UNCHANGED <<liquidity, gross, net, bitmap>>, NEW r \in Ranges
  PROVE  ModifyTicks(r, 0)
<1>1. /\ liquidity' = liquidity /\ gross' = gross /\ net' = net /\ bitmap' = bitmap
      /\ liquidity \in Nat /\ gross \in [Ticks -> Nat] /\ net \in [Ticks -> Int] /\ bitmap \subseteq Ticks
  BY DEF V3TypeOK
<1> DEFINE after == [t \in Ticks |-> IF t \in {r[1], r[2]} THEN gross[t] + 0 ELSE gross[t]]
           moved == [t \in Ticks |-> IF t = r[1] THEN net[t] + 0 ELSE IF t = r[2] THEN net[t] - 0 ELSE net[t]]
           bits  == {t \in Ticks : IF ~(after[t] = 0 <=> gross[t] = 0) THEN t \notin bitmap ELSE t \in bitmap}
<1>2. after = gross
  BY <1>1
<1>3. moved = net
  BY <1>1
<1> HIDE DEF after
<1>4. bits = bitmap
  BY <1>1, <1>2
<1> HIDE DEF moved, bits
<1>5. liquidity = IF InRange(r) THEN liquidity + 0 ELSE liquidity
  BY <1>1
<1> QED
  BY <1>1, <1>2, <1>3, <1>4, <1>5, Zenon DEF ModifyTicks, after, moved, bits

\* One position's change, as mint, burn and collect make it, keeps the invariant.
LEMMA PoolChange ==
  ASSUME TotalsInv, price # 0, NEW o, NEW r \in Ranges, NEW d \in Int, Shifts(o, r, d),
         NEW w0 \in Int, NEW w1 \in Int, OwedShifts(o, r, w0, w1), ModifyTicks(r, d),
         NEW e0 \in Int, NEW e1 \in Int, holding' \in [TokenIds -> Nat],
         holding'[0] = holding[0] + e0, holding'[1] = holding[1] + e1,
         UNCHANGED <<price, tick>>, RestTyped,
         d * Share1(r, price, tick) <= Q * (e1 - w1),
         Q * (d * Share0(r, price, tick)) <= price * (Common * (e0 - w0))
  PROVE  TotalsInv'
<1>0. V3TypeOK /\ Booked /\ liquidity = SumFunction(InForce(tick)) /\ InStep
  BY PoolFacts
<1>1. price' = price /\ tick' = tick
  OBVIOUS
<1>2. /\ gross' \in [Ticks -> Nat] /\ net' \in [Ticks -> Int] /\ bitmap' \subseteq Ticks
      /\ liquidity' \in Nat /\ liquidity' = SumFunction(InForce(tick))'
      /\ Booked'
  BY <1>0, <1>1, ModifyKeeps
<1>3. V3TypeOK'
  <2>1. positions' \in [Keys -> [liq : Nat, owed : Nat \X Nat]]
    BY Zenon DEF Shifts
  <2>2. /\ price' \in SqrtPrice[MinTick]..(SqrtPrice[MaxTick] - 1)
        /\ tick' \in MinTick..(MaxTick - 1)
    BY <1>0, <1>1, Zenon DEF InStep, Prices
  <2> QED
    BY <1>2, <2>1, <2>2, Zenon DEF V3TypeOK, RestTyped
<1>4. TotalsAgree'
  <2>1. SqrtPrice[tick'] <= price' /\ price' <= SqrtPrice[tick' + 1]
    BY <1>0, <1>1, Zenon DEF InStep
  <2> QED
    BY <1>2, <1>3, <2>1, Zenon DEF TotalsAgree, Booked
<1>5. PICK p \in Nat, t \in Int : p = price /\ t = tick
  <2>1. price \in Nat
    BY <1>0, InPrices DEF InStep
  <2>2. tick \in Int
    BY <1>0, TickInt
  <2> QED
    BY <2>1, <2>2
<1>6. PICK h0 \in Int, h1 \in Int : h0 = holding[0] /\ h1 = holding[1]
  BY <1>0 DEF V3TypeOK, TokenIds
<1>7. Covers(p, t, h0 + e0, h1 + e1)'
  <2>1. Covers(p, t, h0, h1)
    BY <1>5, <1>6, Zenon DEF TotalsInv
  <2>2. /\ d * Share1(r, p, t) <= Q * (e1 - w1)
        /\ Q * (d * Share0(r, p, t)) <= p * (Common * (e0 - w0))
    BY <1>5, Zenon
  <2> QED
    BY <1>0, <2>1, <2>2, BackedChanges
<1>8. Covers(price, tick, holding[0], holding[1])'
  <2>1. /\ SumFunction(Stake1(p, t)') <= Q * ((h1 + e1) - SumFunction(Owed(2)'))
        /\ Q * SumFunction(Stake0(p, t)') <= p * (Common * ((h0 + e0) - SumFunction(Owed(1)')))
    BY <1>7, Zenon DEF Covers
  <2>2. p = price' /\ t = tick' /\ holding'[0] = h0 + e0 /\ holding'[1] = h1 + e1
    BY <1>1, <1>5, <1>6, Zenon
  <2>3. Stake1(p, t)' = Stake1(price, tick)' /\ Stake0(p, t)' = Stake0(price, tick)'
    BY <2>2, Zenon DEF Stake0, Stake1
  <2> QED
    BY <2>1, <2>2, <2>3, Zenon DEF Covers
<1> QED
  BY <1>1, <1>4, <1>8, Zenon DEF TotalsInv

\* An owner and a range are a key.
LEMMA KeyOf ==
  ASSUME NEW o \in Owners, NEW r \in Ranges
  PROVE  <<o, r>> \in Keys
BY DEF Keys

\* The parts of a pair.
LEMMA PairOf ==
  ASSUME NEW x, NEW a, NEW b, x = <<a, b>>
  PROVE  x[1] = a /\ x[2] = b
OBVIOUS

\* mint takes what the new liquidity is worth, rounded up.
LEMMA MintKeeps ==
  ASSUME TotalsInv, NEW o \in Owners, NEW r \in Ranges, NEW liq \in Nat, MintTo(o, r, liq), RestTyped
  PROVE  TotalsInv' /\ price # 0 /\ Shifts(o, r, liq) /\ OwedShifts(o, r, 0, 0)
<1>0. price # 0 /\ ModifyTicks(r, liq) /\ UNCHANGED <<price, tick>>
      /\ positions' = [positions EXCEPT ![<<o, r>>].liq = @ + liq]
  BY Zenon DEF MintTo
<1>1. V3TypeOK /\ InStep
  BY <1>0, PoolFacts
<1>2. PICK w0 \in Nat, w1 \in Nat : WorthRight(r, liq, TRUE, w0, w1)
  BY <1>1, WorthIsRight, Zenon
<1>3. /\ Worth(r, liq, TRUE) = <<w0, w1>>
      /\ liq * Share1(r, price, tick) <= Q * w1
      /\ Q * (liq * Share0(r, price, tick)) <= price * (Common * w0)
  BY <1>2, Zenon DEF WorthRight
<1>4. holding' = [t \in TokenIds |-> holding[t] + <<w0, w1>>[t + 1]]
  BY <1>3, Zenon DEF MintTo
<1>5. /\ holding' \in [TokenIds -> Nat]
      /\ holding'[0] = holding[0] + w0 /\ holding'[1] = holding[1] + w1
  <2>1. holding[0] \in Nat /\ holding[1] \in Nat
    BY <1>1 DEF V3TypeOK, TokenIds
  <2>2. \A t \in TokenIds : holding[t] + <<w0, w1>>[t + 1] \in Nat
    BY <2>1 DEF TokenIds
  <2>3. holding' \in [TokenIds -> Nat]
    BY <1>4, <2>2
  <2>4. 0 \in TokenIds /\ 1 \in TokenIds /\ <<w0, w1>>[0 + 1] = w0 /\ <<w0, w1>>[1 + 1] = w1
    BY DEF TokenIds
  <2> QED
    BY <1>4, <2>3, <2>4, Zenon
<1>6. <<o, r>> \in Keys
  BY KeyOf
<1>7. positions \in [Keys -> [liq : Nat, owed : Nat \X Nat]]
  BY <1>1 DEF V3TypeOK
<1>8. ASSUME NEW k \in Keys
      PROVE  /\ positions'[k].liq = positions[k].liq + (IF k = <<o, r>> THEN liq ELSE 0)
             /\ positions'[k].owed = positions[k].owed
             /\ positions'[k] \in [liq : Nat, owed : Nat \X Nat]
  <2>1. CASE k = <<o, r>>
    <3>1. positions'[k] = [positions[k] EXCEPT !.liq = @ + liq]
      BY <1>0, <1>6, <1>7, <2>1
    <3>2. positions[k] \in [liq : Nat, owed : Nat \X Nat]
      BY <1>7
    <3> QED
      BY <2>1, <3>1, <3>2
  <2>2. CASE k # <<o, r>>
    <3>1. positions'[k] = positions[k]
      BY <1>0, <1>6, <1>7, <2>2
    <3>2. positions[k] \in [liq : Nat, owed : Nat \X Nat]
      BY <1>7
    <3> QED
      BY <2>2, <3>1, <3>2
  <2> QED
    BY <2>1, <2>2
<1>9. Shifts(o, r, liq)
  <2>1. positions' = [k \in Keys |-> positions'[k]]
    BY <1>0, <1>7
  <2>2. positions' \in [Keys -> [liq : Nat, owed : Nat \X Nat]]
    BY <1>8, <2>1
  <2>3. \A k \in Keys : positions'[k].liq = positions[k].liq + (IF k = <<o, r>> THEN liq ELSE 0)
    BY <1>8
  <2> QED
    BY <1>6, <2>2, <2>3, Zenon DEF Shifts
<1>10. OwedShifts(o, r, 0, 0)
  <2>1. ASSUME NEW k \in Keys
        PROVE  /\ positions'[k].owed[1] = positions[k].owed[1] + 0
               /\ positions'[k].owed[2] = positions[k].owed[2] + 0
    <3>1. positions'[k].owed = positions[k].owed
      BY <1>8
    <3>2. positions[k].owed[1] \in Nat /\ positions[k].owed[2] \in Nat
      BY <1>7
    <3> QED
      BY <3>1, <3>2
  <2> QED
    BY <2>1, Zenon DEF OwedShifts
<1>11. /\ liq * Share1(r, price, tick) <= Q * (w1 - 0)
       /\ Q * (liq * Share0(r, price, tick)) <= price * (Common * (w0 - 0))
  <2>1. w1 - 0 = w1 /\ w0 - 0 = w0
    OBVIOUS
  <2> QED
    BY <1>3, <2>1, Zenon
<1>12. liq \in Int /\ 0 \in Int /\ w0 \in Int /\ w1 \in Int
  OBVIOUS
<1>13. TotalsInv'
  BY <1>0, <1>5, <1>9, <1>10, <1>11, <1>12, PoolChange
<1> QED
  BY <1>0, <1>9, <1>10, <1>13

\* burn comes to owe what the liquidity is worth, rounded down.
LEMMA BurnKeeps ==
  ASSUME TotalsInv, NEW o \in Owners, NEW r \in Ranges, NEW liq \in Nat, BurnFrom(o, r, liq), RestTyped
  PROVE  /\ TotalsInv' /\ price # 0
         /\ \E w0, w1 \in Nat : /\ Worth(r, liq, FALSE) = <<w0, w1>>
                                /\ Shifts(o, r, 0 - liq) /\ OwedShifts(o, r, w0, w1)
<1>0. price # 0 /\ ModifyTicks(r, -liq) /\ UNCHANGED <<price, tick, holding>>
      /\ liq <= positions[<<o, r>>].liq
  BY Zenon DEF BurnFrom
<1>1. V3TypeOK /\ InStep
  BY <1>0, PoolFacts
<1>2. PICK w0 \in Nat, w1 \in Nat : WorthRight(r, liq, FALSE, w0, w1)
  BY <1>1, WorthIsRight, Zenon
<1>3. /\ Worth(r, liq, FALSE) = <<w0, w1>>
      /\ Worth(r, liq, FALSE)[1] = w0 /\ Worth(r, liq, FALSE)[2] = w1
      /\ Q * w1 <= liq * Share1(r, price, tick)
      /\ price * (Common * w0) <= Q * (liq * Share0(r, price, tick))
  BY <1>2, PairOf, Zenon DEF WorthRight
<1>4. PICK key : key = <<o, r>> /\ key \in Keys
  BY KeyOf
<1>5. positions' = [positions EXCEPT
                      ![key] = [liq  |-> @.liq - liq, owed |-> <<@.owed[1] + w0, @.owed[2] + w1>>]]
  BY <1>3, <1>4, Zenon DEF BurnFrom
<1>7. positions \in [Keys -> [liq : Nat, owed : Nat \X Nat]]
  BY <1>1 DEF V3TypeOK
<1>8. ASSUME NEW k \in Keys
      PROVE  /\ positions'[k].liq = positions[k].liq + (IF k = key THEN 0 - liq ELSE 0)
             /\ positions'[k].owed[1] = positions[k].owed[1] + (IF k = key THEN w0 ELSE 0)
             /\ positions'[k].owed[2] = positions[k].owed[2] + (IF k = key THEN w1 ELSE 0)
             /\ positions'[k] \in [liq : Nat, owed : Nat \X Nat]
  <2>0. PICK x : x = positions[k] /\ x \in [liq : Nat, owed : Nat \X Nat]
    BY <1>7
  <2>1. CASE k = key
    <3>1. positions'[k] = [liq |-> x.liq - liq, owed |-> <<x.owed[1] + w0, x.owed[2] + w1>>]
      BY <1>4, <1>5, <1>7, <2>0, <2>1
    <3>2. liq <= x.liq /\ x.liq \in Nat /\ x.owed[1] \in Nat /\ x.owed[2] \in Nat
      BY <1>0, <1>4, <2>0, <2>1
    <3>3. x.liq - liq \in Nat /\ x.owed[1] + w0 \in Nat /\ x.owed[2] + w1 \in Nat
          /\ x.liq - liq = x.liq + (0 - liq)
      BY <3>2
    <3>4. /\ positions'[k].liq = x.liq - liq /\ positions'[k].owed[1] = x.owed[1] + w0
          /\ positions'[k].owed[2] = x.owed[2] + w1
          /\ positions'[k] \in [liq : Nat, owed : Nat \X Nat]
      BY <3>1, <3>3
    <3> QED
      BY <2>0, <2>1, <3>3, <3>4, Zenon
  <2>2. CASE k # key
    <3>1. positions'[k] = x
      BY <1>4, <1>5, <1>7, <2>0, <2>2
    <3>2. x.liq = x.liq + 0 /\ x.owed[1] = x.owed[1] + 0 /\ x.owed[2] = x.owed[2] + 0
      BY <2>0
    <3> QED
      BY <2>0, <2>2, <3>1, <3>2, Zenon
  <2> QED
    BY <2>1, <2>2
<1>9. Shifts(o, r, 0 - liq)
  <2>1. positions' = [k \in Keys |-> positions'[k]]
    BY <1>5, <1>7
  <2>2. positions' \in [Keys -> [liq : Nat, owed : Nat \X Nat]]
    BY <1>8, <2>1
  <2>3. \A k \in Keys : positions'[k].liq = positions[k].liq + (IF k = <<o, r>> THEN 0 - liq ELSE 0)
    BY <1>4, <1>8, Zenon
  <2> QED
    BY <1>4, <2>2, <2>3, Zenon DEF Shifts
<1>10. OwedShifts(o, r, w0, w1)
  BY <1>4, <1>8, Zenon DEF OwedShifts
<1>11. PICK d \in Int : d = 0 - liq
  OBVIOUS
<1>12. -liq = d
  BY <1>11
<1>13. /\ d * Share1(r, price, tick) <= Q * (0 - w1)
       /\ Q * (d * Share0(r, price, tick)) <= price * (Common * (0 - w0))
  <2>1. PICK p \in Nat, q \in Nat, m \in Nat, s0 \in Int, s1 \in Int :
          p = price /\ q = Q /\ m = Common /\ s0 = Share0(r, price, tick) /\ s1 = Share1(r, price, tick)
    <3>1. price \in Nat /\ Q \in Nat /\ Common \in Nat
      BY <1>1, InPrices, PriceScale, CommonIs DEF InStep
    <3>2. tick \in Int
      BY <1>1, TickInt
    <3>3. Share0(r, price, tick) \in Int /\ Share1(r, price, tick) \in Int
      BY <3>1, <3>2, SharesInt
    <3> QED
      BY <3>1, <3>3
  <2>2. q * w1 <= liq * s1 /\ p * (m * w0) <= q * (liq * s0)
    BY <1>3, <2>1, Zenon
  <2>3. /\ d * s1 = 0 - (liq * s1) /\ q * (0 - w1) = 0 - q * w1
        /\ q * (d * s0) = 0 - (q * (liq * s0)) /\ p * (m * (0 - w0)) = 0 - p * (m * w0)
    <3>1. /\ (0 - liq) * s1 = 0 - (liq * s1) /\ q * (0 - w1) = 0 - q * w1
          /\ q * ((0 - liq) * s0) = 0 - (q * (liq * s0)) /\ p * (m * (0 - w0)) = 0 - p * (m * w0)
      OBVIOUS
    <3> QED
      BY <1>11, <3>1, Zenon
  <2>4. liq * s1 \in Int /\ q * w1 \in Int /\ q * (liq * s0) \in Int /\ p * (m * w0) \in Int
    OBVIOUS
  <2>5. d * s1 <= q * (0 - w1) /\ q * (d * s0) <= p * (m * (0 - w0))
    BY <2>2, <2>3, <2>4
  <2> QED
    BY <2>1, <2>5, Zenon
<1>14. /\ holding' \in [TokenIds -> Nat] /\ holding'[0] = holding[0] + 0 /\ holding'[1] = holding[1] + 0
  BY <1>0, <1>1 DEF V3TypeOK, TokenIds
<1>15. ModifyTicks(r, d) /\ Shifts(o, r, d) /\ UNCHANGED <<price, tick>>
  BY <1>0, <1>9, <1>11, <1>12, Zenon
<1>16. w0 \in Int /\ w1 \in Int /\ 0 \in Int
  OBVIOUS
<1>17. TotalsInv'
  BY <1>0, <1>10, <1>13, <1>14, <1>15, <1>16, PoolChange
<1> QED
  BY <1>0, <1>3, <1>9, <1>10, <1>17, Zenon

\* What collect hands out is at most what is owed.
LEMMA GivenIs ==
  ASSUME V3TypeOK, NEW o \in Owners, NEW r \in Ranges, NEW asked \in Requests
  PROVE  \E g0, g1 \in Nat : /\ Given(o, r, asked) = <<g0, g1>>
                             /\ g0 <= positions[<<o, r>>].owed[1] /\ g1 <= positions[<<o, r>>].owed[2]
<1>1. PICK a \in Nat, b \in Nat : a = positions[<<o, r>>].owed[1] /\ b = positions[<<o, r>>].owed[2]
  <2>1. <<o, r>> \in Keys
    BY KeyOf
  <2> QED
    BY <2>1 DEF V3TypeOK
<1>2. PICK x \in Nat, y \in Nat : x = asked[1] /\ y = asked[2]
  BY DEF Requests
<1>3. PICK g0 \in Nat, g1 \in Nat : g0 = (IF x > a THEN a ELSE x) /\ g1 = (IF y > b THEN b ELSE y)
  OBVIOUS
<1>4. Given(o, r, asked) = <<g0, g1>>
  BY <1>1, <1>2, <1>3, Zenon DEF Given
<1>5. g0 <= a /\ g1 <= b
  BY <1>3
<1> QED
  BY <1>1, <1>4, <1>5, Zenon

\* collect pays what is no longer owed.
LEMMA CollectKeeps ==
  ASSUME TotalsInv, NEW o \in Owners, NEW r \in Ranges, NEW g0 \in Nat, NEW g1 \in Nat,
         g0 <= positions[<<o, r>>].owed[1], g1 <= positions[<<o, r>>].owed[2],
         CollectFrom(o, r, <<g0, g1>>), RestTyped
  PROVE  TotalsInv' /\ price # 0 /\ Shifts(o, r, 0) /\ OwedShifts(o, r, 0 - g0, 0 - g1)
<1>0. /\ price # 0 /\ UNCHANGED <<price, tick>> /\ UNCHANGED <<liquidity, gross, net, bitmap>>
      /\ \A t \in TokenIds : <<g0, g1>>[t + 1] <= holding[t]
      /\ positions' = [positions EXCEPT ![<<o, r>>].owed = <<@[1] - <<g0, g1>>[1], @[2] - <<g0, g1>>[2]>>]
      /\ holding' = [t \in TokenIds |-> holding[t] - <<g0, g1>>[t + 1]]
  BY Zenon DEF CollectFrom
<1>1. V3TypeOK /\ InStep
  BY <1>0, PoolFacts
<1>2. /\ holding' \in [TokenIds -> Nat]
      /\ holding'[0] = holding[0] + (0 - g0) /\ holding'[1] = holding[1] + (0 - g1)
  <2>1. holding[0] \in Nat /\ holding[1] \in Nat
    BY <1>1 DEF V3TypeOK, TokenIds
  <2>2. 0 \in TokenIds /\ 1 \in TokenIds /\ <<g0, g1>>[0 + 1] = g0 /\ <<g0, g1>>[1 + 1] = g1
    BY DEF TokenIds
  <2>3. g0 <= holding[0] /\ g1 <= holding[1]
    BY <1>0, <2>2, Zenon
  <2>4. \A t \in TokenIds : holding[t] - <<g0, g1>>[t + 1] \in Nat
    <3>1. holding[0] - g0 \in Nat /\ holding[1] - g1 \in Nat
      BY <2>1, <2>3
    <3>2. \A t \in TokenIds : t = 0 \/ t = 1
      BY DEF TokenIds
    <3> QED
      BY <2>2, <3>1, <3>2, Zenon
  <2>5. holding' \in [TokenIds -> Nat]
    BY <1>0, <2>4
  <2>6. holding'[0] = holding[0] - g0 /\ holding'[1] = holding[1] - g1
    BY <1>0, <2>2, Zenon
  <2>7. holding[0] - g0 = holding[0] + (0 - g0) /\ holding[1] - g1 = holding[1] + (0 - g1)
    BY <2>1
  <2> QED
    BY <2>5, <2>6, <2>7, Zenon
<1>4. PICK key : key = <<o, r>> /\ key \in Keys
  BY KeyOf
<1>5. positions' = [positions EXCEPT ![key].owed = <<@[1] - g0, @[2] - g1>>]
  BY <1>0, <1>4
<1>7. positions \in [Keys -> [liq : Nat, owed : Nat \X Nat]]
  BY <1>1 DEF V3TypeOK
<1>8. ASSUME NEW k \in Keys
      PROVE  /\ positions'[k].liq = positions[k].liq + 0
             /\ positions'[k].owed[1] = positions[k].owed[1] + (IF k = key THEN 0 - g0 ELSE 0)
             /\ positions'[k].owed[2] = positions[k].owed[2] + (IF k = key THEN 0 - g1 ELSE 0)
             /\ positions'[k] \in [liq : Nat, owed : Nat \X Nat]
  <2>0. PICK x : x = positions[k] /\ x \in [liq : Nat, owed : Nat \X Nat]
    BY <1>7
  <2>1. CASE k = key
    <3>1. positions'[k] = [x EXCEPT !.owed = <<@[1] - g0, @[2] - g1>>]
      BY <1>4, <1>5, <1>7, <2>0, <2>1
    <3>2. g0 <= x.owed[1] /\ g1 <= x.owed[2] /\ x.liq \in Nat /\ x.owed[1] \in Nat /\ x.owed[2] \in Nat
      BY <1>0, <1>4, <2>0, <2>1
    <3>3. x.liq + 0 = x.liq /\ x.owed[1] - g0 \in Nat /\ x.owed[2] - g1 \in Nat
          /\ x.owed[1] - g0 = x.owed[1] + (0 - g0) /\ x.owed[2] - g1 = x.owed[2] + (0 - g1)
      BY <3>2
    <3>4. /\ positions'[k].liq = x.liq /\ positions'[k].owed[1] = x.owed[1] - g0
          /\ positions'[k].owed[2] = x.owed[2] - g1
          /\ positions'[k] \in [liq : Nat, owed : Nat \X Nat]
      BY <2>0, <3>1, <3>2, <3>3
    <3> QED
      BY <2>0, <2>1, <3>3, <3>4, Zenon
  <2>2. CASE k # key
    <3>1. positions'[k] = x
      BY <1>4, <1>5, <1>7, <2>0, <2>2
    <3>2. x.liq = x.liq + 0 /\ x.owed[1] = x.owed[1] + 0 /\ x.owed[2] = x.owed[2] + 0
      BY <2>0
    <3> QED
      BY <2>0, <2>2, <3>1, <3>2, Zenon
  <2> QED
    BY <2>1, <2>2
<1>9. Shifts(o, r, 0)
  <2>1. positions' = [k \in Keys |-> positions'[k]]
    BY <1>5, <1>7
  <2>2. positions' \in [Keys -> [liq : Nat, owed : Nat \X Nat]]
    BY <1>8, <2>1
  <2>3. \A k \in Keys : positions'[k].liq = positions[k].liq + (IF k = <<o, r>> THEN 0 ELSE 0)
    BY <1>8
  <2> QED
    BY <1>4, <2>2, <2>3, Zenon DEF Shifts
<1>10. OwedShifts(o, r, 0 - g0, 0 - g1)
  BY <1>4, <1>8, Zenon DEF OwedShifts
<1>11. ModifyTicks(r, 0)
  BY <1>0, <1>1, ModifyNone
<1>12. PICK w0 \in Int, w1 \in Int : w0 = 0 - g0 /\ w1 = 0 - g1
  OBVIOUS
<1>13. /\ 0 * Share1(r, price, tick) <= Q * (w1 - w1)
       /\ Q * (0 * Share0(r, price, tick)) <= price * (Common * (w0 - w0))
  <2>1. PICK p \in Nat, q \in Nat, m \in Nat, s0 \in Int, s1 \in Int :
          p = price /\ q = Q /\ m = Common /\ s0 = Share0(r, price, tick) /\ s1 = Share1(r, price, tick)
    <3>1. price \in Nat /\ Q \in Nat /\ Common \in Nat
      BY <1>1, InPrices, PriceScale, CommonIs DEF InStep
    <3>2. tick \in Int
      BY <1>1, TickInt
    <3>3. Share0(r, price, tick) \in Int /\ Share1(r, price, tick) \in Int
      BY <3>1, <3>2, SharesInt
    <3> QED
      BY <3>1, <3>3
  <2>2. w1 - w1 = 0 /\ w0 - w0 = 0 /\ 0 * s1 = 0 /\ 0 * s0 = 0 /\ q * 0 = 0 /\ m * 0 = 0 /\ p * 0 = 0
        /\ 0 <= 0
    OBVIOUS
  <2>3. 0 * s1 <= q * (w1 - w1) /\ q * (0 * s0) <= p * (m * (w0 - w0))
    BY <2>2, Zenon
  <2> QED
    BY <2>1, <2>3, Zenon
<1>14. /\ OwedShifts(o, r, w0, w1) /\ holding'[0] = holding[0] + w0 /\ holding'[1] = holding[1] + w1
  BY <1>2, <1>10, <1>12, Zenon
<1>15. TotalsInv'
  <2>1. PICK d \in Int : d = 0
    OBVIOUS
  <2>2. /\ Shifts(o, r, d) /\ ModifyTicks(r, d)
        /\ d * Share1(r, price, tick) <= Q * (w1 - w1)
        /\ Q * (d * Share0(r, price, tick)) <= price * (Common * (w0 - w0))
    BY <1>9, <1>11, <1>13, <2>1, Zenon
  <2> QED
    BY <1>0, <1>2, <1>14, <2>2, PoolChange
<1> QED
  BY <1>0, <1>9, <1>10, <1>15

\* With the positions the sums over them stay.
LEMMA SumsStay ==
  ASSUME positions' = positions, NEW t, NEW p
  PROVE  /\ InForce(t)' = InForce(t) /\ Starting(t)' = Starting(t) /\ Ending(t)' = Ending(t)
         /\ Stake0(p, t)' = Stake0(p, t) /\ Stake1(p, t)' = Stake1(p, t)
         /\ Owed(1)' = Owed(1) /\ Owed(2)' = Owed(2)
BY Zenon DEF InForce, Starting, Ending, Stake0, Stake1, Owed

\* Positions, ticks and bits stay while the price moves: what is left to show.
LEMMA PriceChange ==
  ASSUME V3TypeOK, Booked, UNCHANGED <<gross, net, bitmap, positions>>, RestTyped,
         holding' \in [TokenIds -> Nat],
         NEW p \in Prices, NEW t \in MinTick..(MaxTick - 1), NEW h0, NEW h1,
         SqrtPrice[t] <= p, p <= SqrtPrice[t + 1],
         price' = p, tick' = t, liquidity' = SumFunction(InForce(t)),
         holding'[0] = h0, holding'[1] = h1, Covers(p, t, h0, h1)
  PROVE  TotalsInv'
<1>0. /\ positions' = positions /\ gross' = gross /\ net' = net /\ bitmap' = bitmap /\ t \in Int
      /\ p \in Nat \ {0}
  BY TickRange, InPrices
<1>1. V3TypeOK'
  <2>1. liquidity' \in Nat
    BY <1>0, ForceSum
  <2>2. /\ positions' \in [Keys -> [liq : Nat, owed : Nat \X Nat]]
        /\ gross' \in [Ticks -> Nat] /\ net' \in [Ticks -> Int] /\ bitmap' \subseteq Ticks
    BY <1>0, Zenon DEF V3TypeOK
  <2>3. price' \in SqrtPrice[MinTick]..(SqrtPrice[MaxTick] - 1) /\ tick' \in MinTick..(MaxTick - 1)
    BY Zenon DEF Prices
  <2> QED
    BY <2>1, <2>2, <2>3, Zenon DEF V3TypeOK, RestTyped
<1>2. liquidity' = SumFunction(InForce(tick))'
  <2>1. InForce(t)' = InForce(t)
    BY <1>0, SumsStay
  <2>2. InForce(t)' = InForce(tick)'
    BY Zenon DEF InForce
  <2> QED
    BY <2>1, <2>2, Zenon
<1>3. Booked'
  <2>1. ASSUME NEW u \in Ticks
        PROVE  /\ gross'[u] = SumFunction(Starting(u)') + SumFunction(Ending(u)')
               /\ net'[u] = SumFunction(Starting(u)') - SumFunction(Ending(u)')
               /\ u \in bitmap' <=> gross'[u] > 0
    <3>1. Starting(u)' = Starting(u) /\ Ending(u)' = Ending(u)
      BY <1>0, SumsStay
    <3>2. /\ gross[u] = SumFunction(Starting(u)) + SumFunction(Ending(u))
          /\ net[u] = SumFunction(Starting(u)) - SumFunction(Ending(u))
          /\ u \in bitmap <=> gross[u] > 0
      BY Zenon DEF Booked
    <3> QED
      BY <1>0, <3>1, <3>2, Zenon
  <2> QED
    BY <2>1 DEF Booked
<1>4. TotalsAgree'
  BY <1>1, <1>2, <1>3, Zenon DEF TotalsAgree, Booked
<1>5. Covers(price, tick, holding[0], holding[1])'
  <2>1. /\ SumFunction(Stake1(p, t)) <= Q * (h1 - SumFunction(Owed(2)))
        /\ Q * SumFunction(Stake0(p, t)) <= p * (Common * (h0 - SumFunction(Owed(1))))
    BY Zenon DEF Covers
  <2>2. /\ Stake0(p, t)' = Stake0(p, t) /\ Stake1(p, t)' = Stake1(p, t)
        /\ Owed(1)' = Owed(1) /\ Owed(2)' = Owed(2)
    BY <1>0, SumsStay
  <2>3. Stake1(p, t)' = Stake1(price, tick)' /\ Stake0(p, t)' = Stake0(price, tick)'
    BY Zenon DEF Stake0, Stake1
  <2> QED
    BY <2>1, <2>2, <2>3, Zenon DEF Covers
<1>6. price' # 0
  BY <1>0
<1> QED
  BY <1>4, <1>5, <1>6, Zenon DEF TotalsInv

\* A call that leaves the tokens of the manager keeps the type of the rest of the state.
LEMMA RestStays ==
  ASSUME V3TypeOK, V3Counted, UNCHANGED nfts
  PROVE  RestTyped
<1>1. v3calls \in 0..MaxV3Calls /\ v3calls < MaxV3Calls /\ v3calls' = v3calls + 1 /\ MaxV3Calls \in Nat
  BY V3Assumption DEF V3TypeOK, V3Counted
<1>2. v3calls' \in 0..MaxV3Calls
  BY <1>1
<1>3. nfts' \in Seq([range : Ranges, liq : Nat, owed : Nat \X Nat])
  BY DEF V3TypeOK
<1> QED
  BY <1>2, <1>3, Zenon DEF RestTyped

\* A swap starts in its loop's invariant.
LEMMA SwapStarts ==
  ASSUME TotalsInv, price # 0, NEW exact \in BOOLEAN, NEW down \in BOOLEAN, NEW limit \in Bounds,
         NEW amount \in Int, IF exact THEN amount >= 0 ELSE amount <= 0,
         IF down THEN limit < price ELSE limit > price
  PROVE  Underway([remaining |-> amount, calculated |-> 0, price |-> price,
                   tick |-> tick, liq |-> liquidity], exact, down, limit, amount)
<1>0. V3TypeOK /\ liquidity = SumFunction(InForce(tick)) /\ InStep
  BY PoolFacts
<1>1. PICK s : s = [remaining |-> amount, calculated |-> 0, price |-> price,
                    tick |-> tick, liq |-> liquidity]
  OBVIOUS
<1>2. s.remaining = amount /\ s.calculated = 0 /\ s.price = price /\ s.tick = tick /\ s.liq = liquidity
  BY <1>1, LoopFields, Zenon
<1>3. PICK h0 \in Int, h1 \in Int : h0 = holding[0] /\ h1 = holding[1]
  BY <1>0 DEF V3TypeOK, TokenIds
<1>4. Change(s, exact, down, amount)[1] = 0 /\ Change(s, exact, down, amount)[2] = 0
  <2>1. amount - s.remaining = 0
    BY <1>2
  <2>2. Change(s, exact, down, amount) = <<0, 0>>
    BY <1>2, <2>1, Zenon DEF Change
  <2> QED
    BY <2>2, PairOf
<1>5. h0 + 0 = h0 /\ h1 + 0 = h1
  OBVIOUS
<1>6. Covers(price, tick, holding[0] + Change(s, exact, down, amount)[1],
                          holding[1] + Change(s, exact, down, amount)[2])
  <2>1. Covers(price, tick, h0, h1)
    BY <1>3, Zenon DEF TotalsInv
  <2> QED
    BY <1>3, <1>4, <1>5, <2>1, Zenon
<1>7. IF down THEN limit <= price ELSE price <= limit
  <2>1. PICK p \in Int, l \in Int : p = price /\ l = limit
    BY <1>0, InPrices, InBounds DEF InStep
  <2> QED
    BY <2>1
<1>8. amount \in Int /\ 0 \in Int
  OBVIOUS
<1>9. Underway(s, exact, down, limit, amount)
  BY <1>0, <1>2, <1>6, <1>7, <1>8, Zenon DEF Underway, InStep, Prices
<1> QED
  BY <1>1, <1>9, Zenon

\* swap keeps the invariant: its loop does, and leaves positions, ticks and bits alone.
LEMMA SwapKeeps ==
  ASSUME TotalsInv, NEW down \in BOOLEAN, NEW limit \in Bounds, NEW amount \in Int, amount # 0,
         Swap(down, amount, limit)
  PROVE  TotalsInv'
<1>1. PICK exact : exact \in BOOLEAN /\ exact = (amount > 0)
  <2>1. (amount > 0) \in BOOLEAN
    OBVIOUS
  <2> QED
    BY <2>1, Zenon
<1>2. PICK s : s = [remaining |-> amount, calculated |-> 0, price |-> price,
                    tick |-> tick, liq |-> liquidity]
  OBVIOUS
<1>3. PICK end : end = SwapLoop(s, exact, down, limit)
  OBVIOUS
<1>4. PICK delta : delta = IF down = exact THEN <<amount - end.remaining, end.calculated>>
                           ELSE <<end.calculated, amount - end.remaining>>
  OBVIOUS
<1>5. /\ V3Counted /\ price # 0
      /\ IF down THEN limit < price ELSE limit > price
      /\ price' = end.price /\ tick' = end.tick /\ liquidity' = end.liq
      /\ \A t \in TokenIds : holding[t] + delta[t + 1] >= 0
      /\ holding' = [t \in TokenIds |-> holding[t] + delta[t + 1]]
      /\ UNCHANGED <<gross, net, bitmap, positions, nfts>>
  BY <1>1, <1>2, <1>3, <1>4, Zenon DEF Swap, SwapTo
<1>6. V3TypeOK /\ Booked
  BY PoolFacts
<1>7. Underway(end, exact, down, limit, amount)
  <2>a. amount > 0 => amount >= 0
    OBVIOUS
  <2>b. ~(amount > 0) => amount <= 0
    OBVIOUS
  <2>1. IF exact THEN amount >= 0 ELSE amount <= 0
    BY <1>1, <2>a, <2>b, Zenon
  <2>c. exact \in BOOLEAN
    BY <1>1, Zenon
  <2>d. Underway([remaining |-> amount, calculated |-> 0, price |-> price,
                  tick |-> tick, liq |-> liquidity], exact, down, limit, amount)
    BY <1>5, <2>1, <2>c, SwapStarts, Zenon
  <2>2. Underway(s, exact, down, limit, amount)
    BY <1>2, <2>d, Zenon
  <2>3. Underway(SwapLoop(s, exact, down, limit), exact, down, limit, amount)
    BY <1>6, <2>c, <2>2, LoopKeeps, Zenon
  <2> QED
    BY <1>3, <2>3, Zenon
<1>8. delta = Change(end, exact, down, amount)
  BY <1>4, Zenon DEF Change
<1>9. /\ end.remaining \in Int /\ end.calculated \in Int /\ end.price \in Prices
      /\ end.tick \in MinTick..(MaxTick - 1)
      /\ SqrtPrice[end.tick] <= end.price /\ end.price <= SqrtPrice[end.tick + 1]
      /\ end.liq = SumFunction(InForce(end.tick))
      /\ Covers(end.price, end.tick, holding[0] + delta[1], holding[1] + delta[2])
  BY <1>7, <1>8, Zenon DEF Underway, Prices
<1>10. /\ holding' \in [TokenIds -> Nat]
       /\ holding'[0] = holding[0] + delta[1] /\ holding'[1] = holding[1] + delta[2]
  <2>1. delta[1] \in Int /\ delta[2] \in Int
    <3>1. PICK a \in Int, b \in Int : a = amount - end.remaining /\ b = end.calculated
      BY <1>9
    <3>2. delta = <<a, b>> \/ delta = <<b, a>>
      BY <1>4, <3>1, Zenon
    <3> QED
      BY <3>2
  <2>2. holding[0] \in Int /\ holding[1] \in Int
    BY <1>6 DEF V3TypeOK, TokenIds
  <2>3. TokenIds = {0, 1} /\ 0 + 1 = 1 /\ 1 + 1 = 2
    BY DEF TokenIds
  <2>4. holding[0] + delta[1] >= 0 /\ holding[1] + delta[2] >= 0
    <3>1. 0 \in TokenIds /\ 1 \in TokenIds
      BY <2>3
    <3> QED
      BY <1>5, <2>3, <3>1, Zenon
  <2>5. \A t \in TokenIds : holding[t] + delta[t + 1] \in Nat
    <3>1. holding[0] + delta[1] \in Nat /\ holding[1] + delta[2] \in Nat
      BY <2>1, <2>2, <2>4
    <3>2. \A t \in TokenIds : t = 0 \/ t = 1
      BY <2>3
    <3> QED
      BY <2>3, <3>1, <3>2, Zenon
  <2>6. holding' \in [TokenIds -> Nat]
    BY <1>5, <2>5
  <2>7. 0 \in TokenIds /\ 1 \in TokenIds
    BY <2>3
  <2> QED
    BY <1>5, <2>3, <2>6, <2>7, Zenon
<1>11. RestTyped
  BY <1>5, <1>6, RestStays
<1>12. PICK p \in Prices, t \in MinTick..(MaxTick - 1) : p = end.price /\ t = end.tick
  BY <1>9, Zenon
<1>c. PICK h0, h1 : h0 = holding[0] + delta[1] /\ h1 = holding[1] + delta[2]
  OBVIOUS
<1>13. /\ SqrtPrice[t] <= p /\ p <= SqrtPrice[t + 1]
       /\ price' = p /\ tick' = t /\ liquidity' = SumFunction(InForce(t))
       /\ holding'[0] = h0 /\ holding'[1] = h1 /\ Covers(p, t, h0, h1)
  BY <1>5, <1>9, <1>10, <1>12, <1>c, Zenon
<1>14. UNCHANGED <<gross, net, bitmap, positions>>
  BY <1>5
<1> QED
  BY <1>6, <1>10, <1>11, <1>13, <1>14, PriceChange

\* Where nobody has a position nothing is owed and nothing at stake.
LEMMA NothingHeld ==
  ASSUME positions = [k \in Keys |-> NoPosition], NEW p \in Nat, NEW t \in Int
  PROVE  /\ SumFunction(InForce(t)) = 0 /\ SumFunction(Starting(t)) = 0 /\ SumFunction(Ending(t)) = 0
         /\ SumFunction(Stake0(p, t)) = 0 /\ SumFunction(Stake1(p, t)) = 0
         /\ SumFunction(Owed(1)) = 0 /\ SumFunction(Owed(2)) = 0
<1>1. \A k \in Keys : positions[k].liq = 0 /\ positions[k].owed = <<0, 0>>
  BY DEF NoPosition
<1>z. \A x \in Int : 0 * x = 0
  OBVIOUS
<1>2. ASSUME NEW f \in [Keys -> Int], \A k \in Keys : f[k] = 0
      PROVE  SumFunction(f) = 0
  BY <1>2, KeysAre, SumOfZeros
<1>3. SumFunction(InForce(t)) = 0
  <2>1. InForce(t) \in [Keys -> Int] /\ \A k \in Keys : InForce(t)[k] = 0
    BY <1>1 DEF InForce
  <2> QED
    BY <1>2, <2>1
<1>4. SumFunction(Starting(t)) = 0
  <2>1. Starting(t) \in [Keys -> Int] /\ \A k \in Keys : Starting(t)[k] = 0
    BY <1>1 DEF Starting
  <2> QED
    BY <1>2, <2>1
<1>5. SumFunction(Ending(t)) = 0
  <2>1. Ending(t) \in [Keys -> Int] /\ \A k \in Keys : Ending(t)[k] = 0
    BY <1>1 DEF Ending
  <2> QED
    BY <1>2, <2>1
<1>6. \A k \in Keys : positions[k].liq * Share0(k[2], p, t) = 0 /\ positions[k].liq * Share1(k[2], p, t) = 0
  <2>1. SUFFICES ASSUME NEW k \in Keys
                 PROVE  positions[k].liq * Share0(k[2], p, t) = 0 /\ positions[k].liq * Share1(k[2], p, t) = 0
    OBVIOUS
  <2>2. Share0(k[2], p, t) \in Int /\ Share1(k[2], p, t) \in Int
    BY KeysAre, SharesInt
  <2> QED
    BY <1>1, <1>z, <2>2, Zenon
<1>7. SumFunction(Stake0(p, t)) = 0
  <2>1. Stake0(p, t) \in [Keys -> Int] /\ \A k \in Keys : Stake0(p, t)[k] = 0
    BY <1>6 DEF Stake0
  <2> QED
    BY <1>2, <2>1
<1>8. SumFunction(Stake1(p, t)) = 0
  <2>1. Stake1(p, t) \in [Keys -> Int] /\ \A k \in Keys : Stake1(p, t)[k] = 0
    BY <1>6 DEF Stake1
  <2> QED
    BY <1>2, <2>1
<1>9. SumFunction(Owed(1)) = 0
  <2>1. Owed(1) \in [Keys -> Int] /\ \A k \in Keys : Owed(1)[k] = 0
    BY <1>1 DEF Owed
  <2> QED
    BY <1>2, <2>1
<1>10. SumFunction(Owed(2)) = 0
  <2>1. Owed(2) \in [Keys -> Int] /\ \A k \in Keys : Owed(2)[k] = 0
    BY <1>1 DEF Owed
  <2> QED
    BY <1>2, <2>1
<1> QED
  BY <1>3, <1>4, <1>5, <1>7, <1>8, <1>9, <1>10

\* initialize keeps the invariant, as nobody has a position before it.
LEMMA InitializeKeeps ==
  ASSUME TotalsInv, NEW p \in Prices, Initialize(p)
  PROVE  TotalsInv'
<1>0. /\ V3Counted /\ price = 0 /\ price' = p /\ tick' = TickAt(p)
      /\ UNCHANGED <<liquidity, gross, net, bitmap, positions, holding, nfts>>
  BY Zenon DEF Initialize
<1>1. V3TypeOK /\ Booked /\ liquidity = SumFunction(InForce(tick))
  BY PoolFacts
<1>2. positions = [k \in Keys |-> NoPosition]
  BY <1>0, Zenon DEF TotalsInv
<1>3. PICK t \in MinTick..(MaxTick - 1) : /\ t = TickAt(p) /\ SqrtPrice[t] <= p /\ p < SqrtPrice[t + 1]
  BY TickAtIs, Zenon DEF Prices
<1>4. p <= SqrtPrice[t + 1]
  <2>1. t + 1 \in Ticks
    BY <1>3, TickRange
  <2>2. SqrtPrice[t + 1] \in Nat /\ p \in Nat
    BY <2>1, PriceOf, InPrices
  <2> QED
    BY <1>3, <2>2
<1>5. /\ SumFunction(InForce(t)) = 0 /\ SumFunction(InForce(tick)) = 0
      /\ SumFunction(Stake0(p, t)) = 0 /\ SumFunction(Stake1(p, t)) = 0
      /\ SumFunction(Owed(1)) = 0 /\ SumFunction(Owed(2)) = 0
  <2>1. t \in Int /\ tick \in Int /\ p \in Nat
    BY <1>1, TickRange, TickInt, InPrices
  <2> QED
    BY <1>2, <2>1, NothingHeld
<1>6. liquidity' = SumFunction(InForce(t))
  BY <1>0, <1>1, <1>5, Zenon
<1>7. PICK h0 \in Nat, h1 \in Nat : h0 = holding[0] /\ h1 = holding[1]
  BY <1>1 DEF V3TypeOK, TokenIds
<1>8. Covers(p, t, h0, h1)
  <2>1. PICK q \in Nat, m \in Nat, z \in Nat : q = Q /\ m = Common /\ z = p
    BY PriceScale, CommonIs, InPrices
  <2>2. 0 <= q * (h1 - 0) /\ q * 0 <= z * (m * (h0 - 0))
    <3>1. h1 - 0 = h1 /\ h0 - 0 = h0 /\ q * 0 = 0 /\ q * h1 \in Nat /\ m * h0 \in Nat
      BY MulCount
    <3>2. z * (m * h0) \in Nat
      BY <3>1, MulCount
    <3> QED
      BY <3>1, <3>2
  <2> QED
    BY <1>5, <2>1, <2>2, Zenon DEF Covers
<1>9. /\ UNCHANGED <<gross, net, bitmap, positions>> /\ RestTyped
      /\ holding' \in [TokenIds -> Nat] /\ holding'[0] = h0 /\ holding'[1] = h1
      /\ price' = p /\ tick' = t
  <2>1. RestTyped
    BY <1>0, <1>1, RestStays
  <2>2. holding' = holding /\ holding \in [TokenIds -> Nat]
    BY <1>0, <1>1 DEF V3TypeOK
  <2> QED
    BY <1>0, <1>3, <1>7, <2>1, <2>2
<1> QED
  BY <1>1, <1>3, <1>4, <1>6, <1>8, <1>9, PriceChange

\* A factor comes out of a sum.
LEMMA SumScaled ==
  ASSUME NEW f \in [Keys -> Int], NEW g \in [Keys -> Int], NEW a \in Int,
         \A k \in Keys : g[k] = a * f[k]
  PROVE  SumFunction(g) = a * SumFunction(f)
<1>1. IsFiniteSet(Keys)
  BY KeysAre
<1>2. PICK b \in Int : b = 0
  OBVIOUS
<1>3. \A k \in Keys : g[k] = a * f[k] + b * f[k]
  <2>1. SUFFICES ASSUME NEW k \in Keys PROVE g[k] = a * f[k] + b * f[k]
    OBVIOUS
  <2>2. g[k] = a * f[k] /\ f[k] \in Int
    OBVIOUS
  <2>3. \A x \in Int : a * x + 0 * x = a * x
    OBVIOUS
  <2> QED
    BY <1>2, <2>2, <2>3, Zenon
<1>4. SumFunction(g) = a * SumFunction(f) + b * SumFunction(f)
  BY <1>1, <1>3, SumOfLinear
<1>5. SumFunction(f) \in Int
  BY <1>1, SumInt
<1>6. \A x \in Int : a * x + 0 * x = a * x
  OBVIOUS
<1> QED
  BY <1>2, <1>4, <1>5, <1>6, Zenon

\* The initial state has the inductive invariant.
LEMMA PoolStarts ==
  ASSUME V3Init
  PROVE  TotalsInv
<1>0. /\ price = 0 /\ tick = 0 /\ liquidity = 0
      /\ gross = [t \in Ticks |-> 0] /\ net = [t \in Ticks |-> 0] /\ bitmap = {}
      /\ positions = [k \in Keys |-> NoPosition]
      /\ holding = [t \in TokenIds |-> 0] /\ nfts = <<>> /\ v3calls = 0
  BY DEF V3Init
<1>1. V3TypeOK
  <2>1. NoPosition \in [liq : Nat, owed : Nat \X Nat]
    BY DEF NoPosition
  <2>2. positions \in [Keys -> [liq : Nat, owed : Nat \X Nat]]
    BY <1>0, <2>1
  <2>3. v3calls \in 0..MaxV3Calls
    BY <1>0, V3Assumption
  <2>4. gross \in [Ticks -> Nat] /\ net \in [Ticks -> Int] /\ holding \in [TokenIds -> Nat]
    BY <1>0
  <2>5. nfts \in Seq([range : Ranges, liq : Nat, owed : Nat \X Nat]) /\ bitmap \subseteq Ticks
    BY <1>0
  <2>6. liquidity \in Nat
    BY <1>0
  <2> QED
    BY <1>0, <2>2, <2>3, <2>4, <2>5, <2>6, Zenon DEF V3TypeOK
<1>2. PICK z \in Nat : z = 0
  OBVIOUS
<1>3. liquidity = SumFunction(InForce(tick))
  <2>1. tick \in Int
    BY <1>0
  <2>2. SumFunction(InForce(tick)) = 0
    BY <1>0, <1>2, <2>1, NothingHeld, Zenon
  <2> QED
    BY <1>0, <2>2, Zenon
<1>4. ASSUME NEW t \in Ticks
      PROVE  /\ gross[t] = SumFunction(Starting(t)) + SumFunction(Ending(t))
             /\ net[t] = SumFunction(Starting(t)) - SumFunction(Ending(t))
             /\ t \in bitmap <=> gross[t] > 0
  <2>1. t \in Int
    BY TickRange
  <2>2. SumFunction(Starting(t)) = 0 /\ SumFunction(Ending(t)) = 0
    BY <1>0, <1>2, <2>1, NothingHeld, Zenon
  <2> QED
    BY <1>0, <2>2
<1>5. TotalsAgree
  BY <1>0, <1>1, <1>3, <1>4, Zenon DEF TotalsAgree
<1> QED
  BY <1>0, <1>5, Zenon DEF TotalsInv

\* What a burn of everything would add is less than all stakes.
LEMMA RedeemedIs ==
  ASSUME V3TypeOK, InStep, price # 0, NEW k \in Keys
  PROVE  /\ Redeemed(1)[k] \in Nat /\ Redeemed(2)[k] \in Nat
         /\ Q * Redeemed(2)[k] <= Stake1(price, tick)[k]
         /\ price * (Common * Redeemed(1)[k]) <= Q * Stake0(price, tick)[k]
<1>1. PICK r, liq : r = k[2] /\ liq = positions[k].liq
  OBVIOUS
<1>2. r \in Ranges /\ liq \in Nat
  BY <1>1, KeysAre DEF V3TypeOK
<1>3. PICK no : no = FALSE
  OBVIOUS
<1>4. no \in BOOLEAN
  BY <1>3
<1>5. PICK w0 \in Nat, w1 \in Nat : WorthRight(r, liq, no, w0, w1)
  BY <1>2, <1>4, WorthIsRight, Zenon
<1>6. /\ Worth(r, liq, FALSE) = <<w0, w1>>
      /\ Q * w1 <= liq * Share1(r, price, tick)
      /\ price * (Common * w0) <= Q * (liq * Share0(r, price, tick))
  BY <1>3, <1>5, Zenon DEF WorthRight
<1>7. Worth(r, liq, FALSE)[1] = w0 /\ Worth(r, liq, FALSE)[2] = w1
  BY <1>6, PairOf, Zenon
<1>8. Redeemed(1)[k] = w0 /\ Redeemed(2)[k] = w1
  BY <1>1, <1>7, Zenon DEF Redeemed
<1>9. /\ Stake0(price, tick)[k] = liq * Share0(r, price, tick)
      /\ Stake1(price, tick)[k] = liq * Share1(r, price, tick)
  BY <1>1, Zenon DEF Stake0, Stake1
<1> QED
  BY <1>5, <1>6, <1>8, <1>9, Zenon

\* The invariant entails that the pool can pay everybody.
LEMMA BackedIsSolvent ==
  ASSUME TotalsInv
  PROVE  Solvent
<1>1. V3TypeOK /\ (price # 0 => InStep)
  BY PoolFacts
<1>2. PICK h0 \in Nat, h1 \in Nat : h0 = holding[0] /\ h1 = holding[1]
  BY <1>1 DEF V3TypeOK, TokenIds
<1>3. PICK o1 \in Nat, o2 \in Nat : o1 = SumFunction(Owed(1)) /\ o2 = SumFunction(Owed(2))
  <2>1. 1 \in 1..2 /\ 2 \in 1..2
    OBVIOUS
  <2> QED
    BY <1>1, <2>1, OwedSums
<1>4. SUFFICES /\ h0 >= o1 + SumFunction(Redeemed(1))
               /\ h1 >= o2 + SumFunction(Redeemed(2))
  <2>1. \A t \in TokenIds : t = 0 \/ t = 1
    BY DEF TokenIds
  <2>2. 0 + 1 = 1 /\ 1 + 1 = 2
    OBVIOUS
  <2> QED
    BY <1>2, <1>3, <2>1, <2>2, Zenon DEF Solvent
<1>5. CASE price = 0
  <2>1. positions = [k \in Keys |-> NoPosition]
    BY <1>5, Zenon DEF TotalsInv
  <2>2. PICK z \in Nat : z = 0
    OBVIOUS
  <2>a. SumFunction(Owed(1)) = 0 /\ SumFunction(Owed(2)) = 0 /\ SumFunction(Stake0(z, z)) = 0
    <3>1. z \in Int /\ z \in Nat
      OBVIOUS
    <3> QED
      BY <2>1, <3>1, NothingHeld, Zenon
  <2>3. o1 = 0 /\ o2 = 0
    BY <1>3, <2>a, Zenon
  <2>4. ASSUME NEW i PROVE SumFunction(Redeemed(i)) = 0
    <3>0. Redeemed(i) = [k \in Keys |-> 0]
      BY <1>5, Zenon DEF Redeemed
    <3>1. PICK f \in [Keys -> Int] : f = Redeemed(i) /\ \A k \in Keys : f[k] = 0
      BY <3>0
    <3>2. SumFunction(f) = 0
      BY <3>1, KeysAre, SumOfZeros
    <3> QED
      BY <3>1, <3>2
  <2> QED
    BY <2>3, <2>4
<1>6. CASE price # 0
  <2>1. PICK p \in Nat \ {0}, t \in Int : p = price /\ t = tick
    <3>1. price \in Nat \ {0}
      BY <1>1, <1>6, InPrices DEF InStep
    <3>2. tick \in Int
      BY <1>1, TickInt
    <3> QED
      BY <3>1, <3>2
  <2>2. PICK q \in Nat \ {0}, m \in Nat \ {0} : q = Q /\ m = Common
    BY PriceScale, CommonIs
  <2>3. PICK s0 \in [Keys -> Int], s1 \in [Keys -> Int] : s0 = Stake0(p, t) /\ s1 = Stake1(p, t)
    BY <1>1, StakesInt
  <2>4. \A k \in Keys : /\ Redeemed(1)[k] \in Nat /\ Redeemed(2)[k] \in Nat
                        /\ q * Redeemed(2)[k] <= s1[k]
                        /\ p * (m * Redeemed(1)[k]) <= q * s0[k]
    BY <1>1, <1>6, <2>1, <2>2, <2>3, RedeemedIs, Zenon
  <2>5. PICK f1 \in [Keys -> Nat], f2 \in [Keys -> Nat] : f1 = Redeemed(1) /\ f2 = Redeemed(2)
    BY <2>4 DEF Redeemed
  <2>6. /\ SumFunction(s1) <= q * (h1 - o2)
        /\ q * SumFunction(s0) <= p * (m * (h0 - o1))
    <3>1. Covers(price, tick, holding[0], holding[1])
      BY <1>6, Zenon DEF TotalsInv
    <3> QED
      BY <1>2, <1>3, <2>1, <2>2, <2>3, <3>1, Zenon DEF Covers
  <2>7. PICK c \in Nat \ {0} : c = p * m
    BY MulCount, MulPositive
  <2>8. PICK g1 \in [Keys -> Int], g2 \in [Keys -> Int], g0 \in [Keys -> Int] :
          /\ \A k \in Keys : g1[k] = c * f1[k]
          /\ \A k \in Keys : g2[k] = q * f2[k]
          /\ \A k \in Keys : g0[k] = q * s0[k]
    <3> DEFINE a1 == [k \in Keys |-> c * f1[k]]
               a2 == [k \in Keys |-> q * f2[k]]
               a0 == [k \in Keys |-> q * s0[k]]
    <3>1. a1 \in [Keys -> Int] /\ a2 \in [Keys -> Int] /\ a0 \in [Keys -> Int]
      OBVIOUS
    <3> QED
      BY <3>1
  <2>9. /\ SumFunction(g1) = c * SumFunction(f1)
        /\ SumFunction(g2) = q * SumFunction(f2)
        /\ SumFunction(g0) = q * SumFunction(s0)
    <3>1. c \in Int /\ q \in Int /\ f1 \in [Keys -> Int] /\ f2 \in [Keys -> Int]
      OBVIOUS
    <3>2. SumFunction(g1) = c * SumFunction(f1)
      BY <2>8, <3>1, SumScaled
    <3>3. SumFunction(g2) = q * SumFunction(f2)
      BY <2>8, <3>1, SumScaled
    <3>4. SumFunction(g0) = q * SumFunction(s0)
      BY <2>8, <3>1, SumScaled
    <3> QED
      BY <3>2, <3>3, <3>4
  <2>10. \A k \in Keys : g2[k] <= s1[k]
    BY <2>4, <2>5, <2>8, Zenon
  <2>11. \A k \in Keys : g1[k] <= g0[k]
    <3>1. SUFFICES ASSUME NEW k \in Keys PROVE g1[k] <= g0[k]
      OBVIOUS
    <3>2. PICK y \in Nat : y = f1[k]
      OBVIOUS
    <3>3. p * (m * y) <= g0[k]
      BY <2>4, <2>5, <2>8, <3>2, Zenon
    <3>4. (p * m) * y = p * (m * y)
      OBVIOUS
    <3> QED
      BY <2>7, <2>8, <3>2, <3>3, <3>4, Zenon
  <2>12. SumFunction(g2) <= SumFunction(s1) /\ SumFunction(g1) <= SumFunction(g0)
    <3>1. IsFiniteSet(Keys)
      BY KeysAre
    <3>2. SumFunction(g2) <= SumFunction(s1)
      BY <2>10, <3>1, SumOfGreater
    <3>3. SumFunction(g1) <= SumFunction(g0)
      BY <2>11, <3>1, SumOfGreater
    <3> QED
      BY <3>2, <3>3
  <2>13. PICK x1 \in Int, x2 \in Int, y0 \in Int, y1 \in Int :
           x1 = SumFunction(f1) /\ x2 = SumFunction(f2) /\ y0 = SumFunction(s0) /\ y1 = SumFunction(s1)
    <3>1. f1 \in [Keys -> Int] /\ f2 \in [Keys -> Int] /\ IsFiniteSet(Keys)
      BY KeysAre
    <3> QED
      BY <3>1, SumInt
  <2>14. c * x1 <= q * y0 /\ q * x2 <= y1 /\ y1 <= q * (h1 - o2) /\ q * y0 <= p * (m * (h0 - o1))
    BY <2>6, <2>9, <2>12, <2>13, Zenon
  <2>15. PICK e0 \in Int, e1 \in Int : e0 = h0 - o1 /\ e1 = h1 - o2
    OBVIOUS
  <2>16. x2 <= e1
    <3>1. q * x2 <= y1 /\ y1 <= q * e1
      BY <2>14, <2>15, Zenon
    <3>2. q * x2 \in Int /\ q * e1 \in Int
      OBVIOUS
    <3>3. q * x2 <= q * e1
      BY <3>1, <3>2
    <3> QED
      BY <3>3, IntDown
  <2>17. x1 <= e0
    <3>1. c * x1 <= q * y0 /\ q * y0 <= p * (m * e0)
      BY <2>14, <2>15, Zenon
    <3>2. (p * m) * e0 = p * (m * e0)
      OBVIOUS
    <3>3. q * y0 <= c * e0
      BY <2>7, <3>1, <3>2, Zenon
    <3>4. c * x1 \in Int /\ q * y0 \in Int /\ c * e0 \in Int
      OBVIOUS
    <3>5. c * x1 <= c * e0
      BY <3>1, <3>3, <3>4
    <3> QED
      BY <3>5, IntDown
  <2>18. h0 >= o1 + x1 /\ h1 >= o2 + x2
    BY <2>15, <2>16, <2>17
  <2> QED
    BY <2>5, <2>13, <2>18, Zenon
<1> QED
  BY <1>5, <1>6

-----------------------------------------------------------------------------
(***************************************************************************)
(* The position manager's accounts.                                        *)
(***************************************************************************)
\* The manager's tokens, and its accounts by range.
LEMMA OwnIs ==
  ASSUME V3TypeOK
  PROVE  /\ DOMAIN nfts = 1..Len(nfts) /\ Len(nfts) \in Nat /\ IsFiniteSet(DOMAIN nfts)
         /\ \A i \in DOMAIN nfts : /\ nfts[i] \in [range : Ranges, liq : Nat, owed : Nat \X Nat]
                                   /\ nfts[i].range \in Ranges /\ nfts[i].liq \in Nat
                                   /\ nfts[i].owed[1] \in Nat /\ nfts[i].owed[2] \in Nat
         /\ \A r \in Ranges : /\ OwnLiq(r) \in [DOMAIN nfts -> Nat]
                              /\ OwnOwed(r, 1) \in [DOMAIN nfts -> Nat]
                              /\ OwnOwed(r, 2) \in [DOMAIN nfts -> Nat]
<1>1. nfts \in Seq([range : Ranges, liq : Nat, owed : Nat \X Nat])
  BY DEF V3TypeOK
<1>2. DOMAIN nfts = 1..Len(nfts) /\ Len(nfts) \in Nat
  BY <1>1
<1>3. IsFiniteSet(DOMAIN nfts)
  <2>1. 1 \in Int /\ Len(nfts) \in Int
    BY <1>2
  <2> QED
    BY <1>2, <2>1, FS_Interval
<1>4. \A i \in DOMAIN nfts : nfts[i] \in [range : Ranges, liq : Nat, owed : Nat \X Nat]
  <2>1. PICK S : S = [range : Ranges, liq : Nat, owed : Nat \X Nat]
    OBVIOUS
  <2>2. nfts \in Seq(S)
    BY <1>1, <2>1, Zenon
  <2>3. \A i \in DOMAIN nfts : nfts[i] \in S
    BY <2>2
  <2> QED
    BY <2>1, <2>3, Zenon
<1>5. \A i \in DOMAIN nfts : /\ nfts[i].range \in Ranges /\ nfts[i].liq \in Nat
                             /\ nfts[i].owed[1] \in Nat /\ nfts[i].owed[2] \in Nat
  BY <1>4
<1>6. ASSUME NEW r \in Ranges
      PROVE  /\ OwnLiq(r) \in [DOMAIN nfts -> Nat]
             /\ OwnOwed(r, 1) \in [DOMAIN nfts -> Nat] /\ OwnOwed(r, 2) \in [DOMAIN nfts -> Nat]
  <2>1. /\ \A i \in DOMAIN nfts : (IF nfts[i].range = r THEN nfts[i].liq ELSE 0) \in Nat
        /\ \A i \in DOMAIN nfts : (IF nfts[i].range = r THEN nfts[i].owed[1] ELSE 0) \in Nat
        /\ \A i \in DOMAIN nfts : (IF nfts[i].range = r THEN nfts[i].owed[2] ELSE 0) \in Nat
    BY <1>5
  <2>2. OwnLiq(r) \in [DOMAIN nfts -> Nat]
    BY <2>1 DEF OwnLiq
  <2>3. OwnOwed(r, 1) \in [DOMAIN nfts -> Nat]
    BY <2>1 DEF OwnOwed
  <2>4. OwnOwed(r, 2) \in [DOMAIN nfts -> Nat]
    BY <2>1 DEF OwnOwed
  <2> QED
    BY <2>2, <2>3, <2>4
<1> QED
  BY <1>2, <1>3, <1>4, <1>5, <1>6

\* The manager's accounts of a range are functions of its tokens.
LEMMA OwnTyped ==
  V3TypeOK => \A r \in Ranges : /\ OwnLiq(r) \in [DOMAIN nfts -> Nat]
                                /\ OwnOwed(r, 1) \in [DOMAIN nfts -> Nat]
                                /\ OwnOwed(r, 2) \in [DOMAIN nfts -> Nat]
BY OwnIs, Zenon

\* So they are after a step.
LEMMA OwnNext ==
  (V3TypeOK => \A r \in Ranges : /\ OwnLiq(r) \in [DOMAIN nfts -> Nat]
                                 /\ OwnOwed(r, 1) \in [DOMAIN nfts -> Nat]
                                 /\ OwnOwed(r, 2) \in [DOMAIN nfts -> Nat])'
BY OwnTyped, PTL

\* The accounts agree if they do of every range.
LEMMA AgreedIs == AccountsAgree <=> \A r \in Ranges : Agreed(r)
<1>1. 1..2 = {1, 2}
  OBVIOUS
<1>2. \A r \in Ranges : Agreed(r) <=>
        /\ positions[<<"manager", r>>].liq = SumFunction(OwnLiq(r))
        /\ \A j \in 1..2 : positions[<<"manager", r>>].owed[j] = SumFunction(OwnOwed(r, j))
  BY <1>1, Zenon DEF Agreed
<1> QED
  BY <1>2, Zenon DEF AccountsAgree

\* So it is after a step.
LEMMA AgreedNext == (AccountsAgree <=> \A r \in Ranges : Agreed(r))'
BY AgreedIs, PTL

\* A call that leaves the manager and its positions alone keeps the accounts.
LEMMA AccountsStay ==
  ASSUME AccountsAgree, ManagerStays, UNCHANGED nfts
  PROVE  AccountsAgree'
<1>1. SUFFICES ASSUME NEW r \in Ranges PROVE Agreed(r)'
  BY AgreedNext, Zenon
<1>2. Agreed(r)
  BY AgreedIs, Zenon
<1>3. OwnLiq(r)' = OwnLiq(r) /\ OwnOwed(r, 1)' = OwnOwed(r, 1) /\ OwnOwed(r, 2)' = OwnOwed(r, 2)
  <2>1. nfts' = nfts
    OBVIOUS
  <2> QED
    BY <2>1, Zenon DEF OwnLiq, OwnOwed
<1>4. /\ positions'[<<"manager", r>>].liq = SumFunction(OwnLiq(r)')
      /\ positions'[<<"manager", r>>].owed[1] = SumFunction(OwnOwed(r, 1)')
      /\ positions'[<<"manager", r>>].owed[2] = SumFunction(OwnOwed(r, 2)')
  BY <1>2, <1>3, Zenon DEF Agreed, ManagerStays
<1> QED
  BY <1>4, Zenon DEF Agreed

\* What is done for a liquidity provider of its own leaves the manager's positions.
LEMMA OthersStay ==
  ASSUME V3TypeOK, NEW r, NEW d \in Int, Shifts("lp", r, d),
         NEW w0 \in Int, NEW w1 \in Int, OwedShifts("lp", r, w0, w1)
  PROVE  ManagerStays
<1>1. SUFFICES ASSUME NEW x \in Ranges
               PROVE  /\ positions'[<<"manager", x>>].liq = positions[<<"manager", x>>].liq
                      /\ positions'[<<"manager", x>>].owed[1] = positions[<<"manager", x>>].owed[1]
                      /\ positions'[<<"manager", x>>].owed[2] = positions[<<"manager", x>>].owed[2]
  BY DEF ManagerStays
<1>2. PICK k \in Keys : k = <<"manager", x>> /\ k # <<"lp", r>>
  <2>1. "manager" \in Owners /\ "manager" # "lp"
    BY DEF Owners
  <2>2. <<"manager", x>> \in Keys
    BY <2>1, KeyOf
  <2>3. <<"manager", x>> # <<"lp", r>>
    BY <2>1
  <2> QED
    BY <2>2, <2>3
<1>3. /\ positions'[k].liq = positions[k].liq + 0
      /\ positions'[k].owed[1] = positions[k].owed[1] + 0
      /\ positions'[k].owed[2] = positions[k].owed[2] + 0
  BY <1>2, Zenon DEF Shifts, OwedShifts
<1>4. positions[k].liq \in Nat /\ positions[k].owed[1] \in Nat /\ positions[k].owed[2] \in Nat
  BY DEF V3TypeOK
<1>5. /\ positions'[k].liq = positions[k].liq
      /\ positions'[k].owed[1] = positions[k].owed[1]
      /\ positions'[k].owed[2] = positions[k].owed[2]
  BY <1>3, <1>4
<1> QED
  BY <1>2, <1>5, Zenon

\* Adding to the account of one token adds to the sum.
LEMMA SumOfTokenAdded ==
  ASSUME V3TypeOK, NEW f, NEW g, NEW i \in DOMAIN nfts, NEW e \in Int, TokenAdded(f, g, i, e)
  PROVE  SumFunction(g) = SumFunction(f) + e
<1>1. IsFiniteSet(DOMAIN nfts)
  BY OwnIs
<1>2. PICK S : S = DOMAIN nfts
  OBVIOUS
<1>3. f \in [S -> Int] /\ g \in [S -> Int] /\ i \in S /\ IsFiniteSet(S)
  BY <1>1, <1>2 DEF TokenAdded
<1>4. (\A j \in S \ {i} : g[j] = f[j]) /\ g[i] = f[i] + e
  BY <1>2 DEF TokenAdded
<1> QED
  BY <1>3, <1>4, SumOfAdded

\* The position and one token's account change alike, and the accounts agree.
LEMMA AccountsChange ==
  ASSUME V3TypeOK, V3TypeOK', AccountsAgree, NEW r \in Ranges, NEW d \in Int, Shifts("manager", r, d),
         NEW w0 \in Int, NEW w1 \in Int, OwedShifts("manager", r, w0, w1),
         NEW i \in DOMAIN nfts, TokenShifts(i, r, d, w0, w1)
  PROVE  AccountsAgree'
<1>1. SUFFICES ASSUME NEW x \in Ranges PROVE Agreed(x)'
  BY AgreedNext, Zenon
<1>2. Agreed(x)
  BY AgreedIs, Zenon
<1>3. DOMAIN nfts' = DOMAIN nfts
  BY DEF TokenShifts
<1>4. /\ OwnLiq(x)' \in [DOMAIN nfts -> Nat] /\ OwnLiq(x) \in [DOMAIN nfts -> Nat]
      /\ OwnOwed(x, 1)' \in [DOMAIN nfts -> Nat] /\ OwnOwed(x, 1) \in [DOMAIN nfts -> Nat]
      /\ OwnOwed(x, 2)' \in [DOMAIN nfts -> Nat] /\ OwnOwed(x, 2) \in [DOMAIN nfts -> Nat]
  <2>1. \A s \in Ranges : /\ OwnLiq(s)' \in [DOMAIN nfts' -> Nat]
                          /\ OwnOwed(s, 1)' \in [DOMAIN nfts' -> Nat]
                          /\ OwnOwed(s, 2)' \in [DOMAIN nfts' -> Nat]
    BY OwnNext, Zenon
  <2>2. \A s \in Ranges : /\ OwnLiq(s)' \in [DOMAIN nfts -> Nat]
                          /\ OwnOwed(s, 1)' \in [DOMAIN nfts -> Nat]
                          /\ OwnOwed(s, 2)' \in [DOMAIN nfts -> Nat]
    BY <1>3, <2>1, Zenon
  <2> QED
    BY <2>2, OwnIs, Zenon
<1>5. ASSUME NEW j \in DOMAIN nfts
      PROVE  /\ OwnLiq(x)'[j] = IF nfts'[j].range = x THEN nfts'[j].liq ELSE 0
             /\ OwnOwed(x, 1)'[j] = IF nfts'[j].range = x THEN nfts'[j].owed[1] ELSE 0
             /\ OwnOwed(x, 2)'[j] = IF nfts'[j].range = x THEN nfts'[j].owed[2] ELSE 0
             /\ OwnLiq(x)[j] = IF nfts[j].range = x THEN nfts[j].liq ELSE 0
             /\ OwnOwed(x, 1)[j] = IF nfts[j].range = x THEN nfts[j].owed[1] ELSE 0
             /\ OwnOwed(x, 2)[j] = IF nfts[j].range = x THEN nfts[j].owed[2] ELSE 0
  BY <1>3, Zenon DEF OwnLiq, OwnOwed
<1>6. ASSUME NEW j \in DOMAIN nfts, j # i
      PROVE  /\ OwnLiq(x)'[j] = OwnLiq(x)[j]
             /\ OwnOwed(x, 1)'[j] = OwnOwed(x, 1)[j] /\ OwnOwed(x, 2)'[j] = OwnOwed(x, 2)[j]
  <2>1. nfts'[j] = nfts[j]
    BY <1>6, Zenon DEF TokenShifts
  <2> QED
    BY <1>5, <2>1, Zenon
<1>7. nfts[i].range = r /\ nfts'[i].range = r
  BY DEF TokenShifts
<1>8. PICK e \in Int, e0 \in Int, e1 \in Int :
        /\ e = IF x = r THEN d ELSE 0
        /\ e0 = IF x = r THEN w0 ELSE 0
        /\ e1 = IF x = r THEN w1 ELSE 0
  OBVIOUS
<1>9. /\ OwnLiq(x)'[i] = OwnLiq(x)[i] + e
      /\ OwnOwed(x, 1)'[i] = OwnOwed(x, 1)[i] + e0
      /\ OwnOwed(x, 2)'[i] = OwnOwed(x, 2)[i] + e1
  <2>1. CASE x = r
    <3>1. /\ OwnLiq(x)'[i] = nfts'[i].liq /\ OwnLiq(x)[i] = nfts[i].liq
          /\ OwnOwed(x, 1)'[i] = nfts'[i].owed[1] /\ OwnOwed(x, 1)[i] = nfts[i].owed[1]
          /\ OwnOwed(x, 2)'[i] = nfts'[i].owed[2] /\ OwnOwed(x, 2)[i] = nfts[i].owed[2]
      BY <1>5, <1>7, <2>1, Zenon
    <3>2. /\ nfts'[i].liq = nfts[i].liq + d
          /\ nfts'[i].owed[1] = nfts[i].owed[1] + w0 /\ nfts'[i].owed[2] = nfts[i].owed[2] + w1
      BY DEF TokenShifts
    <3>3. e = d /\ e0 = w0 /\ e1 = w1
      BY <1>8, <2>1, Zenon
    <3> QED
      BY <3>1, <3>2, <3>3, Zenon
  <2>2. CASE x # r
    <3>1. /\ OwnLiq(x)'[i] = 0 /\ OwnLiq(x)[i] = 0
          /\ OwnOwed(x, 1)'[i] = 0 /\ OwnOwed(x, 1)[i] = 0
          /\ OwnOwed(x, 2)'[i] = 0 /\ OwnOwed(x, 2)[i] = 0
      BY <1>5, <1>7, <2>2, Zenon
    <3>2. e = 0 /\ e0 = 0 /\ e1 = 0
      BY <1>8, <2>2, Zenon
    <3>3. 0 = 0 + 0
      OBVIOUS
    <3> QED
      BY <3>1, <3>2, <3>3, Zenon
  <2> QED
    BY <2>1, <2>2
<1>10. /\ TokenAdded(OwnLiq(x), OwnLiq(x)', i, e)
       /\ TokenAdded(OwnOwed(x, 1), OwnOwed(x, 1)', i, e0)
       /\ TokenAdded(OwnOwed(x, 2), OwnOwed(x, 2)', i, e1)
  BY <1>4, <1>6, <1>9, Zenon DEF TokenAdded
<1>11. /\ SumFunction(OwnLiq(x)') = SumFunction(OwnLiq(x)) + e
       /\ SumFunction(OwnOwed(x, 1)') = SumFunction(OwnOwed(x, 1)) + e0
       /\ SumFunction(OwnOwed(x, 2)') = SumFunction(OwnOwed(x, 2)) + e1
  <2>1. e \in Int /\ e0 \in Int /\ e1 \in Int
    BY <1>8
  <2> QED
    BY <1>10, <2>1, SumOfTokenAdded, Zenon
<1>12. PICK k \in Keys : k = <<"manager", x>>
  <2>1. "manager" \in Owners
    BY DEF Owners
  <2> QED
    BY <2>1, KeyOf
<1>13. /\ positions'[k].liq = positions[k].liq + (IF k = <<"manager", r>> THEN d ELSE 0)
       /\ positions'[k].owed[1] = positions[k].owed[1] + (IF k = <<"manager", r>> THEN w0 ELSE 0)
       /\ positions'[k].owed[2] = positions[k].owed[2] + (IF k = <<"manager", r>> THEN w1 ELSE 0)
  BY Zenon DEF Shifts, OwedShifts
<1>14. k = <<"manager", r>> <=> x = r
  BY <1>12
<1>15. /\ positions'[k].liq = positions[k].liq + e
       /\ positions'[k].owed[1] = positions[k].owed[1] + e0
       /\ positions'[k].owed[2] = positions[k].owed[2] + e1
  BY <1>8, <1>13, <1>14
<1>16. /\ positions[k].liq = SumFunction(OwnLiq(x))
       /\ positions[k].owed[1] = SumFunction(OwnOwed(x, 1))
       /\ positions[k].owed[2] = SumFunction(OwnOwed(x, 2))
  BY <1>2, <1>12, Zenon DEF Agreed
<1>17. /\ positions'[k].liq = SumFunction(OwnLiq(x)')
       /\ positions'[k].owed[1] = SumFunction(OwnOwed(x, 1)')
       /\ positions'[k].owed[2] = SumFunction(OwnOwed(x, 2)')
  BY <1>11, <1>15, <1>16, Zenon
<1> QED
  BY <1>12, <1>17, Zenon DEF Agreed

\* A further token adds its account to the sum.
LEMMA SumOfTokenMore ==
  ASSUME NEW n \in Nat, NEW f, NEW g, NEW e \in Nat, TokenMore(f, g, n, e)
  PROVE  SumFunction(g) = SumFunction(f) + e
<1>1. PICK S, x : S = 1..(n + 1) /\ x = n + 1
  OBVIOUS
<1>2. IsFiniteSet(S) /\ x \in S /\ S \ {x} = 1..n
  <2>1. 1 \in Int /\ n + 1 \in Int
    OBVIOUS
  <2>2. IsFiniteSet(1..(n + 1))
    BY <2>1, FS_Interval
  <2> QED
    BY <1>1, <2>2
<1>3. g \in [S -> Int] /\ f \in [S \ {x} -> Int]
  <2>1. f \in [1..n -> Nat] /\ g \in [1..(n + 1) -> Nat]
    BY DEF TokenMore
  <2> QED
    BY <1>1, <1>2, <2>1
<1>4. (\A j \in S \ {x} : f[j] = g[j]) /\ g[x] = e
  BY <1>1, <1>2 DEF TokenMore
<1>5. SumFunction(g) = SumFunction(f) + g[x]
  BY <1>2, <1>3, <1>4, SumOfMore
<1> QED
  BY <1>4, <1>5, Zenon

\* A mint through the manager adds as much to the position as to its accounts.
LEMMA AccountsMore ==
  ASSUME V3TypeOK, V3TypeOK', AccountsAgree, NEW r \in Ranges, NEW liq \in Nat,
         Shifts("manager", r, liq), OwedShifts("manager", r, 0, 0),
         nfts' = Append(nfts, [range |-> r, liq |-> liq, owed |-> <<0, 0>>])
  PROVE  AccountsAgree'
<1>1. SUFFICES ASSUME NEW x \in Ranges PROVE Agreed(x)'
  BY AgreedNext, Zenon
<1>2. Agreed(x)
  BY AgreedIs, Zenon
<1>3. PICK n \in Nat : n = Len(nfts) /\ DOMAIN nfts = 1..n
  BY OwnIs
<1>4. PICK new : new = [range |-> r, liq |-> liq, owed |-> <<0, 0>>]
  OBVIOUS
<1>5. new.range = r /\ new.liq = liq /\ new.owed[1] = 0 /\ new.owed[2] = 0
  BY <1>4
<1>6. DOMAIN nfts' = 1..(n + 1) /\ nfts'[n + 1] = new /\ \A j \in 1..n : nfts'[j] = nfts[j]
  <2>1. PICK S : S = [range : Ranges, liq : Nat, owed : Nat \X Nat]
    OBVIOUS
  <2>2. nfts \in Seq(S) /\ nfts' = Append(nfts, new)
    BY <1>4, <2>1, Zenon DEF V3TypeOK
  <2> QED
    BY <1>3, <2>2
<1>7. /\ OwnLiq(x)' \in [DOMAIN nfts' -> Nat] /\ OwnLiq(x) \in [DOMAIN nfts -> Nat]
      /\ OwnOwed(x, 1)' \in [DOMAIN nfts' -> Nat] /\ OwnOwed(x, 1) \in [DOMAIN nfts -> Nat]
      /\ OwnOwed(x, 2)' \in [DOMAIN nfts' -> Nat] /\ OwnOwed(x, 2) \in [DOMAIN nfts -> Nat]
  BY OwnTyped, OwnNext, Zenon
<1>8. ASSUME NEW j \in DOMAIN nfts'
      PROVE  /\ OwnLiq(x)'[j] = IF nfts'[j].range = x THEN nfts'[j].liq ELSE 0
             /\ OwnOwed(x, 1)'[j] = IF nfts'[j].range = x THEN nfts'[j].owed[1] ELSE 0
             /\ OwnOwed(x, 2)'[j] = IF nfts'[j].range = x THEN nfts'[j].owed[2] ELSE 0
  BY Zenon DEF OwnLiq, OwnOwed
<1>9. ASSUME NEW j \in DOMAIN nfts
      PROVE  /\ OwnLiq(x)[j] = IF nfts[j].range = x THEN nfts[j].liq ELSE 0
             /\ OwnOwed(x, 1)[j] = IF nfts[j].range = x THEN nfts[j].owed[1] ELSE 0
             /\ OwnOwed(x, 2)[j] = IF nfts[j].range = x THEN nfts[j].owed[2] ELSE 0
  BY Zenon DEF OwnLiq, OwnOwed
<1>10. ASSUME NEW j \in 1..n
       PROVE  /\ OwnLiq(x)'[j] = OwnLiq(x)[j]
              /\ OwnOwed(x, 1)'[j] = OwnOwed(x, 1)[j] /\ OwnOwed(x, 2)'[j] = OwnOwed(x, 2)[j]
  <2>1. nfts'[j] = nfts[j]
    BY <1>6
  <2>2. j \in DOMAIN nfts /\ j \in DOMAIN nfts'
    BY <1>3, <1>6
  <2> QED
    BY <1>8, <1>9, <2>1, <2>2, Zenon
<1>11. PICK e \in Nat, z \in Nat : e = (IF x = r THEN liq ELSE 0) /\ z = 0
  OBVIOUS
<1>12. OwnLiq(x)'[n + 1] = e /\ OwnOwed(x, 1)'[n + 1] = z /\ OwnOwed(x, 2)'[n + 1] = z
  <2>1. n + 1 \in DOMAIN nfts'
    BY <1>6
  <2>2. /\ OwnLiq(x)'[n + 1] = IF r = x THEN liq ELSE 0
        /\ OwnOwed(x, 1)'[n + 1] = IF r = x THEN 0 ELSE 0
        /\ OwnOwed(x, 2)'[n + 1] = IF r = x THEN 0 ELSE 0
    BY <1>5, <1>6, <1>8, <2>1, Zenon
  <2>3. CASE x = r
    BY <1>11, <2>2, <2>3
  <2>4. CASE x # r
    BY <1>11, <2>2, <2>4
  <2> QED
    BY <2>3, <2>4
<1>13. /\ TokenMore(OwnLiq(x), OwnLiq(x)', n, e)
       /\ TokenMore(OwnOwed(x, 1), OwnOwed(x, 1)', n, z)
       /\ TokenMore(OwnOwed(x, 2), OwnOwed(x, 2)', n, z)
  BY <1>3, <1>6, <1>7, <1>10, <1>12, Zenon DEF TokenMore
<1>14. /\ SumFunction(OwnLiq(x)') = SumFunction(OwnLiq(x)) + e
       /\ SumFunction(OwnOwed(x, 1)') = SumFunction(OwnOwed(x, 1)) + z
       /\ SumFunction(OwnOwed(x, 2)') = SumFunction(OwnOwed(x, 2)) + z
  <2>1. n \in Nat /\ e \in Nat /\ z \in Nat
    OBVIOUS
  <2>2. \A f, g : \A y \in Nat : TokenMore(f, g, n, y) => SumFunction(g) = SumFunction(f) + y
    BY SumOfTokenMore
  <2> QED
    BY <1>13, <2>1, <2>2, Zenon
<1>15. PICK k \in Keys : k = <<"manager", x>>
  <2>1. "manager" \in Owners
    BY DEF Owners
  <2> QED
    BY <2>1, KeyOf
<1>16. /\ positions'[k].liq = positions[k].liq + (IF k = <<"manager", r>> THEN liq ELSE 0)
       /\ positions'[k].owed[1] = positions[k].owed[1] + (IF k = <<"manager", r>> THEN 0 ELSE 0)
       /\ positions'[k].owed[2] = positions[k].owed[2] + (IF k = <<"manager", r>> THEN 0 ELSE 0)
  BY Zenon DEF Shifts, OwedShifts
<1>17. k = <<"manager", r>> <=> x = r
  BY <1>15
<1>18. /\ positions'[k].liq = positions[k].liq + e
       /\ positions'[k].owed[1] = positions[k].owed[1] + z
       /\ positions'[k].owed[2] = positions[k].owed[2] + z
  BY <1>11, <1>16, <1>17
<1>19. /\ positions[k].liq = SumFunction(OwnLiq(x))
       /\ positions[k].owed[1] = SumFunction(OwnOwed(x, 1))
       /\ positions[k].owed[2] = SumFunction(OwnOwed(x, 2))
  BY <1>2, <1>15, Zenon DEF Agreed
<1>20. /\ positions'[k].liq = SumFunction(OwnLiq(x)')
       /\ positions'[k].owed[1] = SumFunction(OwnOwed(x, 1)')
       /\ positions'[k].owed[2] = SumFunction(OwnOwed(x, 2)')
  BY <1>14, <1>18, <1>19, Zenon
<1> QED
  BY <1>15, <1>20, Zenon DEF Agreed

\* Without tokens and positions there is nothing to disagree on.
LEMMA AccountsStart ==
  ASSUME V3Init
  PROVE  AccountsAgree
<1>1. positions = [k \in Keys |-> NoPosition] /\ nfts = <<>>
  BY DEF V3Init
<1>2. SUFFICES ASSUME NEW r \in Ranges PROVE Agreed(r)
  BY AgreedIs, Zenon
<1>3. DOMAIN nfts = {} /\ IsFiniteSet({})
  BY <1>1, FS_EmptySet
<1>4. ASSUME NEW f, f \in [{} -> Int] PROVE SumFunction(f) = 0
  <2>1. \A j \in {} : f[j] = 0
    OBVIOUS
  <2> QED
    BY <1>3, <1>4, <2>1, SumOfZeros
<1>5. OwnLiq(r) \in [{} -> Int] /\ OwnOwed(r, 1) \in [{} -> Int] /\ OwnOwed(r, 2) \in [{} -> Int]
  BY <1>3 DEF OwnLiq, OwnOwed
<1>6. SumFunction(OwnLiq(r)) = 0 /\ SumFunction(OwnOwed(r, 1)) = 0 /\ SumFunction(OwnOwed(r, 2)) = 0
  BY <1>4, <1>5
<1>7. PICK k \in Keys : k = <<"manager", r>>
  <2>1. "manager" \in Owners
    BY DEF Owners
  <2> QED
    BY <2>1, KeyOf
<1>8. positions[k].liq = 0 /\ positions[k].owed[1] = 0 /\ positions[k].owed[2] = 0
  BY <1>1 DEF NoPosition
<1> QED
  BY <1>6, <1>7, <1>8, Zenon DEF Agreed

-----------------------------------------------------------------------------
(***************************************************************************)
(* The invariant of the pool and the manager, and the theorems.            *)
(***************************************************************************)
\* The invariant gives the types after a step, too.
LEMMA TypedNext == (TotalsInv => V3TypeOK)'
<1>1. TotalsInv => V3TypeOK
  BY PoolFacts
<1> QED
  BY <1>1, PTL

\* The bounds of the model's inputs.
LEMMA InputsAre ==
  /\ \A liq \in Liquidities : liq \in Nat /\ liq \in Int
  /\ \A x \in Swapped : x \in Int /\ -x \in Int /\ x # 0 /\ -x # 0
  /\ \A p \in Starts : p \in Prices
  /\ \A p \in Limits : p \in Bounds
<1>1. /\ Liquidities \subseteq Nat \ {0} /\ Swapped \subseteq Nat \ {0}
      /\ Starts \subseteq Prices /\ Limits \subseteq Bounds
  BY V3Assumption DEF Prices, Bounds
<1>2. \A x \in Nat \ {0} : x \in Int /\ -x \in Int /\ x # 0 /\ -x # 0
  OBVIOUS
<1>3. \A x \in Nat \ {0} : x \in Nat /\ x \in Int
  OBVIOUS
<1> QED
  BY <1>1, <1>2, <1>3, Zenon

\* The two owners of positions.
LEMMA LpIs == "lp" \in Owners /\ "manager" \in Owners
BY DEF Owners

\* initialize keeps what is proved of every state.
LEMMA InitializeStep ==
  ASSUME V3Inv, NEW p \in Prices, Initialize(p)
  PROVE  V3Inv'
<1>1. TotalsInv /\ AccountsAgree
  BY Zenon DEF V3Inv
<1>2. TotalsInv'
  BY <1>1, InitializeKeeps, Zenon
<1>3. UNCHANGED <<positions, nfts>>
  BY Zenon DEF Initialize
<1>4. ManagerStays
  BY <1>3, Zenon DEF ManagerStays
<1>5. AccountsAgree'
  BY <1>1, <1>3, <1>4, AccountsStay
<1> QED
  BY <1>2, <1>5, Zenon DEF V3Inv

\* mint keeps it.
LEMMA V3MintStep ==
  ASSUME V3Inv, NEW r \in Ranges, NEW liq \in Nat, V3Mint(r, liq)
  PROVE  V3Inv'
<1>1. TotalsInv /\ AccountsAgree
  BY Zenon DEF V3Inv
<1>2. V3TypeOK
  BY <1>1, PoolFacts
<1>3. V3Counted /\ MintTo("lp", r, liq) /\ UNCHANGED nfts
  BY Zenon DEF V3Mint
<1>4. RestTyped
  BY <1>2, <1>3, RestStays, Zenon
<1>5. TotalsInv' /\ Shifts("lp", r, liq) /\ OwedShifts("lp", r, 0, 0)
  BY <1>1, <1>3, <1>4, LpIs, MintKeeps, Zenon
<1>6. ManagerStays
  <2>1. PICK z \in Int : z = 0
    OBVIOUS
  <2>2. OwedShifts("lp", r, z, z) /\ liq \in Int
    <3>1. liq \in Int
      OBVIOUS
    <3> QED
      BY <1>5, <2>1, <3>1, Zenon
  <2> QED
    BY <1>2, <1>5, <2>1, <2>2, OthersStay, Zenon
<1>7. AccountsAgree'
  BY <1>1, <1>3, <1>6, AccountsStay
<1> QED
  BY <1>5, <1>7, Zenon DEF V3Inv

\* burn keeps it.
LEMMA V3BurnStep ==
  ASSUME V3Inv, NEW r \in Ranges, NEW liq \in Nat, V3Burn(r, liq)
  PROVE  V3Inv'
<1>1. TotalsInv /\ AccountsAgree
  BY Zenon DEF V3Inv
<1>2. V3TypeOK
  BY <1>1, PoolFacts
<1>3. V3Counted /\ BurnFrom("lp", r, liq) /\ UNCHANGED nfts
  BY Zenon DEF V3Burn
<1>4. RestTyped
  BY <1>2, <1>3, RestStays, Zenon
<1>5. /\ TotalsInv'
      /\ \E w0, w1 \in Nat : Shifts("lp", r, 0 - liq) /\ OwedShifts("lp", r, w0, w1)
  BY <1>1, <1>3, <1>4, LpIs, BurnKeeps, Zenon
<1>6. PICK w0 \in Nat, w1 \in Nat : Shifts("lp", r, 0 - liq) /\ OwedShifts("lp", r, w0, w1)
  BY <1>5, Zenon
<1>7. ManagerStays
  <2>1. 0 - liq \in Int /\ w0 \in Int /\ w1 \in Int
    OBVIOUS
  <2> QED
    BY <1>2, <1>6, <2>1, OthersStay, Zenon
<1>8. AccountsAgree'
  BY <1>1, <1>3, <1>7, AccountsStay
<1> QED
  BY <1>5, <1>8, Zenon DEF V3Inv

\* collect keeps it.
LEMMA CollectStep ==
  ASSUME V3Inv, NEW r \in Ranges, NEW asked \in Requests, Collect(r, asked)
  PROVE  V3Inv'
<1>1. TotalsInv /\ AccountsAgree
  BY Zenon DEF V3Inv
<1>2. V3TypeOK
  BY <1>1, PoolFacts
<1>3. V3Counted /\ CollectFrom("lp", r, Given("lp", r, asked)) /\ UNCHANGED nfts
  BY Zenon DEF Collect
<1>4. RestTyped
  BY <1>2, <1>3, RestStays, Zenon
<1>5. PICK g0 \in Nat, g1 \in Nat :
        /\ Given("lp", r, asked) = <<g0, g1>>
        /\ g0 <= positions[<<"lp", r>>].owed[1] /\ g1 <= positions[<<"lp", r>>].owed[2]
  BY <1>2, LpIs, GivenIs, Zenon
<1>6. TotalsInv' /\ Shifts("lp", r, 0) /\ OwedShifts("lp", r, 0 - g0, 0 - g1)
  <2>1. CollectFrom("lp", r, <<g0, g1>>)
    BY <1>3, <1>5, Zenon
  <2> QED
    BY <1>1, <1>4, <1>5, <2>1, LpIs, CollectKeeps, Zenon
<1>7. ManagerStays
  <2>1. PICK z \in Int : z = 0
    OBVIOUS
  <2>2. 0 - g0 \in Int /\ 0 - g1 \in Int
    OBVIOUS
  <2>3. Shifts("lp", r, z)
    BY <1>6, <2>1, Zenon
  <2> QED
    BY <1>2, <1>6, <2>1, <2>2, <2>3, OthersStay, Zenon
<1>8. AccountsAgree'
  BY <1>1, <1>3, <1>7, AccountsStay
<1> QED
  BY <1>6, <1>8, Zenon DEF V3Inv

\* swap keeps it.
LEMMA SwapsStep ==
  ASSUME V3Inv, NEW down \in BOOLEAN, NEW limit \in Bounds, NEW amount \in Int, amount # 0,
         Swap(down, amount, limit)
  PROVE  V3Inv'
<1>1. TotalsInv /\ AccountsAgree
  BY Zenon DEF V3Inv
<1>2. TotalsInv'
  BY <1>1, SwapKeeps, Zenon
<1>3. UNCHANGED <<positions, nfts>>
  BY Zenon DEF Swap, SwapTo
<1>4. ManagerStays
  BY <1>3, Zenon DEF ManagerStays
<1>5. AccountsAgree'
  BY <1>1, <1>3, <1>4, AccountsStay
<1> QED
  BY <1>2, <1>5, Zenon DEF V3Inv

\* The counter of calls, and a changed list of tokens, keep their types.
LEMMA RestChanges ==
  ASSUME V3TypeOK, V3Counted, nfts' \in Seq([range : Ranges, liq : Nat, owed : Nat \X Nat])
  PROVE  RestTyped
<1>1. v3calls \in 0..MaxV3Calls /\ v3calls < MaxV3Calls /\ v3calls' = v3calls + 1 /\ MaxV3Calls \in Nat
  BY V3Assumption DEF V3TypeOK, V3Counted
<1>2. v3calls' \in 0..MaxV3Calls
  BY <1>1
<1> QED
  BY <1>2, Zenon DEF RestTyped

\* One token's account is replaced.
LEMMA TokenReplaced ==
  ASSUME V3TypeOK, NEW i \in DOMAIN nfts, NEW x \in [range : Ranges, liq : Nat, owed : Nat \X Nat],
         nfts' = [nfts EXCEPT ![i] = x]
  PROVE  /\ nfts' \in Seq([range : Ranges, liq : Nat, owed : Nat \X Nat])
         /\ DOMAIN nfts' = DOMAIN nfts /\ nfts'[i] = x
         /\ \A j \in DOMAIN nfts : j # i => nfts'[j] = nfts[j]
<1>1. PICK S : S = [range : Ranges, liq : Nat, owed : Nat \X Nat]
  OBVIOUS
<1>2. nfts \in Seq(S) /\ x \in S
  BY <1>1, Zenon DEF V3TypeOK
<1>3. nfts' \in Seq(S)
  BY <1>2
<1>4. /\ DOMAIN nfts' = DOMAIN nfts /\ nfts'[i] = x
      /\ \A j \in DOMAIN nfts : j # i => nfts'[j] = nfts[j]
  BY <1>2
<1> QED
  BY <1>1, <1>3, <1>4, Zenon

\* The mint of a token by the manager keeps it.
LEMMA ManagerMintStep ==
  ASSUME V3Inv, NEW r \in Ranges, NEW liq \in Nat, ManagerMint(r, liq)
  PROVE  V3Inv'
<1>1. TotalsInv /\ AccountsAgree
  BY Zenon DEF V3Inv
<1>2. V3TypeOK
  BY <1>1, PoolFacts
<1>3. /\ V3Counted /\ MintTo("manager", r, liq)
      /\ nfts' = Append(nfts, [range |-> r, liq |-> liq, owed |-> <<0, 0>>])
  BY Zenon DEF ManagerMint
<1>4. RestTyped
  <2>1. PICK S, x : /\ S = [range : Ranges, liq : Nat, owed : Nat \X Nat]
                    /\ x = [range |-> r, liq |-> liq, owed |-> <<0, 0>>]
    OBVIOUS
  <2>2. x \in S
    BY <2>1
  <2>3. nfts \in Seq(S) /\ nfts' = Append(nfts, x)
    BY <1>2, <1>3, <2>1, Zenon DEF V3TypeOK
  <2>4. nfts' \in Seq(S)
    BY <2>2, <2>3
  <2>5. nfts' \in Seq([range : Ranges, liq : Nat, owed : Nat \X Nat])
    BY <2>1, <2>4, Zenon
  <2> QED
    BY <1>2, <1>3, <2>5, RestChanges, Zenon
<1>5. TotalsInv' /\ Shifts("manager", r, liq) /\ OwedShifts("manager", r, 0, 0)
  BY <1>1, <1>3, <1>4, LpIs, MintKeeps, Zenon
<1>6. V3TypeOK'
  BY <1>5, TypedNext, Zenon
<1>7. AccountsAgree'
  BY <1>1, <1>2, <1>3, <1>5, <1>6, AccountsMore, Zenon
<1> QED
  BY <1>5, <1>7, Zenon DEF V3Inv

\* decreaseLiquidity keeps it: the token is credited what the pool comes to owe for its liquidity.
LEMMA DecreaseStep ==
  ASSUME V3Inv, NEW i \in DOMAIN nfts, NEW liq \in Nat, DecreaseLiquidity(i, liq)
  PROVE  V3Inv'
<1>1. TotalsInv /\ AccountsAgree
  BY Zenon DEF V3Inv
<1>2. V3TypeOK /\ (price # 0 => InStep)
  BY <1>1, PoolFacts, Zenon
<1>3. PICK r : r = nfts[i].range
  OBVIOUS
<1>4. r \in Ranges
  BY <1>2, <1>3, OwnIs, Zenon
<1>5. PICK due : due = Worth(r, liq, FALSE)
  OBVIOUS
<1>6. /\ V3Counted /\ liq <= nfts[i].liq /\ BurnFrom("manager", r, liq)
      /\ nfts' = [nfts EXCEPT ![i] = [range |-> r, liq |-> @.liq - liq,
                                      owed |-> <<@.owed[1] + due[1], @.owed[2] + due[2]>>]]
  BY <1>3, <1>5, Zenon DEF DecreaseLiquidity
<1>7. PICK w0 \in Nat, w1 \in Nat : Worth(r, liq, FALSE) = <<w0, w1>>
  <2>1. price # 0
    BY <1>6, Zenon DEF BurnFrom
  <2>2. PICK no \in BOOLEAN : no = FALSE
    OBVIOUS
  <2>3. \E w0, w1 \in Nat : WorthRight(r, liq, no, w0, w1)
    BY <1>2, <1>4, <2>1, WorthIsRight, Zenon
  <2> QED
    BY <2>2, <2>3, Zenon DEF WorthRight
<1>8. due[1] = w0 /\ due[2] = w1
  <2>1. due = <<w0, w1>>
    BY <1>5, <1>7, Zenon
  <2> QED
    BY <2>1
<1>9. PICK n : n = nfts[i]
  OBVIOUS
<1>10. n \in [range : Ranges, liq : Nat, owed : Nat \X Nat] /\ n.range = r /\ liq <= n.liq
  BY <1>2, <1>3, <1>6, <1>9, OwnIs, Zenon
<1>11. PICK x : x = [range |-> r, liq |-> n.liq - liq, owed |-> <<n.owed[1] + w0, n.owed[2] + w1>>]
  OBVIOUS
<1>12. nfts' = [nfts EXCEPT ![i] = x]
  BY <1>6, <1>8, <1>9, <1>11, Zenon
<1>13. /\ x \in [range : Ranges, liq : Nat, owed : Nat \X Nat]
       /\ x.range = r /\ x.liq = n.liq + (0 - liq)
       /\ x.owed[1] = n.owed[1] + w0 /\ x.owed[2] = n.owed[2] + w1
  <2>1. n.liq \in Nat /\ n.owed[1] \in Nat /\ n.owed[2] \in Nat /\ liq <= n.liq
    BY <1>10
  <2>2. n.liq - liq \in Nat /\ n.owed[1] + w0 \in Nat /\ n.owed[2] + w1 \in Nat
    BY <2>1
  <2>3. n.liq - liq = n.liq + (0 - liq)
    BY <2>1
  <2>4. /\ x.range = r /\ x.liq = n.liq - liq
        /\ x.owed[1] = n.owed[1] + w0 /\ x.owed[2] = n.owed[2] + w1
    BY <1>11
  <2>5. x \in [range : Ranges, liq : Nat, owed : Nat \X Nat]
    BY <1>4, <1>11, <2>2
  <2> QED
    BY <2>3, <2>4, <2>5, Zenon
<1>14. /\ nfts' \in Seq([range : Ranges, liq : Nat, owed : Nat \X Nat])
       /\ DOMAIN nfts' = DOMAIN nfts /\ nfts'[i] = x
       /\ \A j \in DOMAIN nfts : j # i => nfts'[j] = nfts[j]
  BY <1>2, <1>12, <1>13, TokenReplaced, Zenon
<1>15. RestTyped
  BY <1>2, <1>6, <1>14, RestChanges, Zenon
<1>16. /\ TotalsInv'
       /\ \E v0, v1 \in Nat : /\ Worth(r, liq, FALSE) = <<v0, v1>>
                              /\ Shifts("manager", r, 0 - liq) /\ OwedShifts("manager", r, v0, v1)
  BY <1>1, <1>4, <1>6, <1>15, LpIs, BurnKeeps, Zenon
<1>17. Shifts("manager", r, 0 - liq) /\ OwedShifts("manager", r, w0, w1)
  <2>1. PICK v0 \in Nat, v1 \in Nat : /\ Worth(r, liq, FALSE) = <<v0, v1>>
                                      /\ Shifts("manager", r, 0 - liq) /\ OwedShifts("manager", r, v0, v1)
    BY <1>16, Zenon
  <2>2. <<v0, v1>> = <<w0, w1>>
    BY <1>7, <2>1, Zenon
  <2>3. v0 = w0 /\ v1 = w1
    BY <2>2
  <2> QED
    BY <2>1, <2>3, Zenon
<1>18. PICK d \in Int : d = 0 - liq
  OBVIOUS
<1>19. TokenShifts(i, r, d, w0, w1)
  BY <1>3, <1>9, <1>13, <1>14, <1>18, Zenon DEF TokenShifts
<1>20. V3TypeOK'
  BY <1>16, TypedNext, Zenon
<1>21. AccountsAgree'
  <2>1. w0 \in Int /\ w1 \in Int /\ d \in Int
    OBVIOUS
  <2>2. Shifts("manager", r, d)
    BY <1>17, <1>18, Zenon
  <2> QED
    BY <1>1, <1>2, <1>4, <1>17, <1>19, <1>20, <2>1, <2>2, AccountsChange, Zenon
<1> QED
  BY <1>16, <1>21, Zenon DEF V3Inv

\* The manager's collect keeps it: the token is debited what the pool pays out.
LEMMA ManagerCollectStep ==
  ASSUME V3Inv, NEW i \in DOMAIN nfts, NEW asked \in Requests, ManagerCollect(i, asked)
  PROVE  V3Inv'
<1>1. TotalsInv /\ AccountsAgree
  BY Zenon DEF V3Inv
<1>2. V3TypeOK
  BY <1>1, PoolFacts, Zenon
<1>3. PICK r : r = nfts[i].range
  OBVIOUS
<1>4. r \in Ranges
  BY <1>2, <1>3, OwnIs, Zenon
<1>5. PICK g0 \in Nat, g1 \in Nat :
        /\ Given("manager", r, asked) = <<g0, g1>>
        /\ g0 <= positions[<<"manager", r>>].owed[1] /\ g1 <= positions[<<"manager", r>>].owed[2]
  BY <1>2, <1>4, LpIs, GivenIs, Zenon
<1>9. PICK n : n = nfts[i]
  OBVIOUS
<1>10. n \in [range : Ranges, liq : Nat, owed : Nat \X Nat] /\ n.range = r
  BY <1>2, <1>3, <1>9, OwnIs, Zenon
<1>11. PICK left : left = <<n.owed[1] - g0, n.owed[2] - g1>>
  OBVIOUS
<1>a. <<g0, g1>>[1] = g0 /\ <<g0, g1>>[2] = g1
  OBVIOUS
<1>b. Account(nfts[i].owed, Given("manager", r, asked)) = left
  BY <1>5, <1>9, <1>11, <1>a, Zenon DEF Account
<1>c. left[1] = n.owed[1] - g0 /\ left[2] = n.owed[2] - g1
  BY <1>11
<1>6. /\ V3Counted /\ left[1] >= 0 /\ left[2] >= 0
      /\ CollectFrom("manager", r, <<g0, g1>>)
      /\ nfts' = [nfts EXCEPT ![i].owed = left]
  BY <1>3, <1>5, <1>b, Zenon DEF ManagerCollect
<1>d. PICK x : x = [n EXCEPT !.owed = left]
  OBVIOUS
<1>12. nfts' = [nfts EXCEPT ![i] = x]
  BY <1>6, <1>9, <1>d, Zenon
<1>13. /\ x \in [range : Ranges, liq : Nat, owed : Nat \X Nat]
       /\ x.range = r /\ x.liq = n.liq + 0
       /\ x.owed[1] = n.owed[1] + (0 - g0) /\ x.owed[2] = n.owed[2] + (0 - g1)
  <2>1. n.liq \in Nat /\ n.owed[1] \in Nat /\ n.owed[2] \in Nat
    BY <1>10
  <2>2. n.owed[1] - g0 \in Nat /\ n.owed[2] - g1 \in Nat
    BY <1>6, <1>c, <2>1
  <2>3. left \in Nat \X Nat
    BY <1>11, <2>2
  <2>4. x \in [range : Ranges, liq : Nat, owed : Nat \X Nat] /\ x.range = r /\ x.liq = n.liq /\ x.owed = left
    BY <1>10, <1>d, <2>3
  <2>5. x.liq = n.liq + 0
    BY <2>1, <2>4
  <2>6. n.owed[1] - g0 = n.owed[1] + (0 - g0) /\ n.owed[2] - g1 = n.owed[2] + (0 - g1)
    BY <2>1
  <2> QED
    BY <1>c, <2>4, <2>5, <2>6, Zenon
<1>14. /\ nfts' \in Seq([range : Ranges, liq : Nat, owed : Nat \X Nat])
       /\ DOMAIN nfts' = DOMAIN nfts /\ nfts'[i] = x
       /\ \A j \in DOMAIN nfts : j # i => nfts'[j] = nfts[j]
  BY <1>2, <1>12, <1>13, TokenReplaced, Zenon
<1>15. RestTyped
  BY <1>2, <1>6, <1>14, RestChanges, Zenon
<1>16. TotalsInv' /\ Shifts("manager", r, 0) /\ OwedShifts("manager", r, 0 - g0, 0 - g1)
  BY <1>1, <1>4, <1>5, <1>6, <1>15, LpIs, CollectKeeps, Zenon
<1>17. PICK d \in Int, w0 \in Int, w1 \in Int : d = 0 /\ w0 = 0 - g0 /\ w1 = 0 - g1
  OBVIOUS
<1>18. TokenShifts(i, r, d, w0, w1)
  BY <1>3, <1>9, <1>13, <1>14, <1>17, Zenon DEF TokenShifts
<1>19. Shifts("manager", r, d) /\ OwedShifts("manager", r, w0, w1)
  BY <1>16, <1>17, Zenon
<1>20. V3TypeOK'
  BY <1>16, TypedNext, Zenon
<1>21. AccountsAgree'
  BY <1>1, <1>2, <1>4, <1>17, <1>18, <1>19, <1>20, AccountsChange, Zenon
<1> QED
  BY <1>16, <1>21, Zenon DEF V3Inv

\* The invariant holds at first.
LEMMA V3InvInit == V3Init => V3Inv
<1>1. SUFFICES ASSUME V3Init PROVE TotalsInv /\ AccountsAgree
  BY DEF V3Inv
<1> QED
  BY <1>1, PoolStarts, AccountsStart, Zenon

\* Where nothing changes the invariant stays.
LEMMA Stutter ==
  ASSUME V3Inv, UNCHANGED v3vars
  PROVE  V3Inv'
<1>1. /\ price' = price /\ tick' = tick /\ liquidity' = liquidity /\ gross' = gross /\ net' = net
      /\ bitmap' = bitmap /\ positions' = positions /\ holding' = holding /\ nfts' = nfts
      /\ v3calls' = v3calls
  BY DEF v3vars
<1>2. TotalsInv /\ AccountsAgree
  BY Zenon DEF V3Inv
<1>3. V3TypeOK /\ Booked /\ liquidity = SumFunction(InForce(tick)) /\ (price # 0 => InStep)
  BY <1>2, PoolFacts
<1>4. \A t : InForce(t)' = InForce(t) /\ Starting(t)' = Starting(t) /\ Ending(t)' = Ending(t)
  BY <1>1, Zenon DEF InForce, Starting, Ending
<1>5. V3TypeOK'
  BY <1>1, <1>3, Zenon DEF V3TypeOK
<1>6. Booked'
  BY <1>1, <1>3, <1>4, Zenon DEF Booked
<1>7. TotalsAgree'
  <2>1. TotalsAgree
    BY <1>2, Zenon DEF TotalsInv
  <2> QED
    BY <1>1, <1>4, <1>5, <2>1, Zenon DEF TotalsAgree
<1>8. TotalsInv'
  <2>1. price' # 0 => Covers(price, tick, holding[0], holding[1])'
    <3>1. /\ Stake0(price, tick)' = Stake0(price, tick) /\ Stake1(price, tick)' = Stake1(price, tick)
          /\ Owed(1)' = Owed(1) /\ Owed(2)' = Owed(2)
      BY <1>1, Zenon DEF Stake0, Stake1, Owed, Share0, Share1
    <3>2. price # 0 => Covers(price, tick, holding[0], holding[1])
      BY <1>2, Zenon DEF TotalsInv
    <3> QED
      BY <1>1, <3>1, <3>2, Zenon DEF Covers
  <2>2. price' = 0 => positions' = [k \in Keys |-> NoPosition]
    BY <1>1, <1>2, Zenon DEF TotalsInv
  <2> QED
    BY <1>7, <2>1, <2>2, Zenon DEF TotalsInv
<1>9. AccountsAgree'
  <2>1. ManagerStays
    BY <1>1, Zenon DEF ManagerStays
  <2>2. UNCHANGED nfts
    BY <1>1
  <2> QED
    BY <1>2, <2>1, <2>2, AccountsStay
<1> QED
  BY <1>8, <1>9, Zenon DEF V3Inv

\* Every call keeps the invariant.
LEMMA V3InvStep == V3Inv /\ [V3Next]_v3vars => V3Inv'
<1>1. SUFFICES ASSUME V3Inv, [V3Next]_v3vars PROVE V3Inv'
  OBVIOUS
<1>2. CASE UNCHANGED v3vars
  BY <1>1, <1>2, Stutter
<1>3. ASSUME NEW p \in Starts, Initialize(p) PROVE V3Inv'
  BY <1>1, <1>3, InputsAre, InitializeStep, Zenon
<1>4. ASSUME NEW r \in Ranges, NEW liq \in Liquidities, V3Mint(r, liq) PROVE V3Inv'
  BY <1>1, <1>4, InputsAre, V3MintStep, Zenon
<1>5. ASSUME NEW r \in Ranges, NEW liq \in Liquidities, V3Burn(r, liq) PROVE V3Inv'
  BY <1>1, <1>5, InputsAre, V3BurnStep, Zenon
<1>6. ASSUME NEW r \in Ranges, NEW asked \in Requests, Collect(r, asked) PROVE V3Inv'
  BY <1>1, <1>6, CollectStep, Zenon
<1>7. ASSUME NEW down \in BOOLEAN, NEW x \in Swapped, NEW limit \in Limits,
             Swap(down, x, limit) \/ Swap(down, -x, limit)
      PROVE  V3Inv'
  <2>1. limit \in Bounds /\ x \in Int /\ -x \in Int /\ x # 0 /\ -x # 0
    BY InputsAre, Zenon
  <2>2. CASE Swap(down, x, limit)
    BY <1>1, <2>1, <2>2, SwapsStep, Zenon
  <2>3. CASE Swap(down, -x, limit)
    BY <1>1, <2>1, <2>3, SwapsStep, Zenon
  <2> QED
    BY <1>7, <2>2, <2>3, Zenon
<1>8. ASSUME NEW r \in Ranges, NEW liq \in Liquidities, ManagerMint(r, liq) PROVE V3Inv'
  BY <1>1, <1>8, InputsAre, ManagerMintStep, Zenon
<1>9. ASSUME NEW i \in DOMAIN nfts, NEW liq \in Liquidities, DecreaseLiquidity(i, liq) PROVE V3Inv'
  BY <1>1, <1>9, InputsAre, DecreaseStep, Zenon
<1>10. ASSUME NEW i \in DOMAIN nfts, NEW asked \in Requests, ManagerCollect(i, asked) PROVE V3Inv'
  BY <1>1, <1>10, ManagerCollectStep, Zenon
<1> QED
  BY <1>1, <1>2, <1>3, <1>4, <1>5, <1>6, <1>7, <1>8, <1>9, <1>10, Zenon DEF V3Next

\* The pool's invariant and the manager's accounts hold in every state.
THEOREM V3InvAlways == V3Spec => []V3Inv
BY V3InvInit, V3InvStep, PTL DEF V3Spec

\* The pool's running totals are always those of its positions.
THEOREM V3TotalsAlwaysAgree == V3Spec => []TotalsAgree
<1>1. V3Inv => TotalsAgree
  BY Zenon DEF V3Inv, TotalsInv
<1> QED
  BY <1>1, V3InvAlways, PTL

\* The pool can always pay what it owes and what burning everything would add.
THEOREM V3AlwaysSolvent == V3Spec => []Solvent
<1>1. V3Inv => Solvent
  <2>1. SUFFICES ASSUME V3Inv PROVE Solvent
    OBVIOUS
  <2>2. TotalsInv
    BY <2>1, Zenon DEF V3Inv
  <2> QED
    BY <2>2, BackedIsSolvent
<1> QED
  BY <1>1, V3InvAlways, PTL

\* The manager's accounts of its tokens always add up to its positions.
THEOREM AccountsAlwaysAgree == V3Spec => []AccountsAgree
<1>1. V3Inv => AccountsAgree
  BY Zenon DEF V3Inv
<1> QED
  BY <1>1, V3InvAlways, PTL

\* No swap stops for want of rounds, in any reachable state, for any amount and limit.
THEOREM SwapsAlwaysEnd == V3Spec => []SwapsEnd
<1>1. V3Inv => SwapsEnd
  <2>1. SUFFICES ASSUME V3Inv PROVE SwapsEnd
    OBVIOUS
  <2>2. TotalsInv
    BY <2>1, Zenon DEF V3Inv
  <2>3. V3TypeOK /\ Booked
    BY <2>2, PoolFacts
  <2>4. ASSUME price # 0, NEW down \in BOOLEAN, NEW exact \in BOOLEAN, NEW amount \in Int,
               NEW limit \in Bounds, IF exact THEN amount >= 0 ELSE amount <= 0,
               IF down THEN limit < price ELSE limit > price
        PROVE  Ended(SwapLoop([remaining |-> amount, calculated |-> 0, price |-> price,
                               tick |-> tick, liq |-> liquidity], exact, down, limit), limit)
    <3>1. PICK s : s = [remaining |-> amount, calculated |-> 0, price |-> price,
                        tick |-> tick, liq |-> liquidity]
      OBVIOUS
    <3>2. Underway([remaining |-> amount, calculated |-> 0, price |-> price,
                    tick |-> tick, liq |-> liquidity], exact, down, limit, amount)
      BY <2>2, <2>4, SwapStarts, Zenon
    <3>3. Underway(s, exact, down, limit, amount)
      BY <3>1, <3>2, Zenon
    <3>4. Ended(SwapLoop(s, exact, down, limit), limit)
      BY <2>3, <3>3, LoopEnds, Zenon
    <3> QED
      BY <3>1, <3>4, Zenon
  <2> QED
    BY <2>4, Zenon DEF SwapsEnd
<1> QED
  BY <1>1, V3InvAlways, PTL

\* The exact amount of token 0 of a way in two parts is the sum of theirs.
LEMMA PartsOf0 ==
  ASSUME NEW a \in Nat \ {0}, NEW b \in Nat \ {0}, NEW c \in Nat \ {0}, a <= b, b <= c,
         NEW k \in Nat, NEW w1 \in Nat, NEW w2 \in Nat
  PROVE  /\ k * (b - a) <= b * (a * w1) /\ k * (c - b) <= c * (b * w2)
              => k * (c - a) <= c * (a * (w1 + w2))
         /\ b * (a * w1) <= k * (b - a) /\ c * (b * w2) <= k * (c - b)
              => c * (a * (w1 + w2)) <= k * (c - a)
<1>1. PICK x \in Nat, y \in Nat, z \in Nat : x = k * (b - a) /\ y = k * (c - b) /\ z = k * (c - a)
  <2>1. b - a \in Nat /\ c - b \in Nat /\ c - a \in Nat
    OBVIOUS
  <2> QED
    BY <2>1, MulCount
<1>2. PICK u \in Nat, v \in Nat, w \in Nat : u = b * (a * w1) /\ v = c * (b * w2) /\ w = c * (a * (w1 + w2))
  <2>1. a * w1 \in Nat /\ b * w2 \in Nat /\ w1 + w2 \in Nat /\ a * (w1 + w2) \in Nat
    BY MulCount
  <2> QED
    BY <2>1, MulCount
<1>3. b * z = c * x + a * y
  BY <1>1
<1>4. b * w = c * u + a * v
  BY <1>2
<1>5. /\ c * x \in Nat /\ a * y \in Nat /\ c * u \in Nat /\ a * v \in Nat
      /\ b * z \in Nat /\ b * w \in Nat
  BY MulCount
<1>6. ASSUME x <= u, y <= v PROVE z <= w
  <2>1. c * x <= c * u /\ a * y <= a * v
    BY <1>6, MulUp
  <2>2. b * z <= b * w
    BY <1>3, <1>4, <1>5, <2>1
  <2> QED
    BY <2>2, MulDown
<1>7. ASSUME u <= x, v <= y PROVE w <= z
  <2>1. c * u <= c * x /\ a * v <= a * y
    BY <1>7, MulUp
  <2>2. b * w <= b * z
    BY <1>3, <1>4, <1>5, <2>1
  <2> QED
    BY <2>2, MulDown
<1> QED
  BY <1>1, <1>2, <1>6, <1>7, Zenon

\* What a part of the way costs in token 0 at most: no more than the whole.
LEMMA PartOf0 ==
  ASSUME NEW a \in Nat \ {0}, NEW b \in Nat \ {0}, NEW c \in Nat \ {0}, a <= b, b <= c,
         NEW k \in Nat, NEW w \in Nat, k * (c - a) <= c * (a * w)
  PROVE  k * (c - b) <= c * (b * w)
<1>1. PICK x \in Nat, y \in Nat, z \in Nat : x = k * (c - a) /\ y = k * (c - b) /\ z = k * (b - a)
  <2>1. b - a \in Nat /\ c - b \in Nat /\ c - a \in Nat
    OBVIOUS
  <2> QED
    BY <2>1, MulCount
<1>2. PICK u \in Nat, v \in Nat : u = c * (a * w) /\ v = c * (b * w)
  <2>1. a * w \in Nat /\ b * w \in Nat
    BY MulCount
  <2> QED
    BY <2>1, MulCount
<1>3. a * y + c * z = b * x
  BY <1>1
<1>4. a * v = b * u
  BY <1>2
<1>5. b * x <= b * u
  BY <1>1, <1>2, MulUp
<1>6. a * y \in Nat /\ c * z \in Nat /\ b * x \in Nat /\ b * u \in Nat /\ a * v \in Nat
  BY MulCount
<1>7. a * y <= a * v
  BY <1>3, <1>4, <1>5, <1>6
<1>8. y <= v
  BY <1>7, MulDown
<1> QED
  BY <1>1, <1>2, <1>8

\* Least amounts over the parts of a way are together no less than over the
\* whole, greatest ones no more; token 0.
LEMMA Split0 ==
  ASSUME NEW a \in Nat \ {0}, NEW b \in Nat \ {0}, NEW c \in Nat \ {0}, a <= b, b <= c,
         NEW k \in Nat, NEW x \in Nat, NEW y \in Nat, NEW z \in Nat
  PROVE  /\ Least0(a, b, k, x) /\ Least0(b, c, k, y) /\ Least0(a, c, k, z) => z <= x + y /\ y <= z
         /\ Most0(a, b, k, x) /\ Most0(b, c, k, y) /\ Most0(a, c, k, z) => x + y <= z
<1>1. x + y \in Nat
  OBVIOUS
<1>2. ASSUME Least0(a, b, k, x), Least0(b, c, k, y), Least0(a, c, k, z) PROVE z <= x + y /\ y <= z
  <2>1. /\ k * (b - a) <= b * (a * x) /\ k * (c - b) <= c * (b * y) /\ k * (c - a) <= c * (a * z)
        /\ k * (c - a) <= c * (a * (x + y)) => z <= x + y
        /\ k * (c - b) <= c * (b * z) => y <= z
    BY <1>1, <1>2, Zenon DEF Least0
  <2>2. k * (c - a) <= c * (a * (x + y))
    BY <2>1, PartsOf0
  <2>3. k * (c - b) <= c * (b * z)
    BY <2>1, PartOf0
  <2> QED
    BY <2>1, <2>2, <2>3
<1>3. ASSUME Most0(a, b, k, x), Most0(b, c, k, y), Most0(a, c, k, z) PROVE x + y <= z
  <2>1. /\ b * (a * x) <= k * (b - a) /\ c * (b * y) <= k * (c - b)
        /\ c * (a * (x + y)) <= k * (c - a) => x + y <= z
    BY <1>1, <1>3, Zenon DEF Most0
  <2>2. c * (a * (x + y)) <= k * (c - a)
    BY <2>1, PartsOf0
  <2> QED
    BY <2>1, <2>2
<1> QED
  BY <1>2, <1>3

\* Token 1, likewise.
LEMMA Split1 ==
  ASSUME NEW a \in Nat \ {0}, NEW b \in Nat \ {0}, NEW c \in Nat \ {0}, a <= b, b <= c,
         NEW k \in Nat, NEW x \in Nat, NEW y \in Nat, NEW z \in Nat
  PROVE  /\ Least1(a, b, k, x) /\ Least1(b, c, k, y) /\ Least1(a, c, k, z) => z <= x + y /\ x <= z
         /\ Most1(a, b, k, x) /\ Most1(b, c, k, y) /\ Most1(a, c, k, z) => x + y <= z
<1>1. x + y \in Nat
  OBVIOUS
<1>2. PICK d \in Nat, e \in Nat : d = b - a /\ e = c - b /\ d + e = c - a
  OBVIOUS
<1>3. /\ k * (c - a) = k * (b - a) + k * (c - b)
      /\ k * (b - a) \in Nat /\ k * (c - b) \in Nat
      /\ Q * (x + y) = Q * x + Q * y /\ Q * x \in Nat /\ Q * y \in Nat /\ Q * z \in Nat
  <2>1. k * (d + e) = k * d + k * e /\ k * d \in Nat /\ k * e \in Nat
    BY MulCount
  <2>2. Q * (x + y) = Q * x + Q * y /\ Q * x \in Nat /\ Q * y \in Nat /\ Q * z \in Nat
    BY PriceScale, MulCount
  <2> QED
    BY <1>2, <2>1, <2>2
<1>4. ASSUME Least1(a, b, k, x), Least1(b, c, k, y), Least1(a, c, k, z) PROVE z <= x + y /\ x <= z
  <2>1. /\ k * (b - a) <= Q * x /\ k * (c - b) <= Q * y /\ k * (c - a) <= Q * z
        /\ k * (c - a) <= Q * (x + y) => z <= x + y
        /\ k * (b - a) <= Q * z => x <= z
    BY <1>1, <1>4, Zenon DEF Least1
  <2> QED
    BY <1>3, <2>1
<1>5. ASSUME Most1(a, b, k, x), Most1(b, c, k, y), Most1(a, c, k, z) PROVE x + y <= z
  <2>1. /\ Q * x <= k * (b - a) /\ Q * y <= k * (c - b)
        /\ Q * (x + y) <= k * (c - a) => x + y <= z
    BY <1>1, <1>5, Zenon DEF Most1
  <2> QED
    BY <1>3, <2>1
<1> QED
  BY <1>4, <1>5

\* What the amounts are, rounded up and down.
LEMMA DeltasAre ==
  ASSUME NEW a \in Nat \ {0}, NEW b \in Nat \ {0}, a <= b, NEW liq \in Nat
  PROVE  /\ Amount0(a, b, liq, TRUE) \in Nat /\ Least0(a, b, liq * Q, Amount0(a, b, liq, TRUE))
         /\ Amount0(a, b, liq, FALSE) \in Nat /\ Most0(a, b, liq * Q, Amount0(a, b, liq, FALSE))
         /\ Amount1(a, b, liq, TRUE) \in Nat /\ Least1(a, b, liq, Amount1(a, b, liq, TRUE))
         /\ Amount1(a, b, liq, FALSE) \in Nat /\ Most1(a, b, liq, Amount1(a, b, liq, FALSE))
<1>1. a \in Nat /\ b \in Nat
  OBVIOUS
<1>2. Amount0(a, b, liq, TRUE) \in Nat /\ Least0(a, b, liq * Q, Amount0(a, b, liq, TRUE))
  BY Amount0UpIs, Zenon DEF Least0
<1>3. Amount0(a, b, liq, FALSE) \in Nat /\ Most0(a, b, liq * Q, Amount0(a, b, liq, FALSE))
  BY Amount0DownIs, Zenon DEF Most0
<1>4. Amount1(a, b, liq, TRUE) \in Nat /\ Least1(a, b, liq, Amount1(a, b, liq, TRUE))
  BY <1>1, Amount1UpIs, Zenon DEF Least1
<1>5. Amount1(a, b, liq, FALSE) \in Nat /\ Most1(a, b, liq, Amount1(a, b, liq, FALSE))
  BY <1>1, Amount1DownIs, Zenon DEF Most1
<1> QED
  BY <1>2, <1>3, <1>4, <1>5, Zenon

\* A way in two parts costs no less and gives no more than the way at once, and
\* no way at all costs and gives nothing.
LEMMA WayIs ==
  ASSUME NEW down \in BOOLEAN, NEW a \in Nat \ {0}, NEW b \in Nat \ {0}, NEW c \in Nat \ {0},
         Toward(down, a, b), Toward(down, b, c), NEW liq \in Nat
  PROVE  /\ Cost(down, liq, a, b) \in Nat /\ Cost(down, liq, b, c) \in Nat /\ Cost(down, liq, a, c) \in Nat
         /\ Gain(down, liq, a, b) \in Nat /\ Gain(down, liq, b, c) \in Nat /\ Gain(down, liq, a, c) \in Nat
         /\ Cost(down, liq, a, c) <= Cost(down, liq, a, b) + Cost(down, liq, b, c)
         /\ Cost(down, liq, a, b) <= Cost(down, liq, a, c)
         /\ Gain(down, liq, a, b) + Gain(down, liq, b, c) <= Gain(down, liq, a, c)
<1>0. liq * Q \in Nat /\ \A x, y \in Nat : x + y = y + x
  BY PriceScale, MulCount
<1>1. CASE down = TRUE
  <2>1. c <= b /\ b <= a /\ c <= a
    BY <1>1 DEF Toward
  <2>2. /\ Amount0(c, b, liq, TRUE) \in Nat /\ Least0(c, b, liq * Q, Amount0(c, b, liq, TRUE))
        /\ Amount1(c, b, liq, FALSE) \in Nat /\ Most1(c, b, liq, Amount1(c, b, liq, FALSE))
    BY <2>1, DeltasAre, Zenon
  <2>3. /\ Amount0(b, a, liq, TRUE) \in Nat /\ Least0(b, a, liq * Q, Amount0(b, a, liq, TRUE))
        /\ Amount1(b, a, liq, FALSE) \in Nat /\ Most1(b, a, liq, Amount1(b, a, liq, FALSE))
    BY <2>1, DeltasAre, Zenon
  <2>4. /\ Amount0(c, a, liq, TRUE) \in Nat /\ Least0(c, a, liq * Q, Amount0(c, a, liq, TRUE))
        /\ Amount1(c, a, liq, FALSE) \in Nat /\ Most1(c, a, liq, Amount1(c, a, liq, FALSE))
    BY <2>1, DeltasAre, Zenon
  <2>5. /\ Amount0(c, a, liq, TRUE) <= Amount0(c, b, liq, TRUE) + Amount0(b, a, liq, TRUE)
        /\ Amount0(b, a, liq, TRUE) <= Amount0(c, a, liq, TRUE)
    BY <1>0, <2>1, <2>2, <2>3, <2>4, Split0, Zenon
  <2>6. Amount1(c, b, liq, FALSE) + Amount1(b, a, liq, FALSE) <= Amount1(c, a, liq, FALSE)
    BY <2>1, <2>2, <2>3, <2>4, Split1, Zenon
  <2>7. /\ Amount0(c, a, liq, TRUE) <= Amount0(b, a, liq, TRUE) + Amount0(c, b, liq, TRUE)
        /\ Amount1(b, a, liq, FALSE) + Amount1(c, b, liq, FALSE) <= Amount1(c, a, liq, FALSE)
    BY <1>0, <2>2, <2>3, <2>5, <2>6, Zenon
  <2> QED
    BY <1>1, <2>2, <2>3, <2>4, <2>5, <2>7, Zenon DEF Cost, Gain
<1>2. CASE down = FALSE
  <2>1. a <= b /\ b <= c /\ a <= c
    BY <1>2 DEF Toward
  <2>2. /\ Amount0(a, b, liq, FALSE) \in Nat /\ Most0(a, b, liq * Q, Amount0(a, b, liq, FALSE))
        /\ Amount1(a, b, liq, TRUE) \in Nat /\ Least1(a, b, liq, Amount1(a, b, liq, TRUE))
    BY <2>1, DeltasAre, Zenon
  <2>3. /\ Amount0(b, c, liq, FALSE) \in Nat /\ Most0(b, c, liq * Q, Amount0(b, c, liq, FALSE))
        /\ Amount1(b, c, liq, TRUE) \in Nat /\ Least1(b, c, liq, Amount1(b, c, liq, TRUE))
    BY <2>1, DeltasAre, Zenon
  <2>4. /\ Amount0(a, c, liq, FALSE) \in Nat /\ Most0(a, c, liq * Q, Amount0(a, c, liq, FALSE))
        /\ Amount1(a, c, liq, TRUE) \in Nat /\ Least1(a, c, liq, Amount1(a, c, liq, TRUE))
    BY <2>1, DeltasAre, Zenon
  <2>5. Amount0(a, b, liq, FALSE) + Amount0(b, c, liq, FALSE) <= Amount0(a, c, liq, FALSE)
    BY <1>0, <2>1, <2>2, <2>3, <2>4, Split0, Zenon
  <2>6. /\ Amount1(a, c, liq, TRUE) <= Amount1(a, b, liq, TRUE) + Amount1(b, c, liq, TRUE)
        /\ Amount1(a, b, liq, TRUE) <= Amount1(a, c, liq, TRUE)
    BY <2>1, <2>2, <2>3, <2>4, Split1, Zenon
  <2> QED
    BY <1>2, <2>2, <2>3, <2>4, <2>5, <2>6, Zenon DEF Cost, Gain
<1> QED
  BY <1>1, <1>2

\* To stay costs nothing and gives nothing.
LEMMA StayIs ==
  ASSUME NEW down \in BOOLEAN, NEW a \in Nat \ {0}, NEW liq \in Nat
  PROVE  Toward(down, a, a) /\ Cost(down, liq, a, a) = 0 /\ Gain(down, liq, a, a) = 0
<1>1. a <= a /\ 0 \in Nat /\ a * (a * 0) = 0 /\ Q * 0 = 0
  BY PriceScale
<1>2. \A k \in Nat : k * (a - a) <= a * (a * 0) /\ k * (a - a) <= Q * 0 /\ k * (a - a) = 0
  BY <1>1
<1>3. liq * Q \in Nat
  BY PriceScale, MulCount
<1>4. ASSUME NEW x \in Nat, Most0(a, a, liq * Q, x) PROVE x = 0
  <2>1. a * (a * x) <= 0
    BY <1>2, <1>3, <1>4, Zenon DEF Most0
  <2> QED
    BY <2>1
<1>5. ASSUME NEW x \in Nat, Most1(a, a, liq, x) PROVE x = 0
  <2>1. Q * x <= 0
    BY <1>2, <1>5, Zenon DEF Most1
  <2> QED
    BY <2>1, PriceScale
<1>6. ASSUME NEW x \in Nat, Least0(a, a, liq * Q, x) \/ Least1(a, a, liq, x) PROVE x = 0
  <2>1. x <= 0
    BY <1>1, <1>2, <1>3, <1>6, Zenon DEF Least0, Least1
  <2> QED
    BY <2>1
<1>7. /\ Amount0(a, a, liq, TRUE) = 0 /\ Amount1(a, a, liq, TRUE) = 0
      /\ Amount0(a, a, liq, FALSE) = 0 /\ Amount1(a, a, liq, FALSE) = 0
  BY <1>1, <1>4, <1>5, <1>6, DeltasAre, Zenon
<1>8. Cost(down, liq, a, a) = 0 /\ Gain(down, liq, a, a) = 0
  BY <1>7, Zenon DEF Cost, Gain
<1> QED
  BY <1>1, <1>8, Zenon DEF Toward

\* An input that falls short of the target moves the price as far as it pays for.
LEMMA FarDown ==
  ASSUME NEW p \in Nat \ {0}, NEW t \in Nat \ {0}, t <= p, NEW liq \in Nat, NEW x \in Nat,
         ~(Amount0(t, p, liq, TRUE) <= x),
         NEW m \in Nat \ {0}, m <= p, Amount0(m, p, liq, TRUE) <= x
  PROVE  NextFromInput(p, liq, x, TRUE) <= m
<1>1. PICK c \in Nat : c = liq * Q
  BY PriceScale
<1>2. c # 0
  <2>1. SUFFICES ASSUME c = 0 PROVE FALSE
    OBVIOUS
  <2>2. c * (p - t) = 0 /\ p * (t * x) \in Nat
    BY <2>1
  <2>3. liq * Q * (p - t) <= p * (t * x)
    BY <1>1, <2>2
  <2> QED
    BY <2>3, Amount0UpLeast, Zenon
<1>3. PICK a \in Nat : a = Amount0(m, p, liq, TRUE) /\ liq * Q * (p - m) <= p * (m * a)
  BY Amount0UpIs, Zenon
<1>4. c * (p - m) <= p * (m * x)
  <2>1. a <= x
    BY <1>3, Zenon
  <2>2. p * (m * a) <= p * (m * x) /\ p * (m * a) \in Nat /\ p * (m * x) \in Nat
    <3>1. m * a <= m * x /\ m * a \in Nat /\ m * x \in Nat
      BY <2>1, MulUp, MulCount
    <3> QED
      BY <3>1, MulUp, MulCount
  <2>3. liq * Q * (p - m) <= p * (m * a)
    BY <1>3, Zenon
  <2> QED
    BY <1>1, <2>2, <2>3
<1>5. c * (p - m) = c * p - c * m /\ c * p \in Nat /\ c * m \in Nat /\ p * (m * x) \in Nat
  OBVIOUS
<1>6. CASE x = 0
  <2>1. c * p <= c * m
    BY <1>4, <1>5, <1>6
  <2>2. p <= m
    BY <1>2, <2>1, MulDown
  <2>3. NextFromInput(p, liq, x, TRUE) = p
    BY <1>6 DEF NextFromInput
  <2> QED
    BY <2>2, <2>3, Zenon
<1>7. CASE x # 0
  <2>1. PICK d \in Nat \ {0} : d = c + x * p
    BY <1>2, MulCount
  <2>2. d * m = c * m + p * (m * x)
    BY <2>1
  <2>3. c * p <= d * m
    BY <1>4, <1>5, <2>2
  <2>4. DivUp(c * p, d) <= m
    BY <1>5, <2>3, DivUpIs
  <2>5. NextFromInput(p, liq, x, TRUE) = DivUp(c * p, d)
    BY <1>1, <1>7, <2>1 DEF NextFromInput
  <2> QED
    BY <2>4, <2>5, Zenon
<1> QED
  BY <1>6, <1>7

\* Upwards, likewise.
LEMMA FarUp ==
  ASSUME NEW p \in Nat \ {0}, NEW t \in Nat \ {0}, p <= t, NEW liq \in Nat, NEW x \in Nat,
         ~(Amount1(p, t, liq, TRUE) <= x),
         NEW m \in Nat \ {0}, p <= m, Amount1(p, m, liq, TRUE) <= x
  PROVE  m <= NextFromInput(p, liq, x, FALSE)
<1>0. p \in Nat /\ t \in Nat /\ m \in Nat
  OBVIOUS
<1>1. liq # 0
  <2>1. SUFFICES ASSUME liq = 0 PROVE FALSE
    OBVIOUS
  <2>2. liq * (t - p) <= Q * x
    <3>1. liq * (t - p) = 0 /\ Q * x \in Nat
      BY <2>1, PriceScale
    <3> QED
      BY <3>1
  <2> QED
    BY <1>0, <2>2, Amount1UpLeast, Zenon
<1>2. PICK a \in Nat : a = Amount1(p, m, liq, TRUE) /\ liq * (m - p) <= Q * a
  BY <1>0, Amount1UpIs, Zenon
<1>3. liq * (m - p) <= x * Q /\ x * Q \in Nat /\ liq * (m - p) \in Nat
  <2>1. a <= x
    BY <1>2, Zenon
  <2>2. Q * a <= Q * x /\ Q * a \in Nat /\ Q * x \in Nat /\ Q * x = x * Q
    BY <2>1, PriceScale, MulUp
  <2>3. liq * (m - p) <= Q * a
    BY <1>2, Zenon
  <2>4. liq * (m - p) \in Nat
    BY MulCount
  <2> QED
    BY <2>2, <2>3, <2>4
<1>4. PICK d \in Nat : d = (x * Q) \div liq /\ x * Q < liq * d + liq
  BY <1>1, <1>3, DivFloor
<1>5. m - p <= d
  <2>1. SUFFICES ASSUME d + 1 <= m - p PROVE FALSE
    OBVIOUS
  <2>2. liq * (d + 1) <= liq * (m - p) /\ liq * (d + 1) \in Nat
    BY <2>1, MulUp, MulCount
  <2>3. liq * (d + 1) = liq * d + liq
    OBVIOUS
  <2> QED
    BY <1>3, <1>4, <2>2, <2>3
<1>6. NextFromInput(p, liq, x, FALSE) = p + d
  BY <1>4 DEF NextFromInput
<1>7. m <= p + d
  BY <1>5
<1> QED
  BY <1>6, <1>7, Zenon

\* What an input is after the fee, and the fee on an amount.
LEMMA FitsIs ==
  ASSUME NEW x \in Nat, NEW i \in Nat
  PROVE  /\ Left(x) \in Nat
         /\ i <= Left(x) <=> Fits(i, x)
         /\ Fits(i, i + DivUp(i * FeePips, PipScale - FeePips))
         /\ Fits(i, x) => i + DivUp(i * FeePips, PipScale - FeePips) <= x
<1>1. PICK d \in Nat \ {0} : d = PipScale - FeePips
  BY Fees
<1>2. PICK F \in Nat, S \in Nat \ {0} : F = FeePips /\ S = PipScale /\ S = d + F
  BY <1>1, Fees
<1>3. x * d \in Nat /\ i * F \in Nat /\ i * S \in Nat /\ i * d \in Nat
  BY MulCount
<1>4. PICK y \in Nat : y = (x * d) \div S /\ S * y <= x * d /\ x * d < S * y + S
  BY <1>3, DivFloor
<1>5. i <= y <=> i * S <= x * d
  <2>1. S * i = i * S /\ S * y \in Nat /\ S * (y + 1) = S * y + S
    OBVIOUS
  <2>2. i <= y => S * i <= S * y
    BY MulUp
  <2>3. y + 1 <= i => S * (y + 1) <= S * i
    BY MulUp
  <2> QED
    BY <1>3, <1>4, <2>1, <2>2, <2>3
<1>6. PICK g \in Nat : g = DivUp(i * F, d) /\ i * F <= d * g /\ \A m \in Nat : i * F <= d * m => g <= m
  BY <1>3, DivUpIs
<1>7. i * S = i * d + i * F
  BY <1>2
<1>8. i * S <= (i + g) * d
  <2>1. (i + g) * d = i * d + d * g /\ d * g \in Nat
    OBVIOUS
  <2> QED
    BY <1>3, <1>6, <1>7, <2>1
<1>9. ASSUME i * S <= x * d PROVE i + g <= x
  <2>1. d * i <= d * x
    BY <1>3, <1>7, <1>9
  <2>2. PICK k \in Nat : k = x - i /\ x = i + k
    BY <2>1, MulDown
  <2>3. i * F <= d * k
    <3>1. x * d = i * d + d * k /\ d * k \in Nat
      BY <2>2
    <3> QED
      BY <1>3, <1>7, <1>9, <3>1
  <2>4. g <= k
    BY <1>6, <2>3
  <2> QED
    BY <2>2, <2>4
<1> QED
  BY <1>1, <1>2, <1>4, <1>5, <1>6, <1>8, <1>9 DEF Fits, Left

\* The amounts of a way, on either side.
LEMMA SidesAre ==
  ASSUME NEW p \in Nat \ {0}, NEW n \in Nat \ {0}, NEW liq, NEW up
  PROVE  /\ n <= p => /\ AmountOn(0, p, n, liq, up) = Amount0(n, p, liq, up)
                      /\ AmountOn(1, p, n, liq, up) = Amount1(n, p, liq, up)
         /\ p <= n => /\ AmountOn(0, p, n, liq, up) = Amount0(p, n, liq, up)
                      /\ AmountOn(1, p, n, liq, up) = Amount1(p, n, liq, up)
<1>0. 1 # 0
  OBVIOUS
<1>1. CASE p < n
  <2>1. ~(n <= p)
    BY <1>1
  <2> QED
    BY <1>0, <1>1, <2>1, Zenon DEF AmountOn
<1>2. CASE n < p
  <2>1. ~(p <= n) /\ ~(p < n)
    BY <1>2
  <2> QED
    BY <1>0, <2>1, Zenon DEF AmountOn
<1>3. CASE p = n
  <2>1. ~(p < p)
    OBVIOUS
  <2> QED
    BY <1>0, <1>3, <2>1, Zenon DEF AmountOn
<1> QED
  BY <1>1, <1>2, <1>3

\* That is on the way, paid for, and as far as can be.
LEMMA ReachIs ==
  ASSUME NEW down \in BOOLEAN, NEW p \in Nat \ {0}, NEW t \in Nat \ {0}, Toward(down, p, t),
         NEW liq \in Nat, NEW less \in Nat
  PROVE  LET n == Reach(down, p, t, liq, less)
         IN  /\ n \in Nat \ {0} /\ Toward(down, p, n) /\ Toward(down, n, t)
             /\ n # t <=> ~(Cost(down, liq, p, t) <= less)
             /\ Cost(down, liq, p, n) <= less
             /\ \A m \in Nat \ {0} : /\ Toward(down, p, m) /\ Toward(down, m, t)
                                     /\ Cost(down, liq, p, m) <= less
                                     => Toward(down, m, n)
<1>1. CASE Cost(down, liq, p, t) <= less
  <2>1. Reach(down, p, t, liq, less) = t
    BY <1>1 DEF Reach
  <2>2. Toward(down, t, t)
    BY DEF Toward
  <2> QED
    BY <1>1, <2>1, <2>2, Zenon
<1>2. CASE ~(Cost(down, liq, p, t) <= less)
  <2>0. Reach(down, p, t, liq, less) = NextFromInput(p, liq, less, down)
    BY <1>2 DEF Reach
  <2>1. CASE down = TRUE
    <3>1. t <= p /\ ~(Amount0(t, p, liq, TRUE) <= less)
      BY <1>2, <2>1, Zenon DEF Toward, Cost
    <3>2. PICK n \in Nat : /\ n = NextFromInput(p, liq, less, TRUE) /\ t < n /\ n <= p
                           /\ Amount0(n, p, liq, TRUE) <= less
      BY <3>1, InputDown, Zenon
    <3>3. t < n
      BY <3>2, Zenon
    <3>4. n # 0 /\ n # t /\ t <= n
      BY <3>3
    <3>5. \A m \in Nat \ {0} : m <= p /\ Amount0(m, p, liq, TRUE) <= less => n <= m
      BY <3>1, <3>2, FarDown, Zenon
    <3>6. /\ n \in Nat \ {0} /\ Toward(down, p, n) /\ Toward(down, n, t)
          /\ Cost(down, liq, p, n) <= less
      BY <2>1, <3>2, <3>4, Zenon DEF Toward, Cost
    <3>7. \A m \in Nat \ {0} : Toward(down, p, m) /\ Cost(down, liq, p, m) <= less => Toward(down, m, n)
      BY <2>1, <3>5, Zenon DEF Toward, Cost
    <3> QED
      BY <1>2, <2>0, <2>1, <3>2, <3>4, <3>6, <3>7, Zenon
  <2>2. CASE down = FALSE
    <3>1. p <= t /\ ~(Amount1(p, t, liq, TRUE) <= less)
      BY <1>2, <2>2, Zenon DEF Toward, Cost
    <3>2. PICK n \in Nat : /\ n = NextFromInput(p, liq, less, FALSE) /\ p <= n /\ n < t
                           /\ Amount1(p, n, liq, TRUE) <= less
      BY <3>1, InputUp, Zenon
    <3>3. n < t /\ p <= n
      BY <3>2, Zenon
    <3>4. n # 0 /\ n # t /\ n <= t
      BY <3>3
    <3>5. \A m \in Nat \ {0} : p <= m /\ Amount1(p, m, liq, TRUE) <= less => m <= n
      BY <3>1, <3>2, FarUp, Zenon
    <3>6. /\ n \in Nat \ {0} /\ Toward(down, p, n) /\ Toward(down, n, t)
          /\ Cost(down, liq, p, n) <= less
      BY <2>2, <3>2, <3>4, Zenon DEF Toward, Cost
    <3>7. \A m \in Nat \ {0} : Toward(down, p, m) /\ Cost(down, liq, p, m) <= less => Toward(down, m, n)
      BY <2>2, <3>5, Zenon DEF Toward, Cost
    <3> QED
      BY <1>2, <2>0, <2>2, <3>2, <3>4, <3>6, <3>7, Zenon
  <2> QED
    BY <2>1, <2>2
<1> QED
  BY <1>1, <1>2

\* It goes as far as it reaches.
LEMMA StepIs ==
  ASSUME NEW down \in BOOLEAN, NEW p \in Nat \ {0}, NEW t \in Nat \ {0}, Toward(down, p, t),
         NEW liq \in Nat, NEW rem \in Nat
  PROVE  SwapStep(p, t, liq, rem) =
           Outcome(down, p, t, liq, rem, Reach(down, p, t, liq, Left(rem)))
<1>0. PICK less \in Nat : /\ less = Left(rem) /\ less = (rem * (PipScale - FeePips)) \div PipScale
                         /\ rem >= 0 /\ 1 - 0 = 1 /\ 1 - 1 = 0
  BY FitsIs DEF Left
<1>1. PICK n \in Nat \ {0} : n = Reach(down, p, t, liq, less) /\ Toward(down, p, n)
  <2>1. Reach(down, p, t, liq, less) \in Nat \ {0} /\ Toward(down, p, Reach(down, p, t, liq, less))
    BY <1>0, ReachIs, Zenon
  <2> QED
    BY <2>1, Zenon
<1>2. \A x \in Nat : less >= x <=> x <= less
  BY <1>0
<1>3. Cost(down, liq, p, t) \in Nat
  <2>1. Toward(down, t, t)
    BY DEF Toward
  <2> QED
    BY <2>1, WayIs, Zenon
<1>4. CASE down = TRUE
  <2>1. t <= p /\ n <= p /\ p >= t
    BY <1>1, <1>4 DEF Toward
  <2>2. /\ AmountOn(0, p, t, liq, TRUE) = Cost(down, liq, p, t)
        /\ AmountOn(0, p, n, liq, TRUE) = Cost(down, liq, p, n)
        /\ AmountOn(1, p, n, liq, FALSE) = Gain(down, liq, p, n)
    <3>1. \A up : /\ AmountOn(0, p, t, liq, up) = Amount0(t, p, liq, up)
                  /\ AmountOn(0, p, n, liq, up) = Amount0(n, p, liq, up)
                  /\ AmountOn(1, p, n, liq, up) = Amount1(n, p, liq, up)
      BY <2>1, SidesAre
    <3> QED
      BY <1>4, <3>1, Zenon DEF Cost, Gain
  <2>3. n = IF less >= AmountOn(0, p, t, liq, TRUE) THEN t ELSE NextFromInput(p, liq, less, TRUE)
    BY <1>1, <1>2, <1>3, <1>4, <2>2, Zenon DEF Reach
  <2> QED
    BY <1>0, <1>1, <2>1, <2>2, <2>3, Zenon DEF SwapStep, Outcome
<1>5. CASE down = FALSE /\ p # t
  <2>1. p <= t /\ p <= n /\ ~(p >= t) /\ (p >= t) = FALSE
    BY <1>1, <1>5 DEF Toward
  <2>2. /\ AmountOn(1, p, t, liq, TRUE) = Cost(down, liq, p, t)
        /\ AmountOn(1, p, n, liq, TRUE) = Cost(down, liq, p, n)
        /\ AmountOn(0, p, n, liq, FALSE) = Gain(down, liq, p, n)
    <3>1. \A up : /\ AmountOn(1, p, t, liq, up) = Amount1(p, t, liq, up)
                  /\ AmountOn(1, p, n, liq, up) = Amount1(p, n, liq, up)
                  /\ AmountOn(0, p, n, liq, up) = Amount0(p, n, liq, up)
      BY <2>1, SidesAre
    <3> QED
      BY <1>5, <3>1, Zenon DEF Cost, Gain
  <2>3. n = IF less >= AmountOn(1, p, t, liq, TRUE) THEN t ELSE NextFromInput(p, liq, less, FALSE)
    BY <1>1, <1>2, <1>3, <1>5, <2>2, Zenon DEF Reach
  <2> QED
    BY <1>0, <1>1, <2>1, <2>2, <2>3, Zenon DEF SwapStep, Outcome
<1>6. CASE p = t
  <2>1. p <= p /\ p >= p /\ 0 <= less
    BY <1>0
  <2>2. \A d \in BOOLEAN : Cost(d, liq, p, p) = 0 /\ Gain(d, liq, p, p) = 0
    BY StayIs, Zenon
  <2>3. Cost(TRUE, liq, p, p) = 0 /\ Gain(TRUE, liq, p, p) = 0
    BY <2>2, Zenon
  <2>4. n = p
    BY <1>1, <1>6, <2>1, <2>2, Zenon DEF Reach
  <2>5. AmountOn(0, p, p, liq, TRUE) = 0 /\ AmountOn(1, p, p, liq, FALSE) = 0
    <3>1. Amount0(p, p, liq, TRUE) = 0 /\ Amount1(p, p, liq, FALSE) = 0
      BY <2>3, Zenon DEF Cost, Gain
    <3>2. \A up : /\ AmountOn(0, p, p, liq, up) = Amount0(p, p, liq, up)
                  /\ AmountOn(1, p, p, liq, up) = Amount1(p, p, liq, up)
      BY <2>1, SidesAre
    <3> QED
      BY <3>1, <3>2, Zenon
  <2>6. less >= 0
    BY <1>0
  <2>7. SwapStep(p, p, liq, rem) =
          [next |-> p, in |-> 0, out |-> 0, fee |-> DivUp(0 * FeePips, PipScale - FeePips)]
    BY <1>0, <2>1, <2>5, <2>6, Zenon DEF SwapStep
  <2> QED
    BY <1>0, <1>1, <1>6, <2>2, <2>4, <2>7, Zenon DEF Outcome
<1> QED
  BY <1>4, <1>5, <1>6, Zenon

\* What fits is no debt; nothing fits anything; fitting adds up, and what fits
\* fits more.
LEMMA FitsPositive ==
  ASSUME NEW a \in Nat, NEW x \in Int, Fits(a, x)
  PROVE  x >= 0
<1>1. PICK d \in Nat \ {0}, S \in Nat \ {0} : d = PipScale - FeePips /\ S = PipScale
  BY Fees
<1>2. a * S <= x * d /\ a * S \in Nat
  BY <1>1, MulCount DEF Fits
<1>3. SUFFICES ASSUME x < 0 PROVE FALSE
  OBVIOUS
<1>4. x * d < 0
  BY <1>3
<1> QED
  BY <1>2, <1>4

\* Nothing is paid for by any input.
LEMMA FitsNone == \A x \in Nat : Fits(0, x)
BY Fees, MulCount DEF Fits

\* Two inputs together pay for what they pay for apart.
LEMMA FitsAdd ==
  ASSUME NEW a \in Nat, NEW b \in Nat, NEW e \in Nat, e <= a + b, NEW x \in Int, NEW y \in Int,
         Fits(a, x), Fits(b, y)
  PROVE  Fits(e, x + y)
<1>1. PICK d \in Nat \ {0}, S \in Nat \ {0} : d = PipScale - FeePips /\ S = PipScale
  BY Fees
<1>2. /\ a * S <= x * d /\ b * S <= y * d /\ a * S \in Nat /\ b * S \in Nat /\ e * S \in Nat
      /\ x * d \in Int /\ y * d \in Int
  BY <1>1, MulCount DEF Fits
<1>3. e * S <= (a + b) * S /\ (a + b) * S = a * S + b * S /\ (x + y) * d = x * d + y * d
  BY MulUp
<1> QED
  BY <1>1, <1>2, <1>3 DEF Fits

\* A larger input pays for as much.
LEMMA FitsMore ==
  ASSUME NEW a \in Nat, NEW x \in Int, NEW y \in Nat, Fits(a, x)
  PROVE  Fits(a, x + y)
<1>1. Fits(0, y) /\ a <= a + 0 /\ y \in Int /\ 0 \in Nat
  BY FitsNone
<1> QED
  BY <1>1, FitsAdd, Zenon

\* Every step does all this.
LEMMA TakenIs ==
  ASSUME NEW down \in BOOLEAN, NEW p \in Nat \ {0}, NEW t \in Nat \ {0}, Toward(down, p, t),
         NEW liq \in Nat, NEW rem \in Nat
  PROVE  /\ \E n \in Nat \ {0}, c \in Nat : Taken(down, p, t, liq, rem, n, c)
         /\ SameBeyond(down, p, t, liq, rem)
<1>1. PICK less \in Nat : less = Left(rem)
  BY FitsIs
<1>2. \A i \in Nat : /\ i <= less <=> Fits(i, rem)
                     /\ Fits(i, i + DivUp(i * FeePips, PipScale - FeePips))
                     /\ \A x \in Nat : Fits(i, x) => i + DivUp(i * FeePips, PipScale - FeePips) <= x
  BY <1>1, FitsIs, Zenon
<1>3. PICK n \in Nat \ {0} :
        /\ n = Reach(down, p, t, liq, less) /\ Toward(down, p, n) /\ Toward(down, n, t)
        /\ n # t <=> ~(Cost(down, liq, p, t) <= less)
        /\ Cost(down, liq, p, n) <= less
        /\ \A m \in Nat \ {0} : /\ Toward(down, p, m) /\ Toward(down, m, t)
                                /\ Cost(down, liq, p, m) <= less
                                => Toward(down, m, n)
  <2>1. Reach(down, p, t, liq, less) \in Nat \ {0}
    BY ReachIs, Zenon
  <2> QED
    BY <2>1, ReachIs, Zenon
<1>4. \A m \in Nat \ {0} : Toward(down, p, m) => Cost(down, liq, p, m) \in Nat
  <2>1. SUFFICES ASSUME NEW m \in Nat \ {0}, Toward(down, p, m) PROVE Cost(down, liq, p, m) \in Nat
    OBVIOUS
  <2>2. Toward(down, m, m)
    BY DEF Toward
  <2> QED
    BY <2>1, <2>2, WayIs, Zenon
<1>5. PICK i \in Nat : i = Cost(down, liq, p, n) /\ i <= less
  BY <1>3, <1>4
<1>6. PICK f : f = IF n # t THEN rem - i ELSE DivUp(i * FeePips, PipScale - FeePips)
  OBVIOUS
<1>7. SwapStep(p, t, liq, rem) = Outcome(down, p, t, liq, rem, n)
  BY <1>1, <1>3, StepIs
<1>8. /\ SwapStep(p, t, liq, rem).next = n /\ SwapStep(p, t, liq, rem).in = i
      /\ SwapStep(p, t, liq, rem).out = Gain(down, liq, p, n) /\ SwapStep(p, t, liq, rem).fee = f
  <2>1. SwapStep(p, t, liq, rem) = [next |-> n, in |-> i, out |-> Gain(down, liq, p, n), fee |-> f]
    BY <1>5, <1>6, <1>7 DEF Outcome
  <2> QED
    BY <2>1
<1>9. PICK g \in Nat : /\ g = DivUp(i * FeePips, PipScale - FeePips) /\ Fits(i, i + g) /\ i + g <= rem
                       /\ \A x \in Nat : Fits(i, x) => i + g <= x
  <2>1. DivUp(i * FeePips, PipScale - FeePips) \in Nat
    BY FeeCount
  <2> QED
    BY <1>2, <1>5, <2>1, Zenon
<1>10. PICK c \in Nat : /\ c = i + f /\ c <= rem /\ (n = t \/ c = rem) /\ Fits(i, c)
                        /\ n = t => \A x \in Nat : Fits(i, x) => c <= x
  <2>1. CASE n = t
    <3>1. f = g
      BY <1>6, <1>9, <2>1, Zenon
    <3>2. i + g \in Nat
      OBVIOUS
    <3> QED
      BY <1>9, <2>1, <3>1, <3>2, Zenon
  <2>2. CASE n # t
    <3>1. i + f = rem /\ rem <= rem
      BY <1>6, <2>2
    <3>2. Fits(i, rem)
      BY <1>2, <1>5, Zenon
    <3> QED
      BY <2>2, <3>1, <3>2, Zenon
  <2> QED
    BY <2>1, <2>2
<1>11. Taken(down, p, t, liq, rem, n, c)
  <2>1. \A m \in Nat \ {0} : /\ Toward(down, p, m) /\ Toward(down, m, t)
                             /\ Fits(Cost(down, liq, p, m), rem)
                             => Toward(down, m, n)
    BY <1>2, <1>3, <1>4, Zenon
  <2> QED
    BY <1>3, <1>5, <1>8, <1>10, <2>1, Zenon DEF Taken
<1>12. ASSUME NEW u \in Nat \ {0}, Toward(down, t, u), n # t
       PROVE  SwapStep(p, u, liq, rem) = SwapStep(p, t, liq, rem)
  <2>0. Toward(down, p, u)
    BY <1>12 DEF Toward
  <2>1. PICK x \in Nat, y \in Nat : /\ x = Cost(down, liq, p, t) /\ y = Cost(down, liq, p, u) /\ x <= y
    <3>1. /\ Cost(down, liq, p, t) \in Nat /\ Cost(down, liq, p, u) \in Nat
          /\ Cost(down, liq, p, t) <= Cost(down, liq, p, u)
      BY <1>12, WayIs, Zenon
    <3> QED
      BY <3>1, Zenon
  <2>2. ~(x <= less) /\ ~(y <= less)
    <3>1. ~(x <= less)
      BY <1>3, <1>12, <2>1, Zenon
    <3> QED
      BY <2>1, <3>1
  <2>3. Reach(down, p, u, liq, less) = n
    BY <1>3, <2>1, <2>2, Zenon DEF Reach
  <2>4. SwapStep(p, u, liq, rem) = Outcome(down, p, u, liq, rem, n)
    BY <1>1, <2>0, <2>3, StepIs
  <2>5. n # u
    BY <1>3, <1>12 DEF Toward
  <2> QED
    BY <1>7, <1>12, <2>4, <2>5, Zenon DEF Outcome
<1> QED
  BY <1>8, <1>11, <1>12, Zenon DEF SameBeyond

\* A step of the swap keeps it so.
LEMMA TrailsOn ==
  ASSUME NEW down \in BOOLEAN, NEW liq \in Nat, NEW p \in Nat \ {0}, NEW s \in Int, NEW h \in Int,
         NEW q \in Nat \ {0}, NEW r \in Int, NEW g \in Int, Trails(down, liq, p, s, h, q, r, g),
         NEW n \in Nat \ {0}, NEW c \in Nat, Toward(down, q, n), Fits(Cost(down, liq, q, n), c)
  PROVE  /\ Trails(down, liq, p, s, h, n, r - c, g - Gain(down, liq, q, n))
         /\ r <= s
<1>1. Toward(down, p, q) /\ Fits(Cost(down, liq, p, q), s - r) /\ h - Gain(down, liq, p, q) <= g
  BY Zenon DEF Trails
<1>2. PICK x, y, z, u, v, w \in Nat :
        /\ x = Cost(down, liq, p, q) /\ y = Cost(down, liq, q, n) /\ z = Cost(down, liq, p, n) /\ z <= x + y
        /\ u = Gain(down, liq, p, q) /\ v = Gain(down, liq, q, n) /\ w = Gain(down, liq, p, n) /\ u + v <= w
  <2>1. /\ Cost(down, liq, p, q) \in Nat /\ Cost(down, liq, q, n) \in Nat /\ Cost(down, liq, p, n) \in Nat
        /\ Gain(down, liq, p, q) \in Nat /\ Gain(down, liq, q, n) \in Nat /\ Gain(down, liq, p, n) \in Nat
        /\ Cost(down, liq, p, n) <= Cost(down, liq, p, q) + Cost(down, liq, q, n)
        /\ Gain(down, liq, p, q) + Gain(down, liq, q, n) <= Gain(down, liq, p, n)
    BY <1>1, WayIs, Zenon
  <2> QED
    BY <2>1, Zenon
<1>3. s - r \in Int /\ c \in Int /\ (s - r) + c = s - (r - c)
  OBVIOUS
<1>4. s - r >= 0 /\ Fits(z, (s - r) + c)
  BY <1>1, <1>2, <1>3, FitsAdd, FitsPositive, Zenon
<1>5. Toward(down, p, n)
  BY <1>1 DEF Toward
<1>6. h - w <= g - v
  BY <1>1, <1>2
<1>7. r <= s
  BY <1>4
<1> QED
  BY <1>2, <1>3, <1>4, <1>5, <1>6, <1>7, Zenon DEF Trails

\* The quote's next step overtakes the swap, unless it is stopped before, and has
\* then given as much or more.
LEMMA CatchUp ==
  ASSUME NEW down \in BOOLEAN, NEW liq \in Nat, NEW p \in Nat \ {0}, NEW s \in Nat, NEW h \in Int,
         NEW q \in Nat \ {0}, NEW r \in Nat, NEW g \in Int, Trails(down, liq, p, s, h, q, r, g),
         NEW t \in Nat \ {0}, Toward(down, q, t), NEW n \in Nat \ {0}, NEW c \in Nat,
         Taken(down, p, t, liq, s, n, c)
  PROVE  /\ Toward(down, q, n) /\ h - Gain(down, liq, p, n) <= g
         /\ q = t => /\ n = t
                     /\ \A k \in Nat : Trails(down, k, n, s - c, h - Gain(down, liq, p, n), q, r, g)
<1>1. Toward(down, p, q) /\ Fits(Cost(down, liq, p, q), s - r) /\ h - Gain(down, liq, p, q) <= g
  BY Zenon DEF Trails
<1>2. PICK x \in Nat : x = Cost(down, liq, p, q)
  <2>1. Toward(down, q, q)
    BY DEF Toward
  <2> QED
    BY <1>1, <2>1, WayIs, Zenon
<1>3. s - r \in Int /\ (s - r) + r = s
  OBVIOUS
<1>4. s - r >= 0 /\ Fits(x, s)
  <2>1. Fits(x, (s - r) + r)
    BY <1>1, <1>2, <1>3, FitsMore, Zenon
  <2> QED
    BY <1>1, <1>2, <1>3, <2>1, FitsPositive, Zenon
<1>5. Toward(down, q, n)
  BY <1>1, <1>2, <1>4, Zenon DEF Taken
<1>6. h - Gain(down, liq, p, n) <= g
  <2>1. PICK u, v, w \in Nat : u = Gain(down, liq, p, q) /\ v = Gain(down, liq, q, n)
                               /\ w = Gain(down, liq, p, n) /\ u + v <= w
    <3>1. /\ Gain(down, liq, p, q) \in Nat /\ Gain(down, liq, q, n) \in Nat /\ Gain(down, liq, p, n) \in Nat
          /\ Gain(down, liq, p, q) + Gain(down, liq, q, n) <= Gain(down, liq, p, n)
      BY <1>1, <1>5, WayIs, Zenon
    <3> QED
      BY <3>1, Zenon
  <2>2. h - u <= g
    BY <1>1, <2>1
  <2>3. h - w <= g
    BY <2>1, <2>2
  <2> QED
    BY <2>1, <2>3
<1>7. ASSUME q = t
      PROVE  n = t /\ \A k \in Nat : Trails(down, k, n, s - c, h - Gain(down, liq, p, n), q, r, g)
  <2>1. n = t
    <3>1. Toward(down, n, t)
      BY Zenon DEF Taken
    <3> QED
      BY <1>5, <1>7, <3>1 DEF Toward
  <2>2. c <= s - r
    <3>1. s - r \in Nat
      BY <1>4
    <3>2. \A y \in Nat : Fits(Cost(down, liq, p, n), y) => c <= y
      BY <2>1, Zenon DEF Taken
    <3> QED
      BY <1>1, <1>7, <2>1, <3>1, <3>2
  <2>3. (s - c) - r \in Nat
    BY <2>2
  <2>4. Fits(0, (s - c) - r)
    BY <2>3, FitsNone
  <2>5. ASSUME NEW k \in Nat
        PROVE  Trails(down, k, n, s - c, h - Gain(down, liq, p, n), q, r, g)
    <3>1. Toward(down, n, n) /\ Cost(down, k, n, n) = 0 /\ Gain(down, k, n, n) = 0
      BY StayIs
    <3>2. PICK y \in Int : y = h - Gain(down, liq, p, n) /\ y - 0 = y
      <4>1. Gain(down, liq, p, n) \in Nat
        BY <1>1, <1>5, WayIs
      <4> QED
        BY <4>1
    <3> QED
      BY <1>6, <1>7, <2>1, <2>4, <3>1, <3>2, Zenon DEF Trails
  <2> QED
    BY <2>1, <2>5
<1> QED
  BY <1>5, <1>6, <1>7, Zenon

\* A round, of the swap or of the quote, is a step towards the tick it finds.
LEMMA RoundGoes ==
  ASSUME NEW down \in BOOLEAN, NEW limit \in Bounds, NEW s, Sane(s, down, limit),
         s.remaining # 0, s.price # limit,
         NEW at \in MinTick..MaxTick, NEW ini \in BOOLEAN, IF down THEN at <= s.tick ELSE s.tick < at
  PROVE  \E t \in Nat \ {0}, n \in Nat \ {0}, c \in Nat :
           /\ Ahead(down, s.price, SqrtPrice[at], limit, t)
           /\ Taken(down, s.price, t, s.liq, s.remaining, n, c)
           /\ NextTick(s.tick, down) = [at |-> at, initialized |-> ini]
                => Moved(s, down, limit) = Stepped(s, down, at, ini, n, c)
           /\ QuotedTick(TicksRead, s.tick, down) = [at |-> at, initialized |-> ini]
                => QuoteRound(s, TicksRead, down, limit) = Stepped(s, down, at, ini, n, c)
<1>1. /\ s.remaining \in Nat /\ s.price \in Prices /\ s.liq \in Nat /\ Toward(down, s.price, limit)
      /\ s.tick \in MinTick..(MaxTick - 1)
      /\ SqrtPrice[s.tick] <= s.price /\ s.price <= SqrtPrice[s.tick + 1]
  BY Zenon DEF Sane
<1>2. s.price \in Nat \ {0} /\ limit \in Nat
  BY <1>1, InPrices, InBounds
<1>3. PICK t \in Nat \ {0} : Ahead(down, s.price, SqrtPrice[at], limit, t)
  <2>1. IF down THEN limit <= s.price ELSE s.price <= limit
    BY <1>1, Zenon DEF Toward
  <2> QED
    BY <1>1, <1>2, <2>1, TargetAhead
<1>4. PICK n \in Nat \ {0}, c \in Nat : Taken(down, s.price, t, s.liq, s.remaining, n, c)
  <2>1. Toward(down, s.price, t)
    BY <1>3, Zenon DEF Ahead, Toward
  <2> QED
    BY <1>1, <1>2, <2>1, TakenIs
<1>5. PICK m : m = SwapStep(s.price, t, s.liq, s.remaining)
  OBVIOUS
<1>6. m.next = n /\ m.in + m.fee = c /\ m.out = Gain(down, s.liq, s.price, n)
  BY <1>4, <1>5, Zenon DEF Taken
<1>7. t = IF (IF down THEN SqrtPrice[at] < limit ELSE SqrtPrice[at] > limit) THEN limit ELSE SqrtPrice[at]
  BY <1>3, Zenon DEF Ahead
<1>8. ~(s.remaining = 0 \/ s.price = limit) /\ ~(s.remaining <= 0 \/ s.price = limit)
  BY <1>1
<1>9. ASSUME NextTick(s.tick, down) = [at |-> at, initialized |-> ini]
      PROVE  Moved(s, down, limit) = Stepped(s, down, at, ini, n, c)
  <2>1. NextTick(s.tick, down).at = at /\ NextTick(s.tick, down).initialized = ini
    BY <1>9, Fields, Zenon
  <2> QED
    BY <1>5, <1>6, <1>7, <1>8, <2>1, Zenon DEF Moved, SwapRound, Crossed, TickAfter, LiqAfter, Stepped
<1>10. ASSUME QuotedTick(TicksRead, s.tick, down) = [at |-> at, initialized |-> ini]
       PROVE  QuoteRound(s, TicksRead, down, limit) = Stepped(s, down, at, ini, n, c)
  <2>1. /\ QuotedTick(TicksRead, s.tick, down).at = at
        /\ QuotedTick(TicksRead, s.tick, down).initialized = ini
    BY <1>10, Fields, Zenon
  <2> QED
    BY <1>5, <1>6, <1>7, <1>8, <2>1, Zenon
       DEF QuoteRound, QuoteStep, QuoteTickAt, Crossed, TickAfter, LiqAfter, Stepped
<1> QED
  BY <1>3, <1>4, <1>9, <1>10, Zenon

\* A round ends at the price, the tick and the liquidity its step goes to.
LEMMA Arrives ==
  ASSUME NEW down \in BOOLEAN, NEW limit \in Bounds, NEW s, Sane(s, down, limit),
         NEW at \in MinTick..MaxTick, NEW ini \in BOOLEAN, IF down THEN at <= s.tick ELSE s.tick < at,
         NEW t \in Nat \ {0}, NEW n \in Nat \ {0}, NEW c \in Nat,
         Ahead(down, s.price, SqrtPrice[at], limit, t),
         Taken(down, s.price, t, s.liq, s.remaining, n, c),
         NEW r, r = Stepped(s, down, at, ini, n, c)
  PROVE  Arrived(s, r, down, limit, at, ini, n, c)
<1>1. PICK p, rem, cal, tau : p = s.price /\ rem = s.remaining /\ cal = s.calculated /\ tau = s.tick
  OBVIOUS
<1>2. /\ rem \in Nat /\ cal \in Int /\ p \in Prices /\ s.liq \in Nat
      /\ tau \in MinTick..(MaxTick - 1) /\ SqrtPrice[tau] <= p /\ p <= SqrtPrice[tau + 1]
  BY <1>1, Zenon DEF Sane
<1>3. /\ p \in Nat \ {0} /\ limit \in Nat /\ SqrtPrice[MinTick] < limit /\ limit < SqrtPrice[MaxTick]
      /\ p < SqrtPrice[MaxTick] /\ SqrtPrice[MinTick] <= p
      /\ SqrtPrice[MinTick] \in Nat /\ SqrtPrice[MaxTick] \in Nat
  <2>1. MinTick \in Ticks /\ MaxTick \in Ticks
    BY TickRange
  <2> QED
    BY <1>2, <2>1, InPrices, InBounds, PriceOf
<1>4. /\ t = SqrtPrice[at] \/ t = limit
      /\ IF down THEN t <= p /\ SqrtPrice[at] <= t /\ limit <= t
         ELSE p <= t /\ t <= SqrtPrice[at] /\ t <= limit
  BY <1>1, Zenon DEF Ahead
<1>5. /\ Toward(down, p, n) /\ Toward(down, n, t) /\ c <= rem /\ (n = t \/ c = rem)
  BY <1>1, Zenon DEF Taken
<1>6. SqrtPrice[at] \in Nat
  BY TickRange, PriceOf
<1>7. /\ Toward(down, n, limit) /\ Toward(down, n, SqrtPrice[at])
      /\ n \in Prices
      /\ down => SqrtPrice[MinTick] < n
  <2>1. CASE down
    <3>1. n <= p /\ t <= n
      BY <1>5, <2>1 DEF Toward
    <3>2. limit <= n /\ SqrtPrice[at] <= n /\ SqrtPrice[MinTick] < n /\ n < SqrtPrice[MaxTick]
      BY <1>3, <1>4, <1>6, <2>1, <3>1
    <3> QED
      BY <1>3, <2>1, <3>2 DEF Toward, Prices
  <2>2. CASE ~down
    <3>1. p <= n /\ n <= t
      BY <1>5, <2>2 DEF Toward
    <3>2. n <= limit /\ n <= SqrtPrice[at] /\ SqrtPrice[MinTick] <= n /\ n < SqrtPrice[MaxTick]
      BY <1>3, <1>4, <1>6, <2>2, <3>1
    <3> QED
      BY <1>3, <2>2, <3>2 DEF Toward, Prices
  <2> QED
    BY <2>1, <2>2
<1>8. /\ r.remaining = rem - c /\ r.calculated = cal - Gain(down, s.liq, p, n) /\ r.price = n
      /\ r.tick = TickAfter(down, tau, at, p, n) /\ r.liq = LiqAfter(down, s.liq, at, ini, n)
  <2>1. r = [remaining |-> rem - c, calculated |-> cal - Gain(down, s.liq, p, n), price |-> n,
             tick |-> TickAfter(down, tau, at, p, n), liq |-> LiqAfter(down, s.liq, at, ini, n)]
    BY <1>1, Zenon DEF Stepped
  <2> QED
    BY <2>1
<1>9. PICK g \in Nat : g = Gain(down, s.liq, p, n)
  <2>1. Toward(down, n, n)
    BY DEF Toward
  <2> QED
    BY <1>2, <1>3, <1>5, <2>1, WayIs
<1>10. r.remaining \in Nat /\ r.calculated \in Int /\ r.calculated <= cal
  <2>1. rem - c \in Nat /\ cal - g \in Int /\ cal - g <= cal
    BY <1>2, <1>5
  <2> QED
    BY <1>8, <1>9, <2>1, Zenon
<1>11. PICK v \in MinTick..(MaxTick - 1) :
           /\ v = TickAfter(down, tau, at, p, n) /\ SqrtPrice[v] <= n /\ n <= SqrtPrice[v + 1]
           /\ IF down THEN v <= tau ELSE tau <= v
           /\ n = SqrtPrice[at] => v = (IF down THEN at - 1 ELSE at)
           /\ n # SqrtPrice[at] => IF down THEN at <= v ELSE v < at
  <2>1. IF down THEN at <= tau ELSE tau < at
    BY <1>1, Zenon
  <2> QED
    BY <1>2, <1>5, <1>7, <2>1, Landing
<1>12. n # SqrtPrice[at] => Ended(r, limit)
  <2>1. SUFFICES ASSUME n # SqrtPrice[at], n # limit PROVE r.remaining = 0
    BY <1>8, Zenon DEF Ended
  <2>2. c = rem
    BY <1>4, <1>5, <2>1
  <2>3. rem - c = 0
    BY <1>2, <2>2
  <2> QED
    BY <1>8, <2>3, Zenon
<1>13. Toward(down, tau, v)
  BY <1>11, Zenon DEF Toward
<1> QED
  BY <1>1, <1>5, <1>7, <1>8, <1>10, <1>11, <1>12, <1>13, Zenon DEF Arrived

\* The ticks read are initialized.
LEMMA ReadAre ==
  ASSUME V3TypeOK
  PROVE  TicksRead \in SUBSET bitmap /\ TicksRead \in SUBSET (MinTick..MaxTick)
BY TickRange DEF V3TypeOK, TicksRead

\* It finds the next of the ticks that were read, or the end of all ticks.
LEMMA ReadFound ==
  ASSUME V3TypeOK, NEW from \in MinTick..(MaxTick - 1), NEW down \in BOOLEAN
  PROVE  \E at \in MinTick..MaxTick, ini \in BOOLEAN : Finds(from, down, at, ini)
<1>0. /\ MinTick \in Int /\ MaxTick \in Int /\ from \in Int /\ MinTick <= from /\ from < MaxTick
      /\ MinTick \in MinTick..MaxTick /\ MaxTick \in MinTick..MaxTick
  BY TickRange
<1>1. PICK found : found = {t \in TicksRead : IF down THEN t <= from ELSE t > from}
  OBVIOUS
<1>2. found \in SUBSET (MinTick..MaxTick) /\ found \in SUBSET TicksRead
  BY <1>1, ReadAre
<1>3. \A t \in MinTick..MaxTick : t > from <=> from < t
  BY <1>0
<1>4. PICK at : at = IF found = {} THEN (IF down THEN MinTick ELSE MaxTick)
                     ELSE IF down THEN Max(found) ELSE Min(found)
  OBVIOUS
<1>5. QuotedTick(TicksRead, from, down) = [at |-> at, initialized |-> found # {}]
  BY <1>1, <1>4, Zenon DEF QuotedTick
<1>6. (found # {}) \in BOOLEAN
  OBVIOUS
<1>7. CASE found = {}
  <2>1. at = (IF down THEN MinTick ELSE MaxTick) /\ at \in MinTick..MaxTick
    BY <1>0, <1>4, <1>7, Zenon
  <2>2. IF down THEN at <= from ELSE from < at
    BY <1>0, <2>1
  <2>3. IF down THEN \A u \in TicksRead : ~(u <= from) ELSE \A u \in TicksRead : ~(from < u)
    BY <1>1, <1>3, <1>7, ReadAre
  <2>4. Finds(from, down, at, found # {})
    BY <1>5, <1>7, <2>1, <2>2, <2>3, Zenon DEF Finds
  <2> QED
    BY <1>6, <2>1, <2>4, Zenon
<1>8. CASE found # {}
  <2>1. at \in found /\ IF down THEN \A u \in found : u <= at ELSE \A u \in found : at <= u
    <3>1. Max(found) \in found /\ \A y \in found : y <= Max(found)
      BY <1>0, <1>2, <1>8, MaxIs
    <3>2. Min(found) \in found /\ \A y \in found : Min(found) <= y
      BY <1>0, <1>2, <1>8, MinIs
    <3> QED
      BY <1>4, <1>8, <3>1, <3>2, Zenon
  <2>2. /\ at \in TicksRead /\ at \in MinTick..MaxTick
        /\ IF down THEN at <= from ELSE from < at
    BY <1>1, <1>2, <1>3, <2>1
  <2>3. IF down THEN \A u \in TicksRead : u <= from => u <= at
        ELSE \A u \in TicksRead : from < u => at <= u
    BY <1>1, <1>3, <2>1, ReadAre
  <2>4. Finds(from, down, at, found # {})
    BY <1>5, <1>8, <2>2, <2>3, Zenon DEF Finds
  <2> QED
    BY <1>6, <2>2, <2>4, Zenon
<1> QED
  BY <1>7, <1>8

\* A round of the swap can start from where the swap is.
LEMMA MovingIs ==
  ASSUME V3TypeOK, NEW down \in BOOLEAN, NEW limit \in Bounds, NEW amount, NEW s,
         Moving(s, down, limit, amount)
  PROVE  Sane(s, down, limit) /\ s.liq = SumFunction(InForce(s.tick))
<1>1. /\ s.remaining \in Int /\ s.calculated \in Int /\ s.remaining >= 0 /\ s.price \in Prices
      /\ IF down THEN limit <= s.price ELSE s.price <= limit
      /\ s.tick \in MinTick..(MaxTick - 1)
      /\ SqrtPrice[s.tick] <= s.price /\ s.price <= SqrtPrice[s.tick + 1]
      /\ s.liq = SumFunction(InForce(s.tick))
  BY Zenon DEF Moving, Underway, Prices
<1>2. s.remaining \in Nat
  BY <1>1
<1>3. s.tick \in Int
  BY <1>1, TickRange
<1>4. s.liq \in Nat
  BY <1>1, <1>3, ForceSum
<1> QED
  BY <1>1, <1>2, <1>4, Zenon DEF Sane, Toward

\* A round of a swap under way goes towards the next tick.
LEMMA SwapGoes ==
  ASSUME V3TypeOK, NEW down \in BOOLEAN, NEW limit \in Bounds, NEW amount, NEW s,
         Moving(s, down, limit, amount), ~Ended(s, limit)
  PROVE  \E at \in MinTick..MaxTick, ini \in BOOLEAN, t \in Nat \ {0}, n \in Nat \ {0}, c \in Nat :
           Found(s.tick, down, at, ini) /\ Goes(s, Moved(s, down, limit), down, limit, at, ini, t, n, c)
<1>1. Sane(s, down, limit) /\ s.remaining # 0 /\ s.price # limit
  BY MovingIs, Zenon DEF Ended
<1>2. s.tick \in MinTick..(MaxTick - 1)
  BY <1>1, Zenon DEF Sane
<1>3. PICK at \in MinTick..MaxTick, ini \in BOOLEAN : Found(s.tick, down, at, ini)
  <2>1. bitmap \subseteq Ticks
    BY DEF V3TypeOK
  <2> QED
    BY <1>2, <2>1, NextFound
<1>4. /\ IF down THEN at <= s.tick ELSE s.tick < at
      /\ NextTick(s.tick, down) = [at |-> at, initialized |-> ini]
  BY <1>3, Zenon DEF Found
<1>5. PICK t \in Nat \ {0}, n \in Nat \ {0}, c \in Nat :
        /\ Ahead(down, s.price, SqrtPrice[at], limit, t)
        /\ Taken(down, s.price, t, s.liq, s.remaining, n, c)
        /\ Moved(s, down, limit) = Stepped(s, down, at, ini, n, c)
  BY <1>1, <1>4, RoundGoes
<1>6. PICK r : r = Stepped(s, down, at, ini, n, c)
  OBVIOUS
<1>7. Arrived(s, r, down, limit, at, ini, n, c)
  BY <1>1, <1>4, <1>5, <1>6, Arrives
<1> QED
  BY <1>3, <1>5, <1>6, <1>7, Zenon DEF Goes

\* A round of a quote goes towards the next of the ticks read.
LEMMA QuoteGoes ==
  ASSUME V3TypeOK, NEW down \in BOOLEAN, NEW limit \in Bounds, NEW s,
         Sane(s, down, limit), ~Ended(s, limit)
  PROVE  \E at \in MinTick..MaxTick, ini \in BOOLEAN, t \in Nat \ {0}, n \in Nat \ {0}, c \in Nat :
           /\ Finds(s.tick, down, at, ini)
           /\ Goes(s, QuoteRound(s, TicksRead, down, limit), down, limit, at, ini, t, n, c)
<1>1. s.remaining # 0 /\ s.price # limit
  BY Zenon DEF Ended
<1>2. s.tick \in MinTick..(MaxTick - 1)
  BY Zenon DEF Sane
<1>3. PICK at \in MinTick..MaxTick, ini \in BOOLEAN : Finds(s.tick, down, at, ini)
  BY <1>2, ReadFound
<1>4. /\ IF down THEN at <= s.tick ELSE s.tick < at
      /\ QuotedTick(TicksRead, s.tick, down) = [at |-> at, initialized |-> ini]
  BY <1>3, Zenon DEF Finds
<1>5. PICK t \in Nat \ {0}, n \in Nat \ {0}, c \in Nat :
        /\ Ahead(down, s.price, SqrtPrice[at], limit, t)
        /\ Taken(down, s.price, t, s.liq, s.remaining, n, c)
        /\ QuoteRound(s, TicksRead, down, limit) = Stepped(s, down, at, ini, n, c)
  BY <1>1, <1>4, RoundGoes
<1>6. PICK r : r = Stepped(s, down, at, ini, n, c)
  OBVIOUS
<1>7. Arrived(s, r, down, limit, at, ini, n, c)
  BY <1>4, <1>5, <1>6, Arrives
<1> QED
  BY <1>3, <1>5, <1>6, <1>7, Zenon DEF Goes

\* Who moves toward something and on toward another moves toward that.
LEMMA TowardOn ==
  ASSUME NEW down \in BOOLEAN, NEW a \in Int, NEW b \in Int, NEW c \in Int,
         Toward(down, a, b), Toward(down, b, c)
  PROVE  Toward(down, a, c) /\ Toward(down, a, a)
BY DEF Toward

\* A sequence that moves one way at every step moves that way.
LEMMA Onward ==
  ASSUME NEW down \in BOOLEAN, NEW N \in Nat, NEW f, \A k \in 0..N : f[k] \in Int,
         \A k \in Nat : k + 1 \in 0..N => Toward(down, f[k], f[k + 1])
  PROVE  \A i, j \in 0..N : i <= j => Toward(down, f[i], f[j])
<1>1. SUFFICES ASSUME NEW i \in 0..N PROVE \A j \in 0..N : i <= j => Toward(down, f[i], f[j])
  OBVIOUS
<1> DEFINE S == {m \in Nat : i + m <= N => Toward(down, f[i], f[i + m])}
<1>2. 0 \in S
  BY TowardOn DEF Toward
<1>3. ASSUME NEW m \in Nat, m \in S PROVE m + 1 \in S
  <2>1. SUFFICES ASSUME i + (m + 1) <= N PROVE Toward(down, f[i], f[i + (m + 1)])
    OBVIOUS
  <2>2. PICK k \in Nat : k = i + m /\ k + 1 = i + (m + 1) /\ k \in 0..N /\ k + 1 \in 0..N
    BY <2>1
  <2>3. Toward(down, f[i], f[k]) /\ Toward(down, f[k], f[k + 1])
    BY <1>3, <2>2
  <2> QED
    BY <2>2, <2>3, TowardOn
<1> HIDE DEF S
<1>4. \A m \in Nat : m \in S
  BY <1>2, <1>3, Induction
<1>5. ASSUME NEW j \in 0..N, i <= j PROVE Toward(down, f[i], f[j])
  <2>1. j - i \in S /\ i + (j - i) = j
    BY <1>4, <1>5
  <2> QED
    BY <2>1 DEF S
<1> QED
  BY <1>5

\* What is between two such ticks is one too.
LEMMA Window ==
  ASSUME tick \in Int
  PROVE  /\ InWindow(tick)
         /\ \A a, b, x \in Int : a <= x /\ x <= b /\ InWindow(a) /\ InWindow(b) => InWindow(x)
<1>1. PICK W \in Nat \ {0} : W = WordSize
  BY V3Assumption
<1>2. \A a \in Int : a \div W \in Int
  OBVIOUS
<1>3. ASSUME NEW a \in Int, NEW b \in Int, a <= b PROVE a \div W <= b \div W
  <2>1. PICK d \in Int : d = a \div W /\ W * d <= a /\ a < W * d + W
    OBVIOUS
  <2>2. PICK e \in Int : e = b \div W /\ W * e <= b /\ b < W * e + W
    OBVIOUS
  <2>3. SUFFICES ASSUME e + 1 <= d PROVE FALSE
    BY <2>1, <2>2
  <2>4. W * (e + 1) <= W * d
    BY <2>3
  <2>5. W * (e + 1) = W * e + W
    OBVIOUS
  <2> QED
    BY <1>3, <2>1, <2>2, <2>4, <2>5
<1>4. ASSUME NEW a \in Int, NEW b \in Int, NEW x \in Int, a <= x, x <= b, InWindow(a), InWindow(b)
      PROVE  InWindow(x)
  <2>1. PICK d \in Int, e \in Int, y \in Int, z \in Int :
          d = a \div W /\ e = b \div W /\ y = x \div W /\ z = tick \div W /\ d <= y /\ y <= e
    BY <1>2, <1>3, <1>4
  <2> QED
    BY <1>1, <1>4, <2>1 DEF InWindow
<1>5. InWindow(tick)
  <2>1. PICK z \in Int : z = tick \div W
    BY <1>2
  <2> QED
    BY <1>1, <2>1 DEF InWindow
<1> QED
  BY <1>4, <1>5

\* A quote knows every tick between where it is and a tick it finds.
LEMMA KnownAhead ==
  ASSUME V3TypeOK, NEW down \in BOOLEAN, NEW v \in MinTick..(MaxTick - 1), AtEdge(down, v),
         NEW at \in TicksRead, NEW u \in bitmap, IF down THEN at <= u /\ u <= v ELSE v < u /\ u <= at
  PROVE  u \in TicksRead
<1>1. tick \in Int /\ v \in Int /\ at \in Int /\ u \in Int
  <2>1. bitmap \subseteq Ticks
    BY DEF V3TypeOK
  <2>2. tick \in Int
    BY TickInt
  <2> QED
    BY <2>1, <2>2, TickRange, ReadAre
<1>2. InWindow(tick) /\ \A a, b, x \in Int : a <= x /\ x <= b /\ InWindow(a) /\ InWindow(b) => InWindow(x)
  BY <1>1, Window
<1>3. \A t \in bitmap : t \in TicksRead <=> InWindow(t)
  BY DEF TicksRead, InWindow
<1>4. PICK w \in Int : InWindow(w) /\ IF down THEN v <= w ELSE w <= v
  <2>1. CASE v = tick
    BY <1>1, <1>2, <2>1
  <2>2. CASE v # tick
    <3>1. (IF down THEN v + 1 ELSE v) \in TicksRead /\ (IF down THEN v + 1 ELSE v) \in bitmap
      BY <2>2, ReadAre DEF AtEdge
    <3>2. InWindow(IF down THEN v + 1 ELSE v)
      BY <1>3, <3>1, Zenon
    <3>3. v <= v + 1 /\ v <= v /\ v + 1 \in Int
      BY <1>1
    <3> QED
      BY <1>1, <3>2, <3>3, Zenon
  <2> QED
    BY <2>1, <2>2
<1>5. InWindow(at)
  BY <1>3, ReadAre
<1>6. InWindow(u)
  <2>1. CASE down
    <3>1. at <= u /\ u <= w
      BY <1>1, <1>4, <2>1
    <3> QED
      BY <1>1, <1>2, <1>4, <1>5, <3>1
  <2>2. CASE ~down
    <3>1. w <= u /\ u <= at
      BY <1>1, <1>4, <2>2
    <3> QED
      BY <1>1, <1>2, <1>4, <1>5, <3>1
  <2> QED
    BY <2>1, <2>2
<1> QED
  BY <1>3, <1>6

\* A round keeps that; the price goes on towards the limit, and the output up.
LEMMA QuoteKeeps ==
  ASSUME V3TypeOK, Booked, NEW down \in BOOLEAN, NEW limit \in Bounds, NEW s, Quoted(s, down, limit),
         NEW r, r = QuoteRound(s, TicksRead, down, limit)
  PROVE  Quoted(r, down, limit) /\ Toward(down, s.price, r.price) /\ r.calculated <= s.calculated
<1>1. CASE Ended(s, limit)
  <2>1. r = s
    <3>1. s.remaining = 0 => s.remaining <= 0
      OBVIOUS
    <3> QED
      BY <1>1, <3>1, Zenon DEF QuoteRound, Ended
  <2>2. s.price \in Nat /\ s.calculated \in Int
    BY InPrices DEF Quoted
  <2>3. Toward(down, s.price, s.price) /\ s.calculated <= s.calculated
    BY <2>2 DEF Toward
  <2> QED
    BY <2>1, <2>3, Zenon
<1>2. CASE ~Ended(s, limit)
  <2>1. Sane(s, down, limit) /\ s.liq = SumFunction(InForce(s.tick)) /\ AtEdge(down, s.tick)
    BY <1>2, Zenon DEF Quoted
  <2>2. PICK at \in MinTick..MaxTick, ini \in BOOLEAN, t \in Nat \ {0}, n \in Nat \ {0}, c \in Nat :
           Finds(s.tick, down, at, ini) /\ Goes(s, r, down, limit, at, ini, t, n, c)
    BY <1>2, <2>1, QuoteGoes
  <2>3. Arrived(s, r, down, limit, at, ini, n, c)
    BY <2>2, Zenon DEF Goes
  <2>4. /\ r.calculated \in Int /\ r.calculated <= s.calculated /\ r.price \in Prices /\ r.price = n
        /\ Toward(down, s.price, r.price) /\ Toward(down, r.price, limit) /\ r.remaining \in Nat
        /\ r.tick \in MinTick..(MaxTick - 1)
        /\ SqrtPrice[r.tick] <= r.price /\ r.price <= SqrtPrice[r.tick + 1]
        /\ r.liq = LiqAfter(down, s.liq, at, ini, n)
        /\ n = SqrtPrice[at] => r.tick = (IF down THEN at - 1 ELSE at)
        /\ n # SqrtPrice[at] => Ended(r, limit)
    BY <2>3, Zenon DEF Arrived
  <2>5. CASE Ended(r, limit)
    BY <2>4, <2>5, Zenon DEF Quoted
  <2>6. CASE ~Ended(r, limit)
    <3>1. n = SqrtPrice[at] /\ r.tick = IF down THEN at - 1 ELSE at
      BY <2>4, <2>6, Zenon
    <3>2. PICK tau \in MinTick..(MaxTick - 1) : tau = s.tick /\ AtEdge(down, tau)
      BY <2>1, Zenon DEF Sane
    <3>3. /\ tau \in Int /\ at \in Int /\ at \in Ticks /\ MinTick <= tau /\ tau < MaxTick
          /\ MinTick \in Ticks /\ MaxTick \in Ticks /\ MinTick \in Int /\ MaxTick \in Int
      BY TickRange
    <3>4. ini
      <4>1. SUFFICES ASSUME ~ini PROVE FALSE
        OBVIOUS
      <4>2. at = IF down THEN MinTick ELSE MaxTick
        BY <2>2, <4>1, Zenon DEF Finds
      <4>3. SqrtPrice[MinTick] \in Nat /\ SqrtPrice[MaxTick] \in Nat /\ n < SqrtPrice[MaxTick]
        BY <2>4, <3>3, PriceOf, InPrices
      <4>4. limit \in Nat /\ SqrtPrice[MinTick] < limit
        BY InBounds
      <4>5. CASE down
        <5>1. limit <= n
          BY <2>4, <4>5 DEF Toward
        <5> QED
          BY <3>1, <4>2, <4>3, <4>4, <4>5, <5>1
      <4>6. CASE ~down
        BY <3>1, <4>2, <4>3, <4>6
      <4> QED
        BY <4>5, <4>6
    <3>5. /\ at \in TicksRead
          /\ IF down THEN at <= tau /\ \A u \in TicksRead : u <= tau => u <= at
                     ELSE tau < at /\ \A u \in TicksRead : tau < u => at <= u
      BY <2>2, <3>2, <3>4, Zenon DEF Finds
    <3>6. PICK L \in Int, z \in Int : L = s.liq /\ L = SumFunction(InForce(tau)) /\ z = net[at]
      <4>1. SumFunction(InForce(tau)) \in Nat
        BY <3>3, ForceSum
      <4> QED
        BY <2>1, <3>2, <3>3, <4>1 DEF V3TypeOK
    <3>7. bitmap \in SUBSET Int
      BY TickRange DEF V3TypeOK
    <3>8. SumFunction(InForce(at)) = SumFunction(InForce(at - 1)) + z
      BY <3>3, <3>6, ForceAt
    <3>9. r.liq = SumFunction(InForce(r.tick)) /\ AtEdge(down, r.tick)
      <4>1. CASE down
        <5>1. ASSUME NEW u \in (at + 1)..tau, u \in bitmap PROVE FALSE
          <6>1. at <= u /\ u <= tau /\ ~(u <= at)
            BY <3>3
          <6>2. u \in TicksRead
            BY <3>2, <3>5, <4>1, <5>1, <6>1, KnownAhead
          <6> QED
            BY <3>5, <4>1, <6>1, <6>2
        <5>2. InForce(at) = InForce(tau)
          <6>1. tau \in MinTick..MaxTick /\ at <= tau
            BY <3>3, <3>5, <4>1
          <6> QED
            BY <5>1, <6>1, ForcePassed
        <5>3. SumFunction(InForce(at - 1)) \in Nat
          BY <3>3, ForceSum
        <5>4. SumFunction(InForce(at - 1)) = L + (-z)
          BY <3>6, <3>8, <5>2, <5>3
        <5>5. r.liq = L + (-net[at])
          BY <2>4, <3>1, <3>4, <3>6, <4>1, Zenon DEF LiqAfter
        <5>6. (at - 1) + 1 = at
          BY <3>3
        <5> QED
          BY <3>1, <3>5, <3>6, <4>1, <5>4, <5>5, <5>6, Zenon DEF AtEdge
      <4>2. CASE ~down
        <5>1. ASSUME NEW u \in (tau + 1)..(at - 1), u \in bitmap PROVE FALSE
          <6>1. tau < u /\ u <= at /\ ~(at <= u)
            BY <3>3
          <6>2. u \in TicksRead
            BY <3>2, <3>5, <4>2, <5>1, <6>1, KnownAhead
          <6> QED
            BY <3>5, <4>2, <6>1, <6>2
        <5>2. InForce(tau) = InForce(at - 1)
          <6>1. tau \in MinTick..MaxTick /\ at - 1 \in MinTick..MaxTick /\ tau <= at - 1
            BY <3>3, <3>5, <4>2
          <6> QED
            BY <5>1, <6>1, ForcePassed
        <5>3. SumFunction(InForce(at)) = L + net[at]
          BY <3>6, <3>8, <5>2, Zenon
        <5>4. r.liq = L + net[at]
          BY <2>4, <3>1, <3>4, <3>6, <4>2, Zenon DEF LiqAfter
        <5> QED
          BY <3>1, <3>5, <4>2, <5>3, <5>4, Zenon DEF AtEdge
      <4> QED
        BY <4>1, <4>2
    <3>10. r.liq \in Nat
      <4>1. r.tick \in Int
        BY <2>4, TickRange
      <4> QED
        BY <3>9, <4>1, ForceSum
    <3> QED
      BY <2>4, <3>9, <3>10, Zenon DEF Quoted, Sane
  <2> QED
    BY <2>5, <2>6
<1> QED
  BY <1>1, <1>2

\* Then the quote has not come to its end, unless the swap has at the same price.
LEMMA GoesOn ==
  ASSUME NEW down \in BOOLEAN, NEW limit \in Bounds, NEW s, Sane(s, down, limit),
         NEW q, Quoted(q, down, limit), Behind(q, s, down), s.price # q.price \/ ~Ended(s, limit)
  PROVE  ~Ended(q, limit) /\ Sane(q, down, limit)
<1>1. PICK p \in Nat, l \in Nat, n \in Nat : p = q.price /\ l = limit /\ n = s.price
  <2>1. q.price \in Prices /\ s.price \in Prices
    BY Zenon DEF Quoted, Sane
  <2> QED
    BY <2>1, InPrices, InBounds
<1>2. Toward(down, p, n) /\ Toward(down, n, l)
  BY <1>1, Zenon DEF Behind, Trails, Sane
<1>3. p # l
  <2>1. p = l => n = l
    BY <1>2 DEF Toward
  <2> QED
    BY <1>1, <2>1, Zenon DEF Ended
<1>4. q.remaining # 0
  <2>1. CASE s.price # q.price
    BY <2>1, Zenon DEF Behind
  <2>2. CASE ~Ended(s, limit)
    <3>1. PICK x \in Nat, y \in Nat : x = q.remaining /\ y = s.remaining /\ y # 0
      BY <2>2, Zenon DEF Quoted, Sane, Ended
    <3>2. \E i : Fits(i, x - y) /\ i \in Nat
      <4>1. Fits(Cost(down, s.liq, p, n), x - y)
        BY <1>1, <3>1, Zenon DEF Behind, Trails
      <4>2. Cost(down, s.liq, p, n) \in Nat
        <5>1. p \in Nat \ {0} /\ n \in Nat \ {0}
          BY <1>1, InPrices DEF Quoted, Sane
        <5>2. Toward(down, n, n) /\ s.liq \in Nat
          BY DEF Toward, Sane
        <5> QED
          BY <1>2, <5>1, <5>2, WayIs, Zenon
      <4> QED
        BY <4>1, <4>2, Zenon
    <3>3. x - y >= 0
      BY <3>2, FitsPositive
    <3> QED
      BY <3>1, <3>3
  <2> QED
    BY <2>1, <2>2
<1> QED
  BY <1>1, <1>3, <1>4, Zenon DEF Ended, Quoted

\* A swap that has passed the same ticks read as the quote has not passed the
\* target of the quote's next step.
LEMMA NotPassed ==
  ASSUME V3TypeOK, NEW down \in BOOLEAN, NEW limit \in Bounds, NEW s, Sane(s, down, limit),
         NEW v \in MinTick..(MaxTick - 1), Same(s.tick, v),
         NEW at \in MinTick..MaxTick, NEW ini \in BOOLEAN, Finds(v, down, at, ini),
         NEW p, NEW t, Ahead(down, p, SqrtPrice[at], limit, t)
  PROVE  Toward(down, s.price, t)
<1>1. PICK tau \in MinTick..(MaxTick - 1) : tau = s.tick
  BY Zenon DEF Sane
<1>2. PICK n \in Prices : /\ n = s.price /\ SqrtPrice[tau] <= n /\ n <= SqrtPrice[tau + 1]
                         /\ Toward(down, n, limit)
  BY <1>1, Zenon DEF Sane
<1>3. /\ tau \in Ticks /\ tau + 1 \in Ticks /\ at \in Ticks /\ tau \in Int /\ at \in Int /\ v \in Int
      /\ MinTick <= tau /\ tau < MaxTick
  BY TickRange
<1>4. IF down THEN at <= tau ELSE tau < at
  <2>1. CASE ini
    <3>1. at \in TicksRead /\ IF down THEN at <= v ELSE v < at
      BY <2>1, Zenon DEF Finds
    <3>2. at <= tau <=> at <= v
      BY <1>1, <3>1, Zenon DEF Same
    <3> QED
      BY <1>3, <3>1, <3>2
  <2>2. CASE ~ini
    <3>1. at = IF down THEN MinTick ELSE MaxTick
      BY <2>2, Zenon DEF Finds
    <3> QED
      BY <1>3, <3>1
  <2> QED
    BY <2>1, <2>2
<1>5. n \in Nat /\ SqrtPrice[tau] \in Nat /\ SqrtPrice[tau + 1] \in Nat /\ SqrtPrice[at] \in Nat
  BY <1>3, InPrices, PriceOf
<1>6. Toward(down, n, SqrtPrice[at])
  <2>1. CASE down
    <3>1. SqrtPrice[at] <= SqrtPrice[tau]
      BY <1>3, <1>4, <2>1, Order
    <3> QED
      BY <1>2, <1>5, <2>1, <3>1 DEF Toward
  <2>2. CASE ~down
    <3>1. tau + 1 <= at
      BY <1>3, <1>4, <2>2
    <3>2. SqrtPrice[tau + 1] <= SqrtPrice[at]
      BY <1>3, <3>1, Order
    <3> QED
      BY <1>2, <1>5, <2>2, <3>2 DEF Toward
  <2> QED
    BY <2>1, <2>2
<1>7. t = SqrtPrice[at] \/ t = limit
  BY Zenon DEF Ahead
<1> QED
  BY <1>2, <1>6, <1>7, Zenon

\* A quote's round overtakes the swap, or the swap is where the quote is; either
\* way the quote has given as much or more.
LEMMA Overtakes ==
  ASSUME V3TypeOK, NEW down \in BOOLEAN, NEW limit \in Bounds, NEW s, Sane(s, down, limit),
         NEW q, Quoted(q, down, limit), Behind(q, s, down),
         NEW r, r = QuoteRound(q, TicksRead, down, limit)
  PROVE  /\ s.price = q.price => q.calculated <= s.calculated
         /\ s.price # q.price => r.calculated <= s.calculated /\ Toward(down, s.price, r.price)
<1>0. /\ s.liq \in Nat /\ s.liq = q.liq /\ s.price \in Nat \ {0} /\ q.price \in Nat \ {0}
      /\ s.remaining \in Nat /\ q.remaining \in Nat /\ s.calculated \in Int /\ q.calculated \in Int
  BY InPrices DEF Sane, Quoted, Behind
<1>1. Trails(down, s.liq, q.price, q.remaining, q.calculated, s.price, s.remaining, s.calculated)
  BY Zenon DEF Behind
<1>2. ASSUME s.price = q.price PROVE q.calculated <= s.calculated
  <2>1. q.calculated - Gain(down, s.liq, q.price, q.price) <= s.calculated
    BY <1>1, <1>2, Zenon DEF Trails
  <2>2. Gain(down, s.liq, q.price, q.price) = 0
    BY <1>0, StayIs
  <2> QED
    BY <1>0, <2>1, <2>2
<1>3. ASSUME s.price # q.price PROVE r.calculated <= s.calculated /\ Toward(down, s.price, r.price)
  <2>1. ~Ended(q, limit) /\ Sane(q, down, limit)
    BY <1>3, GoesOn
  <2>2. PICK at \in MinTick..MaxTick, ini \in BOOLEAN, t \in Nat \ {0}, n \in Nat \ {0}, c \in Nat :
           Finds(q.tick, down, at, ini) /\ Goes(q, r, down, limit, at, ini, t, n, c)
    BY <2>1, QuoteGoes
  <2>3. /\ Ahead(down, q.price, SqrtPrice[at], limit, t)
        /\ Taken(down, q.price, t, q.liq, q.remaining, n, c)
        /\ r.price = n /\ r.calculated = q.calculated - Gain(down, q.liq, q.price, n)
    BY <2>2, Zenon DEF Goes, Arrived
  <2>4. Toward(down, s.price, t)
    <3>1. q.tick \in MinTick..(MaxTick - 1) /\ Same(s.tick, q.tick)
      BY <2>1, Zenon DEF Sane, Behind
    <3> QED
      BY <2>2, <2>3, <3>1, NotPassed
  <2>5. /\ Toward(down, s.price, n)
        /\ q.calculated - Gain(down, s.liq, q.price, n) <= s.calculated
    BY <1>0, <1>1, <2>3, <2>4, CatchUp
  <2> QED
    BY <1>0, <2>3, <2>5, Zenon
<1> QED
  BY <1>2, <1>3

\* A tick in use between the present one and another a quote may know of was read.
LEMMA CrossedIsRead ==
  ASSUME V3TypeOK, NEW down \in BOOLEAN, NEW at \in bitmap, NEW last \in Int, InWindow(last),
         IF down THEN last <= at /\ at <= tick ELSE tick <= at /\ at <= last
  PROVE  at \in TicksRead
<1>1. tick \in Int
  BY TickInt
<1>2. at \in Int
  <2>1. bitmap \subseteq Ticks
    BY DEF V3TypeOK
  <2> QED
    BY <2>1, TickRange
<1>3. InWindow(at)
  BY <1>1, <1>2, Window
<1> QED
  BY <1>3 DEF TicksRead, InWindow

\* A round that crosses no tick in use passes none of the ticks read.
LEMMA PassesNone ==
  ASSUME V3TypeOK, NEW down \in BOOLEAN, NEW tau \in MinTick..(MaxTick - 1),
         NEW at \in MinTick..MaxTick, NEW ini \in BOOLEAN, Found(tau, down, at, ini),
         NEW w \in MinTick..(MaxTick - 1), Toward(down, tau, w),
         \/ ~ini /\ w = IF down THEN at - 1 ELSE at
         \/ IF down THEN at <= w ELSE w < at
  PROVE  Same(w, tau)
<1>1. tau \in Int /\ at \in Int /\ w \in Int
  BY TickRange
<1>2. SUFFICES ASSUME NEW r \in TicksRead PROVE r <= w <=> r <= tau
  BY DEF Same
<1>3. r \in bitmap /\ r \in Int
  BY TickRange, ReadAre
<1>4. /\ IF down THEN at <= tau /\ \A u \in (at + 1)..tau : u \notin bitmap
         ELSE tau < at /\ \A u \in (tau + 1)..(at - 1) : u \notin bitmap
      /\ ini <=> at \in bitmap
  BY Zenon DEF Found
<1>5. r = at => ini
  BY <1>3, <1>4
<1>6. CASE down
  <2>1. r \notin (at + 1)..tau
    BY <1>3, <1>4, <1>6
  <2>2. w <= tau
    BY <1>6 DEF Toward
  <2> QED
    BY <1>1, <1>3, <1>5, <1>6, <2>1, <2>2
<1>7. CASE ~down
  <2>1. r \notin (tau + 1)..(at - 1)
    BY <1>3, <1>4, <1>7
  <2>2. tau <= w
    BY <1>7 DEF Toward
  <2> QED
    BY <1>1, <1>3, <1>5, <1>7, <2>1, <2>2
<1> QED
  BY <1>6, <1>7

\* Where the next tick of the swap was read, the quote finds it too.
LEMMA SameNext ==
  ASSUME V3TypeOK, NEW down \in BOOLEAN, NEW tau \in MinTick..(MaxTick - 1),
         NEW v \in MinTick..(MaxTick - 1), Same(tau, v),
         NEW at \in TicksRead, NEW ini \in BOOLEAN, Found(tau, down, at, ini),
         at # (IF down THEN MinTick ELSE MaxTick),
         NEW a \in MinTick..MaxTick, NEW b \in BOOLEAN, Finds(v, down, a, b)
  PROVE  a = at /\ b
<1>1. tau \in Int /\ at \in Int /\ v \in Int /\ a \in Int /\ MinTick <= at /\ at <= MaxTick
  BY TickRange, ReadAre
<1>2. IF down THEN at <= tau /\ \A u \in (at + 1)..tau : u \notin bitmap
      ELSE tau < at /\ \A u \in (tau + 1)..(at - 1) : u \notin bitmap
  BY Zenon DEF Found
<1>3. /\ IF down THEN a <= v /\ \A u \in TicksRead : u <= v => u <= a
         ELSE v < a /\ \A u \in TicksRead : v < u => a <= u
      /\ b => a \in TicksRead
      /\ b \/ a = (IF down THEN MinTick ELSE MaxTick)
  BY Zenon DEF Finds
<1>4. at <= tau <=> at <= v
  BY DEF Same
<1>5. IF down THEN at <= a ELSE a <= at
  <2>1. CASE down
    BY <1>2, <1>3, <1>4, <2>1
  <2>2. CASE ~down
    <3>1. v < at
      BY <1>1, <1>2, <1>4, <2>2
    <3> QED
      BY <1>3, <2>2, <3>1
  <2> QED
    BY <2>1, <2>2
<1>6. b
  <2>1. SUFFICES ASSUME ~b PROVE FALSE
    OBVIOUS
  <2>2. a = IF down THEN MinTick ELSE MaxTick
    BY <1>3, <2>1
  <2> QED
    BY <1>1, <1>5, <2>2, TickRange
<1>7. a \in TicksRead /\ a \in bitmap /\ (a <= tau <=> a <= v)
  BY <1>3, <1>6, ReadAre DEF Same
<1>8. CASE down
  <2>1. a <= tau /\ a \notin (at + 1)..tau
    BY <1>2, <1>3, <1>7, <1>8
  <2> QED
    BY <1>1, <1>5, <1>6, <1>8, <2>1
<1>9. CASE ~down
  <2>1. tau < a /\ a \notin (tau + 1)..(at - 1)
    BY <1>1, <1>2, <1>3, <1>7, <1>9
  <2> QED
    BY <1>1, <1>5, <1>6, <1>9, <2>1
<1> QED
  BY <1>8, <1>9

\* A round does not reach the end of all ticks.
LEMMA NotTheEnd ==
  ASSUME NEW down \in BOOLEAN, NEW limit \in Bounds, NEW n \in Prices, Toward(down, n, limit),
         NEW at \in MinTick..MaxTick, n = SqrtPrice[at]
  PROVE  at # (IF down THEN MinTick ELSE MaxTick)
<1>1. n < SqrtPrice[MaxTick] /\ SqrtPrice[MinTick] < limit /\ n \in Nat /\ limit \in Nat
  BY InPrices, InBounds
<1>2. SqrtPrice[MinTick] \in Nat /\ SqrtPrice[MaxTick] \in Nat
  BY TickRange, PriceOf
<1>3. down => limit <= n
  BY DEF Toward
<1> QED
  BY <1>1, <1>2, <1>3

\* The target of a step towards a tick does not depend on where it starts.
LEMMA TargetIs ==
  ASSUME NEW down, NEW e, NEW limit, NEW p, NEW q, NEW t, NEW u,
         Ahead(down, p, e, limit, t), Ahead(down, q, e, limit, u)
  PROVE  t = u
BY Zenon DEF Ahead

\* At the target of a quote's step a swap behind it is caught up with.
LEMMA CaughtUp ==
  ASSUME NEW down \in BOOLEAN, NEW liq \in Nat, NEW p \in Nat \ {0}, NEW s \in Nat, NEW h \in Int,
         NEW t \in Nat \ {0}, NEW r \in Nat, NEW g \in Int, Trails(down, liq, p, s, h, t, r, g),
         NEW n \in Nat \ {0}, NEW c \in Nat, Taken(down, p, t, liq, s, n, c)
  PROVE  Caught(down, liq, p, s, h, t, r, g, n, c)
<1>1. Toward(down, t, t)
  BY DEF Toward
<1> QED
  BY <1>1, CatchUp, Zenon DEF Caught

\* A round of the swap stays behind the quote's, or the quote's next round crosses
\* the same tick.
LEMMA Follow ==
  ASSUME V3TypeOK, NEW down \in BOOLEAN, NEW limit \in Bounds,
         NEW s, Sane(s, down, limit), ~Ended(s, limit), NEW s2, s2.liq \in Nat,
         NEW at \in MinTick..MaxTick, NEW ini \in BOOLEAN,
         NEW t \in Nat \ {0}, NEW n \in Nat \ {0}, NEW c \in Nat,
         Found(s.tick, down, at, ini), Goes(s, s2, down, limit, at, ini, t, n, c),
         ini /\ n = SqrtPrice[at] => at \in TicksRead,
         NEW q, Quoted(q, down, limit), Behind(q, s, down),
         NEW q2, q2 = QuoteRound(q, TicksRead, down, limit)
  PROVE  Behind(q, s2, down) \/ (Behind(q2, s2, down) /\ s2.price = q2.price)
<1>0. PICK tau \in MinTick..(MaxTick - 1), p \in Nat \ {0}, l \in Nat, x \in Nat, g \in Int :
        tau = s.tick /\ p = s.price /\ l = s.liq /\ x = s.remaining /\ g = s.calculated /\ x # 0
  <2>1. s.price \in Nat \ {0}
    BY InPrices DEF Sane
  <2> QED
    BY <2>1 DEF Sane, Ended
<1>1. PICK pq \in Nat \ {0}, xq \in Nat, gq \in Int : pq = q.price /\ xq = q.remaining /\ gq = q.calculated
  BY InPrices DEF Quoted
<1>2. l = q.liq /\ Same(tau, q.tick) /\ Trails(down, l, pq, xq, gq, p, x, g)
  BY <1>0, <1>1, Zenon DEF Behind
<1>3. /\ Found(tau, down, at, ini) /\ Ahead(down, p, SqrtPrice[at], limit, t)
      /\ Taken(down, p, t, l, x, n, c)
      /\ s2.remaining = x - c /\ s2.calculated = g - Gain(down, l, p, n) /\ s2.price = n
      /\ n \in Prices /\ Toward(down, n, limit) /\ Toward(down, tau, s2.tick)
      /\ s2.tick \in MinTick..(MaxTick - 1)
      /\ n = SqrtPrice[at] => s2.tick = (IF down THEN at - 1 ELSE at)
      /\ n # SqrtPrice[at] => IF down THEN at <= s2.tick ELSE s2.tick < at
      /\ s2.liq = LiqAfter(down, l, at, ini, n)
  BY <1>0, Zenon DEF Goes, Arrived
<1>4. Toward(down, p, n) /\ Toward(down, n, t) /\ Fits(Cost(down, l, p, n), c)
  BY <1>3, Zenon DEF Taken
<1>5. Trails(down, l, pq, xq, gq, n, x - c, g - Gain(down, l, p, n)) /\ x <= xq
  <2>1. x \in Int /\ xq \in Int
    OBVIOUS
  <2> QED
    BY <1>2, <1>4, <2>1, TrailsOn, Zenon
<1>6. CASE ~(ini /\ n = SqrtPrice[at])
  <2>1. s2.liq = l
    BY <1>3, <1>6, Zenon DEF LiqAfter
  <2>2. Same(s2.tick, tau)
    BY <1>3, <1>6, PassesNone
  <2>3. Same(s2.tick, q.tick)
    BY <1>2, <2>2, Zenon DEF Same
  <2>4. xq # 0
    BY <1>0, <1>5
  <2>5. Behind(q, s2, down)
    BY <1>1, <1>2, <1>3, <1>5, <2>1, <2>3, <2>4, Zenon DEF Behind
  <2> QED
    BY <2>5
<1>7. CASE ini /\ n = SqrtPrice[at]
  <2>1. at \in TicksRead
    BY <1>7
  <2>2. ~Ended(q, limit) /\ Sane(q, down, limit)
    BY GoesOn
  <2>3. PICK a \in MinTick..MaxTick, b \in BOOLEAN, u \in Nat \ {0}, m \in Nat \ {0}, d \in Nat :
           Finds(q.tick, down, a, b) /\ Goes(q, q2, down, limit, a, b, u, m, d)
    BY <2>2, QuoteGoes
  <2>4. a = at /\ b
    <3>1. at # (IF down THEN MinTick ELSE MaxTick)
      BY <1>3, <1>7, NotTheEnd
    <3>2. q.tick \in MinTick..(MaxTick - 1)
      BY <2>2, Zenon DEF Sane
    <3> QED
      BY <1>2, <1>3, <2>1, <2>3, <3>1, <3>2, SameNext
  <2>5. /\ Ahead(down, pq, SqrtPrice[at], limit, u) /\ Taken(down, pq, u, l, xq, m, d)
        /\ q2.remaining = xq - d /\ q2.calculated = gq - Gain(down, l, pq, m) /\ q2.price = m
        /\ m = SqrtPrice[at] => q2.tick = (IF down THEN at - 1 ELSE at)
        /\ q2.liq = LiqAfter(down, l, at, b, m)
    BY <1>1, <1>2, <2>3, <2>4, Zenon DEF Goes, Arrived
  <2>6. u = t
    BY <1>3, <2>5, TargetIs, Zenon
  <2>7. n = t
    <3>1. SqrtPrice[at] \in Nat
      BY TickRange, PriceOf
    <3>2. IF down THEN SqrtPrice[at] <= t ELSE t <= SqrtPrice[at]
      BY <1>3, Zenon DEF Ahead
    <3> QED
      BY <1>4, <1>7, <3>1, <3>2 DEF Toward
  <2>8. x - c \in Nat /\ g - Gain(down, l, p, n) \in Int
    <3>1. s2.remaining \in Nat /\ s2.calculated \in Int
      BY Zenon DEF Goes, Arrived
    <3> QED
      BY <1>3, <3>1, Zenon
  <2>9. m = t /\ \A k \in Nat : Trails(down, k, m, xq - d, gq - Gain(down, l, pq, m),
                                      n, x - c, g - Gain(down, l, p, n))
    <3>1. PICK y \in Nat, z \in Int : y = x - c /\ z = g - Gain(down, l, p, n)
      BY <2>8
    <3>2. Trails(down, l, pq, xq, gq, n, y, z) /\ Toward(down, n, t) /\ Taken(down, pq, t, l, xq, m, d)
      BY <1>4, <1>5, <2>5, <2>6, <3>1, Zenon
    <3>3. Caught(down, l, pq, xq, gq, t, y, z, m, d)
      BY <2>7, <3>2, CaughtUp
    <3>4. m = t /\ \A k \in Nat : Trails(down, k, m, xq - d, gq - Gain(down, l, pq, m), n, y, z)
      BY <2>7, <3>3, Zenon DEF Caught
    <3> QED
      BY <3>1, <3>4, Zenon
  <2>10. m = n /\ q2.price = s2.price /\ q2.tick = s2.tick /\ q2.liq = s2.liq
    <3>1. (b <=> ini) /\ b = ini
      BY <1>7, <2>4
    <3> QED
      BY <1>3, <1>7, <2>5, <2>7, <2>9, <3>1, Zenon
  <2>11. Trails(down, s2.liq, q2.price, q2.remaining, q2.calculated, s2.price, s2.remaining, s2.calculated)
    BY <1>3, <2>5, <2>9, <2>10, Zenon
  <2>12. Same(s2.tick, q2.tick)
    BY <2>10, Zenon DEF Same
  <2>13. Behind(q2, s2, down)
    BY <2>10, <2>11, <2>12, Zenon DEF Behind
  <2> QED
    BY <2>10, <2>13, Zenon
<1> QED
  BY <1>6, <1>7

\* A state is on its own way.
LEMMA BehindItself ==
  ASSUME NEW down \in BOOLEAN, NEW limit, NEW s, Sane(s, down, limit)
  PROVE  Behind(s, s, down)
<1>1. PICK p \in Nat \ {0}, x \in Nat, g \in Int, l \in Nat :
        p = s.price /\ x = s.remaining /\ g = s.calculated /\ l = s.liq
  BY InPrices DEF Sane
<1>2. Toward(down, p, p) /\ Cost(down, l, p, p) = 0 /\ Gain(down, l, p, p) = 0
  BY StayIs
<1>3. x - x = 0 /\ 0 \in Nat /\ g - 0 <= g
  OBVIOUS
<1>4. Fits(0, 0)
  BY FitsNone
<1>5. Trails(down, l, p, x, g, p, x, g)
  BY <1>2, <1>3, <1>4, Zenon DEF Trails
<1>6. Same(s.tick, s.tick)
  BY Zenon DEF Same
<1> QED
  BY <1>1, <1>5, <1>6, Zenon DEF Behind

\* A step that falls short of its target is the same towards one beyond.
LEMMA FallsShort ==
  ASSUME NEW down \in BOOLEAN, NEW p \in Nat \ {0}, NEW t \in Nat \ {0}, NEW u \in Nat \ {0},
         Toward(down, t, u), NEW l \in Nat, NEW x \in Nat,
         NEW n \in Nat \ {0}, NEW c \in Nat, Taken(down, p, t, l, x, n, c), n # t,
         NEW m \in Nat \ {0}, NEW d \in Nat, Taken(down, p, u, l, x, m, d)
  PROVE  m = n /\ d = c
<1>1. Toward(down, p, n) /\ Toward(down, n, t) /\ SwapStep(p, t, l, x).next # t
  BY Zenon DEF Taken
<1>2. Toward(down, p, t)
  BY <1>1 DEF Toward
<1>3. SwapStep(p, u, l, x) = SwapStep(p, t, l, x)
  <2>1. SameBeyond(down, p, t, l, x)
    BY <1>2, TakenIs
  <2> QED
    BY <1>1, <2>1, Zenon DEF SameBeyond
<1> QED
  BY <1>3, Zenon DEF Taken

\* Where the swap's round crosses but ticks that were read, and stops at no other,
\* the quote's round is the same.
LEMMA SameRound ==
  ASSUME V3TypeOK, NEW down \in BOOLEAN, NEW limit \in Bounds, NEW s, Sane(s, down, limit),
         NEW r, NEW at \in MinTick..MaxTick, NEW ini \in BOOLEAN,
         NEW t \in Nat \ {0}, NEW n \in Nat \ {0}, NEW c \in Nat,
         Found(s.tick, down, at, ini), Goes(s, r, down, limit, at, ini, t, n, c),
         n = SqrtPrice[at] => ini /\ at \in TicksRead,
         NEW q, NEW a \in MinTick..MaxTick, NEW b \in BOOLEAN,
         NEW u \in Nat \ {0}, NEW m \in Nat \ {0}, NEW d \in Nat,
         Finds(s.tick, down, a, b), Goes(s, q, down, limit, a, b, u, m, d)
  PROVE  q = r
<1>0. PICK tau \in MinTick..(MaxTick - 1), p \in Nat \ {0}, l \in Nat, x \in Nat :
        tau = s.tick /\ p = s.price /\ l = s.liq /\ x = s.remaining
  <2>1. s.price \in Nat \ {0}
    BY InPrices DEF Sane
  <2> QED
    BY <2>1 DEF Sane
<1>1. /\ Found(tau, down, at, ini) /\ Ahead(down, p, SqrtPrice[at], limit, t)
      /\ Taken(down, p, t, l, x, n, c) /\ r = Stepped(s, down, at, ini, n, c)
      /\ n \in Prices /\ Toward(down, n, limit) /\ Toward(down, p, n)
      /\ Toward(down, n, SqrtPrice[at])
  BY <1>0, Zenon DEF Goes, Arrived
<1>2. /\ Finds(tau, down, a, b) /\ Ahead(down, p, SqrtPrice[a], limit, u)
      /\ Taken(down, p, u, l, x, m, d) /\ q = Stepped(s, down, a, b, m, d)
  BY <1>0, Zenon DEF Goes
<1>3. CASE n = SqrtPrice[at]
  <2>1. at # (IF down THEN MinTick ELSE MaxTick)
    BY <1>1, <1>3, NotTheEnd
  <2>2. Same(tau, tau)
    BY Zenon DEF Same
  <2>3. a = at /\ b /\ ini
    <3>1. at \in TicksRead
      BY <1>3
    <3>2. PICK v \in MinTick..(MaxTick - 1) :
            Found(tau, down, at, ini) /\ Finds(v, down, a, b) /\ Same(tau, v)
      BY <1>1, <1>2, <2>2
    <3>3. a = at /\ b
      BY <2>1, <3>1, <3>2, SameNext
    <3> QED
      BY <1>3, <3>3
  <2>4. u = t
    BY <1>1, <1>2, <2>3, TargetIs, Zenon
  <2>5. m = n /\ d = c
    BY <1>1, <1>2, <2>4, Zenon DEF Taken
  <2>6. b = ini
    BY <2>3
  <2> QED
    BY <1>1, <1>2, <2>3, <2>5, <2>6, Zenon
<1>4. CASE n # SqrtPrice[at]
  <2>1. tau \in Int /\ at \in Int /\ a \in Int /\ MinTick <= at /\ at <= MaxTick /\ at \in Ticks /\ a \in Ticks
        /\ MinTick \in Int /\ MaxTick \in Int
    BY TickRange
  <2>2. IF down THEN a <= at ELSE at <= a
    <3>1. IF down THEN at <= tau /\ \A v \in (at + 1)..tau : v \notin bitmap
          ELSE tau < at /\ \A v \in (tau + 1)..(at - 1) : v \notin bitmap
      BY <1>1, Zenon DEF Found
    <3>2. /\ IF down THEN a <= tau ELSE tau < a
          /\ a \in bitmap \/ a = (IF down THEN MinTick ELSE MaxTick)
      BY <1>2, ReadAre DEF Finds
    <3>3. CASE down
      BY <2>1, <3>1, <3>2, <3>3
    <3>4. CASE ~down
      BY <2>1, <3>1, <3>2, <3>4
    <3> QED
      BY <3>3, <3>4
  <2>3. PICK e \in Nat, f \in Nat, lim \in Nat : e = SqrtPrice[at] /\ f = SqrtPrice[a] /\ lim = limit
                                                 /\ Toward(down, e, f)
    <3>1. SqrtPrice[at] \in Nat /\ SqrtPrice[a] \in Nat
      BY TickRange, PriceOf
    <3>2. Toward(down, SqrtPrice[at], SqrtPrice[a])
      BY <2>1, <2>2, Order DEF Toward
    <3> QED
      BY <3>1, <3>2, InBounds
  <2>4. /\ t = IF (IF down THEN e < lim ELSE e > lim) THEN lim ELSE e
        /\ u = IF (IF down THEN f < lim ELSE f > lim) THEN lim ELSE f
    BY <1>1, <1>2, <2>3, Zenon DEF Ahead
  <2>5. Toward(down, t, u) /\ Toward(down, n, t)
    <3>1. Toward(down, n, t)
      BY <1>1, Zenon DEF Taken
    <3>2. Toward(down, t, u)
      BY <2>3, <2>4 DEF Toward
    <3> QED
      BY <3>1, <3>2
  <2>6. n # SqrtPrice[a]
    <3>1. Toward(down, n, e) /\ n # e
      BY <1>1, <1>4, <2>3, Zenon
    <3>2. n # f
      BY <2>3, <3>1 DEF Toward
    <3> QED
      BY <2>3, <3>2, Zenon
  <2>7. m = n /\ d = c
    <3>1. CASE n = t
      <4>1. Toward(down, n, e) /\ n # e
        BY <1>1, <1>4, <2>3, Zenon
      <4>2. t = u
        BY <2>3, <2>4, <3>1, <4>1 DEF Toward
      <4> QED
        BY <1>1, <1>2, <4>2, Zenon DEF Taken
    <3>2. CASE n # t
      <4>1. Toward(down, t, u) /\ Taken(down, p, t, l, x, n, c) /\ Taken(down, p, u, l, x, m, d)
        BY <1>1, <1>2, <2>5, Zenon
      <4> QED
        BY <3>2, <4>1, FallsShort
    <3> QED
      BY <3>1, <3>2
  <2>8. Stepped(s, down, a, b, m, d) = Stepped(s, down, at, ini, n, c)
    BY <1>4, <2>6, <2>7, Zenon DEF Stepped, TickAfter, LiqAfter
  <2> QED
    BY <1>1, <1>2, <2>8, Zenon
<1> QED
  BY <1>3, <1>4

\* A round of a swap under way moves its price and its tick one way.
LEMMA MovedIs ==
  ASSUME V3TypeOK, Booked, NEW down \in BOOLEAN, NEW limit \in Bounds, NEW amount \in Int, NEW s,
         Moving(s, down, limit, amount), NEW r, r = Moved(s, down, limit)
  PROVE  Moving(r, down, limit, amount) /\ Toward(down, s.tick, r.tick) /\ Toward(down, s.price, r.price)
<1>1. Moving(r, down, limit, amount)
  <2>1. TRUE \in BOOLEAN
    OBVIOUS
  <2> QED
    BY <2>1, RoundKeeps, Zenon DEF Moving, Moved
<1>2. CASE Ended(s, limit)
  <2>1. r = s
    BY <1>2, Zenon DEF Moved, SwapRound, Ended
  <2>2. s.tick \in Int /\ s.price \in Int
    <3>1. Sane(s, down, limit)
      BY MovingIs
    <3> QED
      BY <3>1, InPrices, TickRange DEF Sane
  <2>3. Toward(down, s.tick, s.tick) /\ Toward(down, s.price, s.price)
    BY <2>2 DEF Toward
  <2> QED
    BY <1>1, <2>1, <2>3, Zenon
<1>3. CASE ~Ended(s, limit)
  <2>1. PICK at \in MinTick..MaxTick, ini \in BOOLEAN, t \in Nat \ {0}, n \in Nat \ {0}, c \in Nat :
           Goes(s, r, down, limit, at, ini, t, n, c)
    BY <1>3, SwapGoes
  <2> QED
    BY <1>1, <2>1, Zenon DEF Goes, Arrived
<1> QED
  BY <1>2, <1>3

\* Every quote has its rounds, by induction over their number.
LEMMA QuotesExist ==
  ASSUME NEW s, NEW down, NEW limit
  PROVE  \E q : QuotesAfter(q, s, down, limit)
<1>0. Rounds \in Nat
  BY TickRange DEF Rounds
<1> DEFINE Is(q, m) == q = [n \in 0..m |-> IF n = 0 THEN s ELSE QuoteRound(q[n - 1], TicksRead, down, limit)]
           S == {m \in Nat : \E q : Is(q, m)}
<1>1. 0 \in S
  <2>1. PICK q : q = [n \in 0..0 |-> s]
    OBVIOUS
  <2>2. \A n \in 0..0 : n = 0
    OBVIOUS
  <2>3. Is(q, 0)
    BY <2>1, <2>2, Zenon
  <2> QED
    BY <2>3
<1>2. ASSUME NEW m \in Nat, m \in S PROVE m + 1 \in S
  <2>1. PICK q : Is(q, m)
    BY <1>2
  <2>2. PICK u : u = [n \in 0..(m + 1) |-> IF n = 0 THEN s ELSE QuoteRound(q[n - 1], TicksRead, down, limit)]
    OBVIOUS
  <2>3. \A n \in 0..m : u[n] = q[n]
    <3>1. SUFFICES ASSUME NEW n \in 0..m PROVE u[n] = q[n]
      OBVIOUS
    <3>2. n \in 0..(m + 1)
      OBVIOUS
    <3>3. u[n] = IF n = 0 THEN s ELSE QuoteRound(q[n - 1], TicksRead, down, limit)
      BY <2>2, <3>2, Zenon
    <3>4. q[n] = IF n = 0 THEN s ELSE QuoteRound(q[n - 1], TicksRead, down, limit)
      BY <2>1, <3>1, Zenon
    <3> QED
      BY <3>3, <3>4
  <2>4. ASSUME NEW n \in 0..(m + 1)
        PROVE  u[n] = IF n = 0 THEN s ELSE QuoteRound(u[n - 1], TicksRead, down, limit)
    <3>1. u[n] = IF n = 0 THEN s ELSE QuoteRound(q[n - 1], TicksRead, down, limit)
      BY <2>2, <2>4, Zenon
    <3>2. n = 0 \/ n - 1 \in 0..m
      OBVIOUS
    <3>3. n = 0 \/ u[n - 1] = q[n - 1]
      BY <2>3, <3>2, Zenon
    <3> QED
      BY <3>1, <3>3, Zenon
  <2>5. Is(u, m + 1)
    <3>1. u = [n \in 0..(m + 1) |-> u[n]]
      BY <2>2, Zenon
    <3> QED
      BY <2>4, <3>1
  <2> QED
    BY <2>5
<1> HIDE DEF S
<1>3. \A k \in Nat : k \in S
  BY <1>1, <1>2, Induction
<1>4. Rounds \in S
  BY <1>0, <1>3
<1>5. PICK q : /\ q = [n \in 0..Rounds |-> IF n = 0 THEN s ELSE QuoteRound(q[n - 1], TicksRead, down, limit)]
               /\ QuoteLoop(s, TicksRead, down, limit) = q[Rounds]
  <2> DEFINE q == CHOOSE after : after =
               [n \in 0..Rounds |-> IF n = 0 THEN s ELSE QuoteRound(after[n - 1], TicksRead, down, limit)]
  <2>1. q = [n \in 0..Rounds |-> IF n = 0 THEN s ELSE QuoteRound(q[n - 1], TicksRead, down, limit)]
    BY <1>4 DEF S
  <2>2. QuoteLoop(s, TicksRead, down, limit) = q[Rounds]
    BY DEF QuoteLoop
  <2> HIDE DEF q
  <2> QED
    BY <2>1, <2>2
<1>6. q[0] = s
  <2>1. 0 \in 0..Rounds
    BY <1>0
  <2> QED
    BY <1>5, <2>1, Zenon
<1>7. ASSUME NEW k \in Nat, k + 1 \in 0..Rounds
      PROVE  q[k + 1] = QuoteRound(q[k], TicksRead, down, limit)
  <2>1. k + 1 # 0 /\ (k + 1) - 1 = k
    OBVIOUS
  <2>2. q[k + 1] = IF k + 1 = 0 THEN s ELSE QuoteRound(q[(k + 1) - 1], TicksRead, down, limit)
    BY <1>5, <1>7, Zenon
  <2> QED
    BY <2>1, <2>2, Zenon
<1> QED
  BY <1>5, <1>6, <1>7 DEF QuotesAfter

\* Between the present tick and one in its reach a round of the swap stays behind
\* the quote.
LEMMA RoundFollows ==
  ASSUME V3TypeOK, Booked, NEW down \in BOOLEAN, NEW limit \in Bounds, NEW amount \in Int,
         NEW s, Moving(s, down, limit, amount), NEW s2, s2 = Moved(s, down, limit),
         NEW last \in Int, InWindow(last), Toward(down, tick, s.tick), Toward(down, s2.tick, last),
         NEW q, Quoted(q, down, limit), Behind(q, s, down),
         NEW q2, q2 = QuoteRound(q, TicksRead, down, limit)
  PROVE  Behind(q, s2, down) \/ (Behind(q2, s2, down) /\ s2.price = q2.price)
<1>1. CASE Ended(s, limit)
  <2>1. s2 = s
    BY <1>1, Zenon DEF Moved, SwapRound, Ended
  <2> QED
    BY <2>1
<1>2. CASE ~Ended(s, limit)
  <2>1. Sane(s, down, limit)
    BY MovingIs
  <2>2. s2.liq \in Nat
    <3>1. Moving(s2, down, limit, amount)
      BY MovedIs
    <3>2. Sane(s2, down, limit)
      BY <3>1, MovingIs
    <3> QED
      BY <3>2, Zenon DEF Sane
  <2>3. PICK at \in MinTick..MaxTick, ini \in BOOLEAN, t \in Nat \ {0}, n \in Nat \ {0}, c \in Nat :
           Found(s.tick, down, at, ini) /\ Goes(s, s2, down, limit, at, ini, t, n, c)
    BY <1>2, SwapGoes
  <2>4. ASSUME ini /\ n = SqrtPrice[at] PROVE at \in TicksRead
    <3>1. /\ s2.tick = IF down THEN at - 1 ELSE at
          /\ IF down THEN at <= s.tick ELSE s.tick < at
          /\ at \in bitmap
      BY <2>3, <2>4, Zenon DEF Goes, Arrived, Found
    <3>2. PICK tau \in Int : tau = s.tick
      BY <2>1, TickRange DEF Sane
    <3>3. at \in Int /\ tick \in Int
      BY TickInt, TickRange
    <3>4. IF down THEN last <= at - 1 /\ tau <= tick ELSE at <= last /\ tick <= tau
      BY <3>1, <3>2, Zenon DEF Toward
    <3>5. IF down THEN last <= at /\ at <= tick ELSE tick <= at /\ at <= last
      BY <3>1, <3>2, <3>3, <3>4
    <3> QED
      BY <3>1, <3>5, CrossedIsRead
  <2> QED
    BY <1>2, <2>1, <2>2, <2>3, <2>4, Follow
<1> QED
  BY <1>1, <1>2

\* There the quote's round is the swap's, unless that stops at an empty edge.
LEMMA RoundAlike ==
  ASSUME V3TypeOK, Booked, NEW down \in BOOLEAN, NEW limit \in Bounds, NEW amount \in Int,
         NEW s, Moving(s, down, limit, amount), NEW s2, s2 = Moved(s, down, limit),
         NEW last \in Int, InWindow(last), Toward(down, tick, s.tick), Toward(down, s2.tick, last),
         \A u \in Ticks \ bitmap : Edge(down, u) => SqrtPrice[u] # s2.price
  PROVE  QuoteRound(s, TicksRead, down, limit) = s2
<1>1. CASE Ended(s, limit)
  <2>1. s2 = s
    BY <1>1, Zenon DEF Moved, SwapRound, Ended
  <2>2. s.remaining = 0 => s.remaining <= 0
    OBVIOUS
  <2> QED
    BY <1>1, <2>1, <2>2, Zenon DEF QuoteRound, Ended
<1>2. CASE ~Ended(s, limit)
  <2>1. Sane(s, down, limit)
    BY MovingIs
  <2>3. PICK at \in MinTick..MaxTick, ini \in BOOLEAN, t \in Nat \ {0}, n \in Nat \ {0}, c \in Nat :
           Found(s.tick, down, at, ini) /\ Goes(s, s2, down, limit, at, ini, t, n, c)
    BY <1>2, SwapGoes
  <2>4. PICK a \in MinTick..MaxTick, b \in BOOLEAN, u \in Nat \ {0}, m \in Nat \ {0}, d \in Nat :
           /\ Finds(s.tick, down, a, b)
           /\ Goes(s, QuoteRound(s, TicksRead, down, limit), down, limit, a, b, u, m, d)
    BY <1>2, <2>1, QuoteGoes
  <2>5. ASSUME n = SqrtPrice[at] PROVE ini /\ at \in TicksRead
    <3>1. /\ s2.tick = (IF down THEN at - 1 ELSE at) /\ s2.price = n
          /\ n \in Prices /\ Toward(down, n, limit)
      BY <2>3, <2>5, Zenon DEF Goes, Arrived
    <3>2. /\ IF down THEN at <= s.tick ELSE s.tick < at
          /\ ini <=> at \in bitmap
          /\ ini \/ (IF down THEN at = MinTick \/ at % WordSize = 0
                     ELSE at = MaxTick \/ (at + 1) % WordSize = 0)
      BY <2>3, Zenon DEF Found
    <3>3. at # (IF down THEN MinTick ELSE MaxTick) /\ at \in Ticks
      BY <2>5, <3>1, NotTheEnd, TickRange
    <3>4. ini
      <4>1. SUFFICES ASSUME ~ini PROVE FALSE
        OBVIOUS
      <4>2. Edge(down, at) /\ at \in Ticks \ bitmap
        BY <3>2, <3>3, <4>1 DEF Edge
      <4> QED
        BY <2>5, <3>1, <4>2, Zenon
    <3>5. PICK tau \in Int : tau = s.tick
      BY <2>1, TickRange DEF Sane
    <3>6. at \in Int /\ tick \in Int
      BY TickInt, TickRange
    <3>7. IF down THEN last <= at - 1 /\ tau <= tick ELSE at <= last /\ tick <= tau
      BY <3>1, <3>5, Zenon DEF Toward
    <3>8. IF down THEN last <= at /\ at <= tick ELSE tick <= at /\ at <= last
      BY <3>2, <3>5, <3>6, <3>7
    <3>9. at \in bitmap
      BY <3>2, <3>4
    <3>10. at \in TicksRead
      BY <3>8, <3>9, CrossedIsRead
    <3> QED
      BY <3>4, <3>10
  <2>6. PICK q : q = QuoteRound(s, TicksRead, down, limit)
    OBVIOUS
  <2>7. q = s2
    BY <2>1, <2>3, <2>4, <2>5, <2>6, SameRound
  <2> QED
    BY <2>6, <2>7
<1> QED
  BY <1>1, <1>2

\* They all exist, and go one way.
LEMMA WaysAre ==
  ASSUME V3TypeOK, Booked, NEW down \in BOOLEAN, NEW limit \in Bounds, NEW amount \in Int,
         NEW s, Moving(s, down, limit, amount), Quoted(s, down, limit)
  PROVE  \E f, q : Ways(f, q, s, down, limit, amount)
<1>0. Rounds \in Nat
  BY TickRange DEF Rounds
<1>1. PICK f : /\ f[0] = s /\ SwapLoop(s, TRUE, down, limit) = f[Rounds]
               /\ \A k \in Nat : k + 1 \in 0..Rounds => f[k + 1] = Moved(f[k], down, limit)
  <2>1. PICK f : RoundsAfter(f, s, TRUE, down, limit)
    BY LoopIs, Zenon
  <2> QED
    BY <2>1, Zenon DEF RoundsAfter, Moved
<1>2. PICK q : /\ q[0] = s /\ QuoteLoop(s, TicksRead, down, limit) = q[Rounds]
               /\ \A k \in Nat : k + 1 \in 0..Rounds => q[k + 1] = QuoteRound(q[k], TicksRead, down, limit)
  <2>1. PICK q : QuotesAfter(q, s, down, limit)
    BY QuotesExist
  <2> QED
    BY <2>1, Zenon DEF QuotesAfter
<1> DEFINE S == {k \in Nat : k \in 0..Rounds =>
                   Moving(f[k], down, limit, amount) /\ Quoted(q[k], down, limit)}
<1>3. 0 \in S
  BY <1>1, <1>2
<1>4. ASSUME NEW k \in Nat, k \in S PROVE k + 1 \in S
  <2>1. SUFFICES ASSUME k + 1 \in 0..Rounds
                 PROVE  Moving(f[k + 1], down, limit, amount) /\ Quoted(q[k + 1], down, limit)
    OBVIOUS
  <2>2. k \in 0..Rounds
    BY <1>0, <2>1
  <2>3. Moving(f[k], down, limit, amount) /\ Quoted(q[k], down, limit)
    BY <1>4, <2>2
  <2>4. PICK r, p : /\ r = f[k + 1] /\ r = Moved(f[k], down, limit)
                    /\ p = q[k + 1] /\ p = QuoteRound(q[k], TicksRead, down, limit)
    BY <1>1, <1>2, <2>1
  <2>5. Moving(r, down, limit, amount) /\ Quoted(p, down, limit)
    BY <2>3, <2>4, MovedIs, QuoteKeeps
  <2> QED
    BY <2>4, <2>5
<1> HIDE DEF S
<1>5. \A k \in 0..Rounds : Moving(f[k], down, limit, amount) /\ Quoted(q[k], down, limit)
  <2>1. \A k \in Nat : k \in S
    BY <1>3, <1>4, Induction
  <2> QED
    BY <1>0, <2>1 DEF S
<1>6. ASSUME NEW k \in Nat, k + 1 \in 0..Rounds
      PROVE  /\ Toward(down, f[k].tick, f[k + 1].tick) /\ Toward(down, f[k].price, f[k + 1].price)
             /\ Toward(down, q[k].price, q[k + 1].price) /\ q[k + 1].calculated <= q[k].calculated
  <2>1. k \in 0..Rounds
    BY <1>0, <1>6
  <2>2. PICK r, p : /\ r = f[k + 1] /\ r = Moved(f[k], down, limit)
                    /\ p = q[k + 1] /\ p = QuoteRound(q[k], TicksRead, down, limit)
    BY <1>1, <1>2, <1>6
  <2>3. Moving(f[k], down, limit, amount) /\ Quoted(q[k], down, limit)
    BY <1>5, <2>1
  <2>4. Toward(down, f[k].tick, r.tick) /\ Toward(down, f[k].price, r.price)
    BY <2>2, <2>3, MovedIs
  <2>5. Toward(down, q[k].price, p.price) /\ p.calculated <= q[k].calculated
    BY <2>2, <2>3, QuoteKeeps
  <2> QED
    BY <2>2, <2>4, <2>5, Zenon
<1>7. ASSUME NEW k \in 0..Rounds
      PROVE  f[k].tick \in Int /\ f[k].price \in Int /\ q[k].price \in Int /\ q[k].calculated \in Int
  <2>1. Sane(f[k], down, limit) /\ Quoted(q[k], down, limit)
    BY <1>5, MovingIs
  <2> QED
    BY <2>1, TickRange, InPrices DEF Sane, Quoted
<1>8. \A i, j \in 0..Rounds : i <= j => Toward(down, f[i].tick, f[j].tick)
  <2>1. PICK g : \A k \in 0..Rounds : g[k] = f[k].tick
    <3>1. \A k \in 0..Rounds : [k1 \in 0..Rounds |-> f[k1].tick][k] = f[k].tick
      OBVIOUS
    <3> QED
      BY <3>1
  <2>2. \A k \in Nat : k + 1 \in 0..Rounds => Toward(down, g[k], g[k + 1])
    <3>1. \A k \in Nat : k + 1 \in 0..Rounds => k \in 0..Rounds
      BY <1>0
    <3> QED
      BY <1>6, <2>1, <3>1, Zenon
  <2>3. \A i, j \in 0..Rounds : i <= j => Toward(down, g[i], g[j])
    BY <1>0, <1>7, <2>1, <2>2, Onward
  <2> QED
    BY <2>1, <2>3, Zenon
<1>9. \A i, j \in 0..Rounds : i <= j => Toward(down, f[i].price, f[j].price)
  <2>1. PICK g : \A k \in 0..Rounds : g[k] = f[k].price
    <3>1. \A k \in 0..Rounds : [k1 \in 0..Rounds |-> f[k1].price][k] = f[k].price
      OBVIOUS
    <3> QED
      BY <3>1
  <2>2. \A k \in Nat : k + 1 \in 0..Rounds => Toward(down, g[k], g[k + 1])
    <3>1. \A k \in Nat : k + 1 \in 0..Rounds => k \in 0..Rounds
      BY <1>0
    <3> QED
      BY <1>6, <2>1, <3>1, Zenon
  <2>3. \A i, j \in 0..Rounds : i <= j => Toward(down, g[i], g[j])
    BY <1>0, <1>7, <2>1, <2>2, Onward
  <2> QED
    BY <2>1, <2>3, Zenon
<1>10. \A i, j \in 0..Rounds : i <= j => Toward(down, q[i].price, q[j].price)
  <2>1. PICK g : \A k \in 0..Rounds : g[k] = q[k].price
    <3>1. \A k \in 0..Rounds : [k1 \in 0..Rounds |-> q[k1].price][k] = q[k].price
      OBVIOUS
    <3> QED
      BY <3>1
  <2>2. \A k \in Nat : k + 1 \in 0..Rounds => Toward(down, g[k], g[k + 1])
    <3>1. \A k \in Nat : k + 1 \in 0..Rounds => k \in 0..Rounds
      BY <1>0
    <3> QED
      BY <1>6, <2>1, <3>1, Zenon
  <2>3. \A i, j \in 0..Rounds : i <= j => Toward(down, g[i], g[j])
    BY <1>0, <1>7, <2>1, <2>2, Onward
  <2> QED
    BY <2>1, <2>3, Zenon
<1>11. \A i, j \in 0..Rounds : i <= j => q[j].calculated <= q[i].calculated
  <2>0. PICK lower \in BOOLEAN : \A a, b : Toward(lower, a, b) <=> b <= a
    <3>1. \A a, b : Toward(TRUE, a, b) <=> b <= a
      BY Zenon DEF Toward
    <3> QED
      BY <3>1, Zenon
  <2>1. PICK g : \A k \in 0..Rounds : g[k] = q[k].calculated
    <3>1. \A k \in 0..Rounds : [k1 \in 0..Rounds |-> q[k1].calculated][k] = q[k].calculated
      OBVIOUS
    <3> QED
      BY <3>1
  <2>2. \A k \in Nat : k + 1 \in 0..Rounds => Toward(lower, g[k], g[k + 1])
    <3>1. \A k \in Nat : k + 1 \in 0..Rounds => k \in 0..Rounds
      BY <1>0
    <3> QED
      BY <1>6, <2>0, <2>1, <3>1, Zenon
  <2>3. \A i, j \in 0..Rounds : i <= j => Toward(lower, g[i], g[j])
    BY <1>0, <1>7, <2>1, <2>2, Onward
  <2> QED
    BY <2>0, <2>1, <2>3, Zenon
<1> QED
  BY <1>1, <1>2, <1>5, <1>8, <1>9, <1>10, <1>11, Zenon DEF Ways

\* The swap is at all times behind the quote, by induction over its rounds.
LEMMA StaysBehind ==
  ASSUME V3TypeOK, Booked, NEW down \in BOOLEAN, NEW limit \in Bounds, NEW amount \in Int,
         NEW s, s.tick = tick, NEW f, NEW q, Ways(f, q, s, down, limit, amount),
         NEW last \in Int, last = f[Rounds].tick, InWindow(last)
  PROVE  \A j \in 0..Rounds : Chased(q, f, j, down)
<1>0. Rounds \in Nat
  BY TickRange DEF Rounds
<1>1. /\ f[0] = s /\ q[0] = s
      /\ \A k \in Nat : k + 1 \in 0..Rounds => /\ f[k + 1] = Moved(f[k], down, limit)
                                               /\ q[k + 1] = QuoteRound(q[k], TicksRead, down, limit)
      /\ \A k \in 0..Rounds : Moving(f[k], down, limit, amount) /\ Quoted(q[k], down, limit)
      /\ \A i, j \in 0..Rounds : i <= j => Toward(down, f[i].tick, f[j].tick)
  BY Zenon DEF Ways
<1> DEFINE S == {j \in Nat : j \in 0..Rounds => Chased(q, f, j, down)}
<1>2. 0 \in S
  <2>1. 0 \in 0..Rounds
    BY <1>0
  <2>2. Moving(s, down, limit, amount)
    BY <1>1, <2>1
  <2>3. Behind(s, s, down)
    <3>1. Sane(s, down, limit)
      BY <2>2, MovingIs
    <3> QED
      BY <3>1, BehindItself
  <2>4. Behind(q[0], f[0], down) /\ f[0].price = q[0].price
    BY <1>1, <2>3
  <2>5. 0 \in 0..0
    OBVIOUS
  <2> QED
    BY <2>4, <2>5 DEF Chased
<1>3. ASSUME NEW j \in Nat, j \in S PROVE j + 1 \in S
  <2>1. SUFFICES ASSUME j + 1 \in 0..Rounds
                 PROVE  Chased(q, f, j + 1, down)
    OBVIOUS
  <2>2. j \in 0..Rounds /\ 0 <= j /\ j + 1 <= Rounds /\ 0 \in 0..Rounds /\ Rounds \in 0..Rounds
    BY <1>0, <2>1
  <2>3. PICK k \in 0..j : Behind(q[k], f[j], down)
    BY <1>3, <2>2 DEF Chased
  <2>4. k \in Nat /\ k \in 0..Rounds /\ k + 1 \in 0..Rounds /\ k < j + 1 /\ k \in 0..(j + 1) /\ k + 1 \in 0..(j + 1)
    BY <1>0, <2>2, <2>3
  <2>5. PICK r, p : /\ r = f[j + 1] /\ r = Moved(f[j], down, limit)
                    /\ p = q[k + 1] /\ p = QuoteRound(q[k], TicksRead, down, limit)
    BY <1>1, <2>1, <2>4
  <2>6. Moving(f[j], down, limit, amount) /\ Quoted(q[k], down, limit)
    BY <1>1, <2>2, <2>4
  <2>7. Toward(down, tick, f[j].tick) /\ Toward(down, r.tick, last)
    <3>1. Toward(down, f[0].tick, f[j].tick) /\ Toward(down, f[j + 1].tick, f[Rounds].tick)
      BY <1>1, <2>1, <2>2
    <3> QED
      BY <1>1, <2>5, <3>1, Zenon
  <2>8. Behind(q[k], r, down) \/ (Behind(p, r, down) /\ r.price = p.price)
    BY <2>3, <2>5, <2>6, <2>7, RoundFollows
  <2> QED
    BY <2>4, <2>5, <2>8, Zenon DEF Chased
<1> HIDE DEF S
<1>4. \A j \in Nat : j \in S
  BY <1>2, <1>3, Induction
<1>5. \A j \in 0..Rounds : j \in S
  BY <1>0, <1>4
<1> QED
  BY <1>5 DEF S

\* At the end the quote has given as much as the swap, or more.
LEMMA NeverLess ==
  ASSUME V3TypeOK, Booked, NEW down \in BOOLEAN, NEW limit \in Bounds, NEW amount \in Int,
         NEW s, s.tick = tick, NEW f, NEW q, Ways(f, q, s, down, limit, amount),
         InWindow(f[Rounds].tick)
  PROVE  q[Rounds].calculated <= f[Rounds].calculated
<1>0. Rounds \in Nat /\ Rounds \in 0..Rounds
  BY TickRange DEF Rounds
<1>1. /\ \A k \in Nat : k + 1 \in 0..Rounds => q[k + 1] = QuoteRound(q[k], TicksRead, down, limit)
      /\ \A k \in 0..Rounds : Moving(f[k], down, limit, amount) /\ Quoted(q[k], down, limit)
      /\ \A i, j \in 0..Rounds : i <= j => q[j].calculated <= q[i].calculated
  BY Zenon DEF Ways
<1>2. Sane(f[Rounds], down, limit)
  BY <1>0, <1>1, MovingIs
<1>3. f[Rounds].tick \in Int
  BY <1>2, TickRange DEF Sane
<1>4. Chased(q, f, Rounds, down)
  BY <1>0, <1>3, StaysBehind
<1>5. PICK k \in 0..Rounds : Behind(q[k], f[Rounds], down) /\ (f[Rounds].price # q[k].price => k < Rounds)
  BY <1>4, Zenon DEF Chased
<1>6. PICK s2, r : s2 = f[Rounds] /\ r = QuoteRound(q[k], TicksRead, down, limit)
  OBVIOUS
<1>7. /\ s2.price = q[k].price => q[k].calculated <= s2.calculated
      /\ s2.price # q[k].price => r.calculated <= s2.calculated
  <2>1. Quoted(q[k], down, limit) /\ Behind(q[k], s2, down) /\ Sane(s2, down, limit)
    BY <1>1, <1>2, <1>5, <1>6
  <2> QED
    BY <1>6, <2>1, Overtakes
<1>8. PICK i \in 0..Rounds : q[i].calculated <= s2.calculated
  <2>1. CASE s2.price = q[k].price
    BY <1>7, <2>1
  <2>2. CASE s2.price # q[k].price
    <3>1. k \in Nat /\ k + 1 \in 0..Rounds
      BY <1>0, <1>5, <1>6, <2>2
    <3>2. q[k + 1] = r
      BY <1>1, <1>6, <3>1
    <3> QED
      BY <1>7, <2>2, <3>1, <3>2
  <2> QED
    BY <2>1, <2>2
<1>9. PICK a \in Int, b \in Int, e \in Int :
        a = q[Rounds].calculated /\ b = q[i].calculated /\ e = s2.calculated /\ a <= b
  <2>1. i <= Rounds /\ i \in 0..Rounds
    BY <1>0
  <2>2. q[Rounds].calculated <= q[i].calculated
    BY <1>0, <1>1, <2>1, Zenon
  <2>3. q[Rounds].calculated \in Int /\ q[i].calculated \in Int /\ s2.calculated \in Int
    BY <1>0, <1>1, <1>2, <1>6, <2>1, Zenon DEF Quoted, Sane
  <2> QED
    BY <2>2, <2>3
<1> QED
  BY <1>6, <1>8, <1>9

\* Where no empty edge is met on the way of the quote, it is the swap round by round.
LEMMA SameWay ==
  ASSUME V3TypeOK, Booked, NEW down \in BOOLEAN, NEW limit \in Bounds, NEW amount \in Int,
         NEW s, s.tick = tick, NEW f, NEW q, Ways(f, q, s, down, limit, amount),
         NEW last \in Int, last = f[Rounds].tick, InWindow(last),
         EmptyEdges(s.price, q[Rounds].price, down) = {}
  PROVE  q[Rounds] = f[Rounds]
<1>0. Rounds \in Nat /\ Rounds \in 0..Rounds /\ 0 \in 0..Rounds
  BY TickRange DEF Rounds
<1>1. /\ f[0] = s /\ q[0] = s
      /\ \A k \in Nat : k + 1 \in 0..Rounds => /\ f[k + 1] = Moved(f[k], down, limit)
                                               /\ q[k + 1] = QuoteRound(q[k], TicksRead, down, limit)
      /\ \A k \in 0..Rounds : Moving(f[k], down, limit, amount) /\ Quoted(q[k], down, limit)
      /\ \A i, j \in 0..Rounds : i <= j => /\ Toward(down, f[i].tick, f[j].tick)
                                           /\ Toward(down, f[i].price, f[j].price)
                                           /\ Toward(down, q[i].price, q[j].price)
  BY Zenon DEF Ways
<1>2. \A k \in 0..Rounds : f[k].price \in Nat /\ q[k].price \in Nat
  <2>1. SUFFICES ASSUME NEW k \in 0..Rounds PROVE f[k].price \in Nat /\ q[k].price \in Nat
    OBVIOUS
  <2>2. Sane(f[k], down, limit) /\ Quoted(q[k], down, limit)
    BY <1>1, MovingIs
  <2> QED
    BY <2>2, InPrices DEF Sane, Quoted
<1> DEFINE S == {j \in Nat : j \in 0..Rounds => q[j] = f[j]}
<1>3. 0 \in S
  BY <1>1
<1>4. ASSUME NEW j \in Nat, j \in S PROVE j + 1 \in S
  <2>1. SUFFICES ASSUME j + 1 \in 0..Rounds PROVE q[j + 1] = f[j + 1]
    OBVIOUS
  <2>2. j \in 0..Rounds /\ j <= Rounds /\ j + 1 <= Rounds /\ 0 <= j + 1 /\ 0 <= j
    BY <1>0, <2>1
  <2>3. PICK v, r, p : /\ v = f[j] /\ v = q[j] /\ r = f[j + 1] /\ r = Moved(v, down, limit)
                       /\ p = q[j + 1] /\ p = QuoteRound(v, TicksRead, down, limit)
    BY <1>1, <1>4, <2>1, <2>2
  <2>4. Moving(v, down, limit, amount) /\ Quoted(v, down, limit)
    BY <1>1, <2>2, <2>3
  <2>5. Toward(down, tick, v.tick) /\ Toward(down, r.tick, last)
    <3>1. Toward(down, f[0].tick, f[j].tick) /\ Toward(down, f[j + 1].tick, f[Rounds].tick)
      BY <1>0, <1>1, <2>1, <2>2
    <3> QED
      BY <1>1, <2>3, <3>1, Zenon
  <2>6. Sane(v, down, limit) /\ Sane(r, down, limit)
    <3>1. Moving(r, down, limit, amount)
      BY <1>1, <2>1, <2>3
    <3> QED
      BY <2>4, <3>1, MovingIs
  <2>7. Behind(v, v, down)
    BY <2>6, BehindItself
  <2>8. PICK x \in Nat, y \in Nat, z \in Nat, w \in Nat :
          x = s.price /\ y = r.price /\ z = p.price /\ w = q[Rounds].price
    BY <1>0, <1>1, <1>2, <2>1, <2>3
  <2>9. Toward(down, x, y) /\ Toward(down, z, w) /\ Toward(down, v.price, w)
    <3>1. /\ Toward(down, f[0].price, f[j + 1].price) /\ Toward(down, q[j + 1].price, q[Rounds].price)
          /\ Toward(down, q[j].price, q[Rounds].price)
      BY <1>0, <1>1, <2>1, <2>2
    <3> QED
      BY <1>1, <2>3, <2>8, <3>1, Zenon
  <2>10. Toward(down, y, w)
    <3>1. Behind(v, r, down) \/ (Behind(p, r, down) /\ r.price = p.price)
      BY <2>3, <2>4, <2>5, <2>7, RoundFollows
    <3>2. CASE Behind(v, r, down)
      <4>1. r.price # v.price => Toward(down, r.price, p.price)
        BY <2>3, <2>4, <2>6, <3>2, Overtakes
      <4>2. y # v.price => Toward(down, y, z)
        BY <2>8, <4>1
      <4> QED
        BY <2>9, <4>2 DEF Toward
    <3>3. CASE r.price = p.price
      BY <2>8, <2>9, <3>3
    <3> QED
      BY <3>1, <3>2, <3>3
  <2>11. ASSUME NEW u \in Ticks \ bitmap, Edge(down, u), SqrtPrice[u] = r.price PROVE FALSE
    <3>1. IF down THEN y \in w..x ELSE y \in x..w
      BY <2>9, <2>10 DEF Toward
    <3>2. u \in EmptyEdges(x, w, down)
      BY <2>8, <2>11, <3>1, Zenon DEF EmptyEdges, Edge
    <3> QED
      BY <2>8, <3>2
  <2>12. p = r
    BY <2>3, <2>4, <2>5, <2>11, RoundAlike
  <2> QED
    BY <2>3, <2>12
<1> HIDE DEF S
<1>5. \A j \in Nat : j \in S
  BY <1>3, <1>4, Induction
<1> QED
  BY <1>0, <1>5 DEF S

\* That holds from any start of a swap.
LEMMA StartPaid ==
  ASSUME TotalsInv, NEW down \in BOOLEAN, NEW x \in Swapped, NEW limit \in Limits, price # 0,
         IF down THEN limit < price ELSE limit > price,
         NEW start, start = [remaining |-> x, calculated |-> 0, price |-> price,
                             tick |-> tick, liq |-> liquidity]
  PROVE  PaidFrom(start, down, limit)
<1>1. PICK swap, quote : /\ swap = SwapLoop(start, TRUE, down, limit)
                         /\ quote = QuoteLoop(start, TicksRead, down, limit)
  BY Zenon
<1>2. V3TypeOK /\ Booked
  BY PoolFacts
<1>3. limit \in Bounds /\ x \in Nat /\ x \in Int
  <2>1. Swapped \subseteq Nat \ {0}
    BY V3Assumption
  <2> QED
    BY <2>1, InputsAre
<1>4. Moving(start, down, limit, x)
  <2>1. x >= 0
    BY <1>3
  <2>2. TRUE \in BOOLEAN
    OBVIOUS
  <2> QED
    BY <1>3, <2>1, <2>2, SwapStarts, Zenon DEF Moving
<1>5. Sane(start, down, limit) /\ start.liq = SumFunction(InForce(start.tick))
  BY <1>2, <1>3, <1>4, MovingIs
<1>6. start.tick = tick /\ start.price = price
  BY LoopFields, Zenon
<1>7. Quoted(start, down, limit)
  <2>1. AtEdge(down, start.tick)
    BY <1>6, Zenon DEF AtEdge
  <2> QED
    BY <1>5, <2>1, Zenon DEF Quoted, Sane
<1>8. PICK f, q : /\ Ways(f, q, start, down, limit, x)
                  /\ swap = f[Rounds] /\ quote = q[Rounds]
  <2>1. PICK f, q : Ways(f, q, start, down, limit, x)
    BY <1>2, <1>3, <1>4, <1>7, WaysAre
  <2> QED
    BY <1>1, <2>1, Zenon DEF Ways
<1>9. swap.calculated \in Int /\ quote.calculated \in Int /\ swap.tick \in Int
  <2>1. Rounds \in 0..Rounds
    BY TickRange DEF Rounds
  <2>2. Moving(swap, down, limit, x) /\ Quoted(quote, down, limit)
    BY <1>8, <2>1, Zenon DEF Ways
  <2>3. Sane(swap, down, limit)
    BY <1>2, <1>3, <2>2, MovingIs
  <2> QED
    BY <2>2, <2>3, TickRange DEF Quoted, Sane
<1>10. ASSUME InWindow(swap.tick) PROVE -quote.calculated >= -swap.calculated
  <2>1. quote.calculated <= swap.calculated
    BY <1>2, <1>3, <1>6, <1>8, <1>10, NeverLess
  <2> QED
    BY <1>9, <2>1
<1>11. ASSUME InWindow(swap.tick), EmptyEdges(price, quote.price, down) = {} PROVE quote = swap
  <2>1. EmptyEdges(start.price, q[Rounds].price, down) = {}
    BY <1>6, <1>8, <1>11, Zenon
  <2>2. PICK last \in Int : last = f[Rounds].tick /\ InWindow(last)
    BY <1>8, <1>9, <1>11
  <2> QED
    BY <1>2, <1>3, <1>6, <1>8, <2>1, <2>2, SameWay
<1> QED
  BY <1>1, <1>10, <1>11, Zenon DEF PaidFrom

\* A quote is paid whenever the pool's totals are right.
LEMMA QuotesPaid == TotalsInv => QuoteIsPaid
<1>1. SUFFICES ASSUME TotalsInv PROVE QuoteIsPaid
  OBVIOUS
<1>2. ASSUME NEW down \in BOOLEAN, NEW x \in Swapped, NEW limit \in Limits,
             price # 0, IF down THEN limit < price ELSE limit > price
      PROVE  PaidFrom([remaining |-> x, calculated |-> 0, price |-> price,
                       tick |-> tick, liq |-> liquidity], down, limit)
  BY <1>1, <1>2, StartPaid, Zenon
<1> QED
  BY <1>2, Zenon DEF QuoteIsPaid, PaidFrom, InWindow

\* A quote of a pool is always what the pool pays for the same input, or more where
\* the pool stops at the empty edge of a word.
THEOREM QuotesArePaid == V3Spec => []QuoteIsPaid
<1>1. V3Inv => QuoteIsPaid
  BY QuotesPaid, Zenon DEF V3Inv
<1> QED
  BY <1>1, V3InvAlways, PTL
=============================================================================
