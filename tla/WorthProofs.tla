----------------------------- MODULE WorthProofs -----------------------------
(***************************************************************************)
(* Theorems about what money and shares are worth: the arithmetic of Fees, *)
(* for every price, spread, rate and scale; Economy, what trading and      *)
(* converting cost; and Standings, what the league tables and the nightly  *)
(* snapshot say of every account, for any users, symbols and holdings.     *)
(***************************************************************************)
EXTENDS Standings, Economy, FiniteSetTheorems, WellFoundedInduction, TLAPS

-----------------------------------------------------------------------------
(* Rounding *)

\* HalfUp(n, d) is the integer nearest to n/d, a tie going up.
LEMMA HalfUpNearest ==
  ASSUME NEW n \in Int, NEW d \in Nat \ {0}
  PROVE  /\ HalfUp(n, d) \in Int
         /\ 2 * n - d < 2 * (d * HalfUp(n, d))
         /\ 2 * (d * HalfUp(n, d)) <= 2 * n + d
<1>. DEFINE a == 2 * n + d
            b == 2 * d
<1>1. a \in Int /\ b \in Nat \ {0}
  OBVIOUS
<1>. HIDE DEF a, b
<1>2. /\ a \div b \in Int /\ a % b \in 0 .. (b - 1)
      /\ a = b * (a \div b) + (a % b)
  BY <1>1
<1>3. HalfUp(n, d) = a \div b
  BY DEF HalfUp, a, b
<1>. DEFINE h == a \div b
<1>4. b * h = 2 * (d * h)
  <2>1. h \in Int
    BY <1>2
  <2>. HIDE DEF h
  <2>. QED  BY <2>1 DEF b
<1>5. a - b < b * h /\ b * h <= a
  <2>1. b * h \in Int
    BY <1>1, <1>2
  <2>. DEFINE bh == b * h
  <2>. HIDE DEF bh
  <2>2. bh \in Int /\ a = bh + (a % b)
    BY <1>2, <2>1 DEF bh
  <2>. QED  BY <1>1, <1>2, <2>2 DEF bh
<1>6. a - b = 2 * n - d
  BY DEF a, b
<1>. QED  BY <1>2, <1>3, <1>4, <1>5, <1>6 DEF a, h

\* Nothing else is as near.
LEMMA HalfUpUnique ==
  ASSUME NEW x \in Int, NEW y \in Int, NEW d \in Nat \ {0}, NEW m \in Int, NEW n \in Int, m <= n,
         2 * (d * x) <= 2 * m + d, 2 * n - d < 2 * (d * y)
  PROVE  x <= y
<1>. SUFFICES ASSUME y + 1 <= x PROVE FALSE
  OBVIOUS
<1>1. d * (y + 1) <= d * x
  OBVIOUS
<1>2. d * (y + 1) = d * y + d
  OBVIOUS
<1>. DEFINE dx == d * x
            dy == d * y
<1>3. dx \in Int /\ dy \in Int /\ dy + d <= dx
  BY <1>1, <1>2
<1>. HIDE DEF dx, dy
<1>4. 2 * dx <= 2 * m + d /\ 2 * n - d < 2 * dy
  BY DEF dx, dy
<1>. QED  BY <1>3, <1>4

\* Rounding the cash and the shares apart, as compute_equity does
\* (leaderboard_service.py:99-101), gives what rounding their sum gives, as
\* _equity_for does (league_service.py:258), to one money unit.
THEOREM TwoRoundings ==
  ASSUME NEW m \in Int, NEW n \in Int, NEW d \in Nat \ {0}
  PROVE  HalfUp(m + n, d) - (HalfUp(m, d) + HalfUp(n, d)) \in {-1, 0, 1}
<1>. DEFINE x == HalfUp(m + n, d)
            y == HalfUp(m, d)
            z == HalfUp(n, d)
            e == x - (y + z)
<1>1. /\ x \in Int /\ 2 * (m + n) - d < 2 * (d * x) /\ 2 * (d * x) <= 2 * (m + n) + d
      /\ y \in Int /\ 2 * m - d < 2 * (d * y) /\ 2 * (d * y) <= 2 * m + d
      /\ z \in Int /\ 2 * n - d < 2 * (d * z) /\ 2 * (d * z) <= 2 * n + d
  BY HalfUpNearest
<1>. HIDE DEF x, y, z
<1>2. e \in Int /\ d * e \in Int /\ d * e = d * x - (d * y + d * z)
  BY <1>1
<1>. HIDE DEF e
<1>3. 2 * (d * e) < 3 * d /\ -(3 * d) < 2 * (d * e)
  <2>. DEFINE dx == d * x   dy == d * y   dz == d * z   de == d * e
  <2>1. /\ dx \in Int /\ dy \in Int /\ dz \in Int /\ de \in Int /\ de = dx - (dy + dz)
        /\ 2 * (m + n) - d < 2 * dx /\ 2 * dx <= 2 * (m + n) + d
        /\ 2 * m - d < 2 * dy /\ 2 * dy <= 2 * m + d
        /\ 2 * n - d < 2 * dz /\ 2 * dz <= 2 * n + d
    BY <1>1, <1>2
  <2>. HIDE DEF dx, dy, dz, de
  <2>2. 2 * de < 3 * d /\ -(3 * d) < 2 * de
    BY <2>1
  <2>. QED  BY <2>2 DEF de
<1>4. ~(2 <= e)
  <2>. SUFFICES ASSUME 2 <= e PROVE FALSE
    OBVIOUS
  <2>1. d * 2 <= d * e
    BY <1>2
  <2>. QED  BY <1>2, <1>3, <2>1
<1>5. ~(e <= -2)
  <2>. SUFFICES ASSUME e <= -2 PROVE FALSE
    OBVIOUS
  <2>1. d * e <= d * (-2)
    BY <1>2
  <2>. QED  BY <1>2, <1>3, <2>1
<1>6. e \in {-1, 0, 1}
  BY <1>2, <1>4, <1>5
<1>. QED  BY <1>6 DEF e, x, y, z

\* quantize_money of an amount that is not negative is a natural number.
LEMMA HalfUpNat ==
  ASSUME NEW n \in Nat, NEW d \in Nat \ {0}
  PROVE  HalfUp(n, d) \in Nat
<1>1. HalfUp(n, d) \in Int /\ 2 * n - d < 2 * (d * HalfUp(n, d))
  BY HalfUpNearest
<1>. DEFINE h == HalfUp(n, d)
<1>. HIDE DEF h
<1>2. SUFFICES ASSUME h <= -1 PROVE FALSE
  BY <1>1 DEF h
<1>3. h \in Int /\ 2 * n - d < 2 * (d * h)
  BY <1>1 DEF h
<1>4. d * h <= d * (-1)
  BY <1>2, <1>3
<1>5. d * h \in Int /\ d * (-1) = -d
  BY <1>3
<1>. QED  BY <1>3, <1>4, <1>5

-----------------------------------------------------------------------------
(* Trades *)

\* Sold at the bid, valued at the quote, bought at the ask: in this order, and
\* the value at the quote is exact to half a unit.
LEMMA SpreadOrder ==
  ASSUME NEW p \in Nat, NEW q \in Nat
  PROVE  /\ SellProceeds(p, q) \in Nat /\ MarketValue(p, q) \in Nat /\ BuyCost(p, q) \in Nat
         /\ SellProceeds(p, q) <= MarketValue(p, q) /\ MarketValue(p, q) <= BuyCost(p, q)
         /\ 2 * (QtyScale * MarketValue(p, q)) <= 2 * (p * q) + QtyScale
         /\ 2 * (p * q) - QtyScale < 2 * (QtyScale * MarketValue(p, q))
<1>. DEFINE n == p * q
            d == Bps * QtyScale
            ask == p * (Bps + HalfSpread) * q
            bid == p * (Bps - HalfSpread) * q
            v == MarketValue(p, q)
<1>1. QtyScale \in Nat \ {0} /\ HalfSpread \in 0 .. 4999 /\ Bps = 10000
  BY ScaleAssumption, SpreadAssumption DEF Bps
<1>2. n \in Nat /\ d \in Nat \ {0}
  BY <1>1
<1>3. ask = Bps * n + HalfSpread * n /\ bid = Bps * n - HalfSpread * n
  <2>1. HalfSpread \in Int /\ Bps \in Int
    BY <1>1
  <2>. QED  BY <2>1
<1>4. HalfSpread * n \in Nat /\ HalfSpread * n <= Bps * n
  <2>1. HalfSpread \in Nat /\ Bps - HalfSpread \in Nat
    BY <1>1
  <2>2. (Bps - HalfSpread) * n \in Nat
    BY <1>2, <2>1
  <2>3. (Bps - HalfSpread) * n = Bps * n - HalfSpread * n
    BY <1>1, <1>2
  <2>. QED  BY <1>1, <1>2, <2>1, <2>2, <2>3
<1>5. Bps * n \in Nat /\ ask \in Nat /\ bid \in Nat /\ bid <= Bps * n /\ Bps * n <= ask
  <2>. DEFINE hn == HalfSpread * n
              bn == Bps * n
  <2>1. hn \in Nat /\ bn \in Nat /\ hn <= bn /\ ask = bn + hn /\ bid = bn - hn
    BY <1>1, <1>2, <1>3, <1>4
  <2>. HIDE DEF hn, bn, ask, bid
  <2>2. bid <= bn /\ bn <= ask /\ ask \in Nat /\ bid \in Nat
    BY <2>1
  <2>. QED  BY <2>1, <2>2 DEF bn
<1>6. v \in Nat /\ 2 * (QtyScale * v) <= 2 * n + QtyScale /\ 2 * n - QtyScale < 2 * (QtyScale * v)
  BY <1>1, <1>2, HalfUpNearest, HalfUpNat DEF MarketValue
<1>7. 2 * (d * v) <= 2 * (Bps * n) + d /\ 2 * (Bps * n) - d < 2 * (d * v)
  <2>1. d * v = Bps * (QtyScale * v)
    BY <1>1, <1>6
  <2>2. QtyScale * v \in Int
    BY <1>1, <1>6
  <2>. DEFINE sv == QtyScale * v
  <2>. HIDE DEF sv, v, n
  <2>3. sv \in Int /\ 2 * sv <= 2 * n + QtyScale /\ 2 * n - QtyScale < 2 * sv /\ d * v = 10000 * sv
    BY <1>1, <1>6, <2>1, <2>2 DEF sv
  <2>. QED  BY <1>1, <1>2, <2>3
<1>8. /\ SellProceeds(p, q) = HalfUp(bid, d) /\ BuyCost(p, q) = HalfUp(ask, d)
  BY DEF SellProceeds, BuyCost
<1>. HIDE DEF n, d, ask, bid, v
<1>9. /\ HalfUp(bid, d) \in Nat /\ 2 * (d * HalfUp(bid, d)) <= 2 * bid + d
      /\ HalfUp(ask, d) \in Nat /\ 2 * ask - d < 2 * (d * HalfUp(ask, d))
  BY <1>2, <1>5, HalfUpNearest, HalfUpNat
<1>10. HalfUp(bid, d) <= v
  BY <1>2, <1>5, <1>6, <1>7, <1>9, HalfUpUnique
<1>11. v <= HalfUp(ask, d)
  BY <1>2, <1>5, <1>6, <1>7, <1>9, HalfUpUnique
<1>. QED  BY <1>6, <1>8, <1>9, <1>10, <1>11 DEF v, n

-----------------------------------------------------------------------------
(* Conversions *)

\* A conversion gains at most half a unit of each currency.
LEMMA ConversionGain ==
  ASSUME NEW b \in Nat, NEW a \in Nat \ {0}, NEW num \in Nat, NEW den \in Nat \ {0},
         b * AmountScale >= a
  PROVE  /\ Net(Gross(a, num, den)) \in Int /\ Debited(b, a) \in 0 .. b
         /\ 2 * ((Debited(b, a) - b) * num + Net(Gross(a, num, den)) * den) <= num + den
<1>. DEFINE g == Gross(a, num, den)
            c == Net(g)
            e == Debited(b, a)
            s == AmountScale
<1>1. s \in Nat \ {0}
  BY AmountScaleAssumption
<1>2. s * den \in Nat \ {0} /\ a * num \in Nat
  BY <1>1
<1>3. g \in Nat /\ 2 * ((s * den) * g) <= 2 * (a * num) + s * den
  <2>. DEFINE n == a * num
              d == s * den
  <2>1. n \in Nat /\ d \in Nat \ {0}
    BY <1>2
  <2>2. g = HalfUp(n, d)
    BY DEF Gross
  <2>. HIDE DEF n, d, g
  <2>3. g \in Nat /\ 2 * (d * g) <= 2 * n + d
    BY <2>1, <2>2, HalfUpNearest, HalfUpNat
  <2>. QED  BY <2>3 DEF n, d
<1>4. c \in Int /\ c <= g
  <2>1. FxSpread \in Nat /\ Bps \in Nat \ {0}
    BY SpreadAssumption DEF Bps
  <2>2. g * FxSpread \in Nat
    BY <1>3, <2>1
  <2>3. FxFee(g) \in Nat
    BY <2>1, <2>2, HalfUpNat DEF FxFee
  <2>. HIDE DEF g
  <2>. QED  BY <1>3, <2>3 DEF Net
<1>5. e \in Nat /\ 2 * (s * e) <= 2 * (b * s - a) + s
  <2>1. b * s - a \in Nat
    BY <1>1
  <2>. QED  BY <1>1, <2>1, HalfUpNearest, HalfUpNat DEF Debited, Column
<1>. HIDE DEF g, c, e, s
<1>6. 2 * (s * (e - b)) <= s - 2 * a
  <2>1. s * (e - b) = s * e - b * s
    BY <1>1, <1>5
  <2>2. s * e \in Int /\ b * s \in Int
    BY <1>1, <1>5
  <2>. QED  BY <1>1, <1>5, <2>1, <2>2
<1>7. 2 * ((s * (e - b)) * num) <= (s - 2 * a) * num
  <2>. DEFINE x == s * (e - b)
              y == s - 2 * a
  <2>1. x \in Int /\ y \in Int /\ 2 * x <= y
    BY <1>1, <1>5, <1>6
  <2>. HIDE DEF x, y
  <2>2. (2 * x) * num <= y * num
    BY <2>1
  <2>3. (2 * x) * num = 2 * (x * num)
    BY <2>1
  <2>. QED  BY <2>2, <2>3 DEF x, y
<1>8. (s * den) * c <= (s * den) * g
  BY <1>2, <1>3, <1>4
<1>. DEFINE k == (e - b) * num + c * den
<1>9. s * (2 * k) <= s * (num + den)
  <2>1. s * (2 * k) = 2 * ((s * (e - b)) * num) + 2 * ((s * den) * c)
    BY <1>1, <1>4, <1>5
  <2>2. (s - 2 * a) * num = s * num - 2 * (a * num)
    BY <1>1
  <2>3. s * (num + den) = s * num + s * den
    BY <1>1
  <2>4. /\ (s * (e - b)) * num \in Int /\ (s * den) * c \in Int /\ (s * den) * g \in Int
        /\ s * num \in Int /\ s * den \in Int /\ a * num \in Int
    BY <1>1, <1>3, <1>4, <1>5
  <2>. DEFINE x == (s * (e - b)) * num
              y == (s * den) * c
              z == (s * den) * g
              sn == s * num
              sd == s * den
              an == a * num
  <2>5. /\ x \in Int /\ y \in Int /\ z \in Int /\ sn \in Int /\ sd \in Int /\ an \in Int
        /\ 2 * x <= sn - 2 * an /\ y <= z /\ 2 * z <= 2 * an + sd
        /\ s * (2 * k) = 2 * x + 2 * y /\ s * (num + den) = sn + sd
    BY <1>3, <1>7, <1>8, <2>1, <2>2, <2>3, <2>4
  <2>. HIDE DEF x, y, z, sn, sd, an, k
  <2>. QED  BY <2>5
<1>10. k \in Int
  BY <1>4, <1>5
<1>. HIDE DEF k
<1>11. 2 * k <= num + den
  <2>. SUFFICES ASSUME num + den + 1 <= 2 * k PROVE FALSE
    BY <1>10
  <2>1. s * (num + den + 1) <= s * (2 * k)
    BY <1>1, <1>10
  <2>2. s * (num + den + 1) = s * (num + den) + s
    BY <1>1
  <2>3. s * (num + den) \in Int /\ s * (2 * k) \in Int
    BY <1>1, <1>10
  <2>. QED  BY <1>1, <1>9, <2>1, <2>2, <2>3
<1>12. e <= b
  <2>. SUFFICES ASSUME b + 1 <= e PROVE FALSE
    BY <1>5
  <2>1. s * 1 <= s * (e - b)
    BY <1>1, <1>5
  <2>2. s * (e - b) \in Int
    BY <1>1, <1>5
  <2>. QED  BY <1>1, <1>6, <2>1, <2>2
<1>. QED  BY <1>4, <1>5, <1>11, <1>12 DEF k, g, c, e

-----------------------------------------------------------------------------
(* Every operation *)

\* The inductive invariant.
EconomyInv == EconomyTypeOK /\ DriftBounded

\* What the user owns at the quote and the rate gains in one operation.
Gained == ((dollars' - dollars) * QtyScale + quote * (qty' - qty)) * OtherNum
            + (other' - other) * QtyScale * OtherDen

EconomyScales ==
  /\ QtyScale \in Nat \ {0} /\ OtherNum \in Nat \ {0} /\ OtherDen \in Nat \ {0}
  /\ RateScale \in Nat \ {0} /\ Stake \in Nat /\ MaxOps \in Nat /\ Quotes \subseteq Nat

LEMMA ScalesGiven == EconomyScales
BY ScaleAssumption, RateAssumption, AmountAssumption DEF EconomyScales

\* An operation moves the drift by twice what it gains, less a unit of each
\* currency.
LEMMA DriftMoves ==
  ASSUME EconomyTypeOK, Operation, dollars' \in Nat, other' \in Nat, qty' \in Nat
  PROVE  /\ Gained \in Int /\ Drift \in Int /\ QtyScale * (OtherNum + OtherDen) \in Int
         /\ Drift' = Drift + 2 * Gained - QtyScale * (OtherNum + OtherDen)
<1>. DEFINE s == QtyScale
            n == OtherNum
            d == OtherDen
            p == quote
<1>1. s \in Nat \ {0} /\ n \in Nat \ {0} /\ d \in Nat \ {0} /\ Stake \in Nat
  BY ScalesGiven DEF EconomyScales
<1>2. p \in Nat /\ dollars \in Nat /\ other \in Nat /\ qty \in Nat /\ ops \in Nat
  BY AmountAssumption DEF EconomyTypeOK
<1>3. ops' = ops + 1 /\ quote' = quote
  BY DEF Operation
<1>. DEFINE w  == (dollars * s + p * qty) * n + other * s * d
            w2 == (dollars' * s + p * qty') * n + other' * s * d
            gain == ((dollars' - dollars) * s + p * (qty' - qty)) * n + (other' - other) * s * d
            unit == s * (n + d)
            base == 2 * Stake * s * n
<1>5. w2 = w + gain
  <2>1. (dollars' - dollars) * s = dollars' * s - dollars * s /\ p * (qty' - qty) = p * qty' - p * qty
        /\ (other' - other) * s * d = other' * s * d - other * s * d
    BY <1>1, <1>2
  <2>2. /\ dollars' * s \in Int /\ dollars * s \in Int /\ p * qty' \in Int /\ p * qty \in Int
        /\ other' * s * d \in Int /\ other * s * d \in Int
    BY <1>1, <1>2
  <2>. DEFINE a == dollars * s
              a2 == dollars' * s
              b == p * qty
              b2 == p * qty'
              c == other * s * d
              c2 == other' * s * d
  <2>3. gain = ((a2 - a) + (b2 - b)) * n + (c2 - c) /\ w = (a + b) * n + c /\ w2 = (a2 + b2) * n + c2
    BY <2>1
  <2>4. a \in Int /\ a2 \in Int /\ b \in Int /\ b2 \in Int /\ c \in Int /\ c2 \in Int
    BY <2>2
  <2>. HIDE DEF a, a2, b, b2, c, c2, w, w2, gain
  <2>5. ((a2 - a) + (b2 - b)) * n = (a2 + b2) * n - (a + b) * n
    BY <1>1, <2>4
  <2>6. (a2 + b2) * n \in Int /\ (a + b) * n \in Int
    BY <1>1, <2>4
  <2>. QED  BY <2>3, <2>4, <2>5, <2>6
<1>6. ops' * unit = ops * unit + unit
  <2>1. unit \in Int
    BY <1>1
  <2>. HIDE DEF unit
  <2>. QED  BY <1>2, <1>3, <2>1
<1>7. w \in Int /\ gain \in Int /\ unit \in Int /\ base \in Int /\ ops * unit \in Int
  BY <1>1, <1>2
<1>9. Drift = 2 * w - base - ops * unit
  <2>1. ops * QtyScale * (OtherNum + OtherDen) = ops * unit
    BY <1>1, <1>2
  <2>. QED  BY <2>1 DEF Drift, Worth
<1>10. Drift' = 2 * w2 - base - ops' * unit
  <2>1. ops' * QtyScale * (OtherNum + OtherDen) = ops' * unit
    BY <1>1, <1>2, <1>3
  <2>. QED  BY <1>3, <2>1 DEF Drift, Worth
<1>11. Gained = gain
  BY DEF Gained
<1>. DEFINE ou == ops * unit
<1>. HIDE DEF w, w2, gain, base
<1>12. ou \in Int /\ ops' * unit = ou + unit
  BY <1>6, <1>7
<1>13. unit = QtyScale * (OtherNum + OtherDen)
  OBVIOUS
<1>. HIDE DEF ou, unit
<1>14. Drift = 2 * w - base - ou /\ Drift' = 2 * w2 - base - (ou + unit)
  BY <1>9, <1>10, <1>12 DEF ou
<1>. QED  BY <1>5, <1>7, <1>11, <1>12, <1>13, <1>14

\* One operation keeps the bound if it gains at most half a unit of each
\* currency, and half a unit of the rate's column for what it converts back.
LEMMA DriftStep ==
  ASSUME EconomyTypeOK, Operation, dollars' \in Nat, other' \in Nat, qty' \in Nat, turned' \in Nat,
         2 * (RateScale * (2 * Gained - QtyScale * (OtherNum + OtherDen)))
           <= QtyScale * OtherNum * (2 * (turned' - turned) + 1)
  PROVE  EconomyTypeOK' /\ (DriftBounded => DriftBounded')
<1>1. /\ QtyScale \in Nat \ {0} /\ OtherNum \in Nat \ {0} /\ RateScale \in Nat \ {0} /\ MaxOps \in Nat
  BY ScalesGiven DEF EconomyScales
<1>2. turned \in Nat /\ ops \in Nat /\ ops < MaxOps /\ ops' = ops + 1 /\ quote' = quote
  BY <1>1 DEF EconomyTypeOK, Operation
<1>3. EconomyTypeOK'
  BY <1>1, <1>2 DEF EconomyTypeOK
<1>. DEFINE sn == QtyScale * OtherNum
            m == 2 * Gained - QtyScale * (OtherNum + OtherDen)
            t == 2 * turned + ops
            u == 2 * (turned' - turned) + 1
<1>4. sn \in Nat /\ m \in Int /\ t \in Int /\ u \in Int /\ Drift \in Int /\ Drift' = Drift + m
  BY <1>1, <1>2, DriftMoves
<1>5. 2 * turned' + ops' = t + u
  BY <1>2
<1>6. 2 * (RateScale * m) <= sn * u
  OBVIOUS
<1>7. (DriftBounded <=> 2 * RateScale * Drift <= sn * t)
      /\ (DriftBounded' <=> 2 * RateScale * Drift' <= sn * (2 * turned' + ops'))
  BY DEF DriftBounded
<1>. HIDE DEF sn, m, t, u
<1>8. sn * (t + u) = sn * t + sn * u /\ sn * t \in Int /\ sn * u \in Int
  BY <1>4
<1>9. /\ 2 * RateScale * (Drift + m) = 2 * RateScale * Drift + 2 * (RateScale * m)
      /\ 2 * RateScale * Drift \in Int /\ RateScale * m \in Int
  BY <1>1, <1>4
<1>. DEFINE x == 2 * RateScale * Drift
            y == RateScale * m
            v == sn * t
            z == sn * u
<1>10. /\ x \in Int /\ y \in Int /\ v \in Int /\ z \in Int /\ 2 * y <= z
       /\ (DriftBounded <=> x <= v) /\ (DriftBounded' <=> x + 2 * y <= v + z)
  BY <1>4, <1>5, <1>6, <1>7, <1>8, <1>9
<1>. HIDE DEF x, y, v, z
<1>. QED  BY <1>3, <1>10

\* A trade or a conversion out converts nothing back.
LEMMA PlainStep ==
  ASSUME EconomyInv, Operation, dollars' \in Nat, other' \in Nat, qty' \in Nat, turned' = turned,
         2 * Gained <= QtyScale * (OtherNum + OtherDen)
  PROVE  EconomyInv'
<1>. DEFINE m == 2 * Gained - QtyScale * (OtherNum + OtherDen)
<1>1. EconomyTypeOK /\ turned \in Nat /\ RateScale \in Nat /\ QtyScale * OtherNum \in Nat
  BY ScalesGiven DEF EconomyInv, EconomyTypeOK, EconomyScales
<1>2. m \in Int /\ m <= 0
  BY <1>1, DriftMoves
<1>3. 2 * (RateScale * m) <= 0
  <2>. HIDE DEF m
  <2>1. RateScale * m <= RateScale * 0 /\ RateScale * m \in Int
    BY <1>1, <1>2
  <2>. QED  BY <1>1, <2>1
<1>4. QtyScale * OtherNum * (2 * (turned' - turned) + 1) = QtyScale * OtherNum
  BY <1>1
<1>5. 2 * (RateScale * m) <= QtyScale * OtherNum * (2 * (turned' - turned) + 1)
  <2>. DEFINE y == RateScale * m
              z == QtyScale * OtherNum
  <2>1. y \in Int /\ z \in Nat /\ 2 * y <= 0
    BY <1>1, <1>2, <1>3
  <2>. HIDE DEF y, z, m
  <2>2. 2 * y <= z
    BY <2>1
  <2>. QED  BY <1>4, <2>2 DEF y, z
<1>. QED  BY <1>1, <1>5, DriftStep DEF EconomyInv

\* A trade moves the value at the quote between the two places it is kept, and
\* loses the spread.
LEMMA TradeGain ==
  ASSUME NEW x \in Int, NEW y \in Int, 2 * (x * QtyScale + y) <= QtyScale
  PROVE  2 * ((x * QtyScale + y) * OtherNum) <= QtyScale * (OtherNum + OtherDen)
<1>. DEFINE z == x * QtyScale + y
<1>1. QtyScale \in Nat /\ OtherNum \in Nat /\ OtherDen \in Nat
  BY ScaleAssumption, RateAssumption
<1>2. z \in Int
  BY <1>1
<1>3. 2 * z <= QtyScale
  OBVIOUS
<1>. HIDE DEF z
<1>4. (2 * z) * OtherNum <= QtyScale * OtherNum
  BY <1>1, <1>2, <1>3
<1>5. (2 * z) * OtherNum = 2 * (z * OtherNum)
  BY <1>1, <1>2
<1>6. QtyScale * (OtherNum + OtherDen) = QtyScale * OtherNum + QtyScale * OtherDen
      /\ QtyScale * OtherNum \in Nat /\ QtyScale * OtherDen \in Nat
  BY <1>1
<1>7. z * OtherNum \in Int
  BY <1>1, <1>2
<1>. QED  BY <1>4, <1>5, <1>6, <1>7 DEF z

\* A buy keeps the inductive invariant: it loses the spread and gains at most
\* half a unit by rounding.
LEMMA BuyKeeps ==
  ASSUME EconomyInv, BuyStock
  PROVE  EconomyInv'
<1>1. PICK q \in Lots :
        /\ Operation /\ dollars >= BuyCost(quote, q)
        /\ dollars' = dollars - BuyCost(quote, q) /\ qty' = qty + q /\ other' = other
        /\ turned' = turned
  BY DEF BuyStock, Affords
<1>2. quote \in Nat /\ q \in Nat /\ dollars \in Nat /\ other \in Nat /\ qty \in Nat
  BY AmountAssumption DEF EconomyInv, EconomyTypeOK
<1>. DEFINE b == BuyCost(quote, q)
            v == MarketValue(quote, q)
<1>3. /\ b \in Nat /\ v \in Nat /\ v <= b
      /\ 2 * (quote * q) - QtyScale < 2 * (QtyScale * v)
  BY <1>2, SpreadOrder
<1>. HIDE DEF b, v
<1>4. QtyScale \in Nat \ {0} /\ OtherNum \in Nat /\ OtherDen \in Nat
  BY ScaleAssumption, RateAssumption
<1>5. QtyScale * v <= QtyScale * b
  BY <1>3, <1>4
<1>6. dollars' - dollars = -b /\ qty' - qty = q /\ other' - other = 0 /\ dollars' \in Nat /\ qty' \in Nat
  BY <1>1, <1>2, <1>3 DEF b
<1>7. 2 * ((-b) * QtyScale + quote * q) <= QtyScale
  <2>1. (-b) * QtyScale = -(QtyScale * b)
    BY <1>3, <1>4
  <2>2. QtyScale * b \in Int /\ QtyScale * v \in Int /\ quote * q \in Int
    BY <1>2, <1>3, <1>4
  <2>. QED  BY <1>3, <1>4, <1>5, <2>1, <2>2
<1>8. 2 * (((-b) * QtyScale + quote * q) * OtherNum) <= QtyScale * (OtherNum + OtherDen)
  <2>1. -b \in Int /\ quote * q \in Int
    BY <1>2, <1>3
  <2>. QED  BY <1>7, <2>1, TradeGain
<1>9. 0 * QtyScale * OtherDen = 0
  BY <1>4
<1>10. ((-b) * QtyScale + quote * q) * OtherNum \in Int
  BY <1>2, <1>3, <1>4
<1>11. 2 * (((dollars' - dollars) * QtyScale + quote * (qty' - qty)) * OtherNum
            + (other' - other) * QtyScale * OtherDen) <= QtyScale * (OtherNum + OtherDen)
  <2>. DEFINE g == ((-b) * QtyScale + quote * q) * OtherNum
  <2>1. ((dollars' - dollars) * QtyScale + quote * (qty' - qty)) * OtherNum = g
    BY <1>6
  <2>2. (other' - other) * QtyScale * OtherDen = 0
    BY <1>6, <1>9
  <2>3. g \in Int /\ 2 * g <= QtyScale * (OtherNum + OtherDen)
    BY <1>8, <1>10
  <2>. HIDE DEF g
  <2>4. 2 * (g + 0) <= QtyScale * (OtherNum + OtherDen)
    BY <2>3
  <2>. QED  BY <2>1, <2>2, <2>4
<1>. QED  BY <1>1, <1>2, <1>6, <1>11, PlainStep DEF Gained

\* A sale keeps the inductive invariant, whatever quantity is split off.
LEMMA SellKeeps ==
  ASSUME EconomyInv, SellStock
  PROVE  EconomyInv'
<1>1. PICK q \in Lots :
        /\ Operation /\ qty >= q
        /\ dollars' = dollars + SellProceeds(quote, q) /\ qty' = qty - q /\ other' = other
        /\ turned' = turned
  BY DEF SellStock
<1>2. quote \in Nat /\ q \in Nat /\ dollars \in Nat /\ other \in Nat /\ qty \in Nat
  BY AmountAssumption DEF EconomyInv, EconomyTypeOK
<1>. DEFINE b == SellProceeds(quote, q)
            v == MarketValue(quote, q)
<1>3. /\ b \in Nat /\ v \in Nat /\ b <= v
      /\ 2 * (QtyScale * v) <= 2 * (quote * q) + QtyScale
  BY <1>2, SpreadOrder
<1>. HIDE DEF b, v
<1>4. QtyScale \in Nat \ {0} /\ OtherNum \in Nat /\ OtherDen \in Nat
  BY ScaleAssumption, RateAssumption
<1>5. QtyScale * b <= QtyScale * v
  BY <1>3, <1>4
<1>6. dollars' - dollars = b /\ qty' - qty = -q /\ other' - other = 0 /\ dollars' \in Nat /\ qty' \in Nat
  BY <1>1, <1>2, <1>3 DEF b
<1>7. 2 * (b * QtyScale + quote * (-q)) <= QtyScale
  <2>1. b * QtyScale = QtyScale * b /\ quote * (-q) = -(quote * q)
    BY <1>2, <1>3, <1>4
  <2>2. QtyScale * b \in Int /\ QtyScale * v \in Int /\ quote * q \in Int
    BY <1>2, <1>3, <1>4
  <2>. QED  BY <1>3, <1>4, <1>5, <2>1, <2>2
<1>8. 2 * ((b * QtyScale + quote * (-q)) * OtherNum) <= QtyScale * (OtherNum + OtherDen)
  <2>1. b \in Int /\ quote * (-q) \in Int
    BY <1>2, <1>3
  <2>. QED  BY <1>7, <2>1, TradeGain
<1>9. 0 * QtyScale * OtherDen = 0
  BY <1>4
<1>10. (b * QtyScale + quote * (-q)) * OtherNum \in Int
  BY <1>2, <1>3, <1>4
<1>11. 2 * (((dollars' - dollars) * QtyScale + quote * (qty' - qty)) * OtherNum
            + (other' - other) * QtyScale * OtherDen) <= QtyScale * (OtherNum + OtherDen)
  <2>. DEFINE g == (b * QtyScale + quote * (-q)) * OtherNum
  <2>1. ((dollars' - dollars) * QtyScale + quote * (qty' - qty)) * OtherNum = g
    BY <1>6
  <2>2. (other' - other) * QtyScale * OtherDen = 0
    BY <1>6, <1>9
  <2>3. g \in Int /\ 2 * g <= QtyScale * (OtherNum + OtherDen)
    BY <1>8, <1>10
  <2>. HIDE DEF g
  <2>4. 2 * (g + 0) <= QtyScale * (OtherNum + OtherDen)
    BY <2>3
  <2>. QED  BY <2>1, <2>2, <2>4
<1>. QED  BY <1>1, <1>2, <1>6, <1>11, PlainStep DEF Gained

\* A conversion out of USD keeps the inductive invariant.
LEMMA ConvertOutKeeps ==
  ASSUME EconomyInv, ConvertOut
  PROVE  EconomyInv'
<1>1. PICK a \in Amounts :
        /\ Operation /\ dollars * AmountScale >= a /\ Net(Gross(a, OtherNum, OtherDen)) > 0
        /\ dollars' = Debited(dollars, a) /\ other' = other + Net(Gross(a, OtherNum, OtherDen))
        /\ qty' = qty /\ turned' = turned
  BY DEF ConvertOut
<1>2. quote \in Nat /\ a \in Nat \ {0} /\ dollars \in Nat /\ other \in Nat /\ qty \in Nat
  BY AmountAssumption DEF EconomyInv, EconomyTypeOK
<1>3. OtherNum \in Nat \ {0} /\ OtherDen \in Nat \ {0} /\ QtyScale \in Nat \ {0}
  BY ScaleAssumption, RateAssumption
<1>. DEFINE c == Net(Gross(a, OtherNum, OtherDen))
            e == Debited(dollars, a)
<1>4. /\ c \in Int /\ e \in 0 .. dollars /\ c > 0
      /\ 2 * ((e - dollars) * OtherNum + c * OtherDen) <= OtherNum + OtherDen
  BY <1>1, <1>2, <1>3, ConversionGain
<1>5. dollars' - dollars = e - dollars /\ qty' - qty = 0 /\ other' - other = c
  BY <1>1, <1>2, <1>4
<1>6. dollars' \in Nat /\ other' \in Nat /\ qty' \in Nat
  BY <1>1, <1>2, <1>4
<1>. HIDE DEF c, e
<1>7. 2 * (((e - dollars) * QtyScale + quote * 0) * OtherNum + c * QtyScale * OtherDen)
        <= QtyScale * (OtherNum + OtherDen)
  <2>. DEFINE k == (e - dollars) * OtherNum + c * OtherDen
  <2>1. k \in Int /\ 2 * k <= OtherNum + OtherDen
    BY <1>2, <1>3, <1>4
  <2>2. ((e - dollars) * QtyScale + quote * 0) * OtherNum + c * QtyScale * OtherDen = QtyScale * k
    BY <1>2, <1>3, <1>4
  <2>. HIDE DEF k
  <2>3. QtyScale * (2 * k) <= QtyScale * (OtherNum + OtherDen)
    BY <1>3, <2>1
  <2>4. QtyScale * (2 * k) = 2 * (QtyScale * k)
    BY <1>3, <2>1
  <2>. QED  BY <2>2, <2>3, <2>4
<1>8. 2 * Gained <= QtyScale * (OtherNum + OtherDen)
  BY <1>5, <1>7 DEF Gained
<1>. QED  BY <1>1, <1>6, <1>8, PlainStep

\* A conversion back into USD, at the reciprocal that the column stores, keeps
\* the inductive invariant: the column errs by half a unit of its scale at
\* most, and so does every unit that is converted.
LEMMA ConvertBackKeeps ==
  ASSUME EconomyInv, ConvertBack
  PROVE  EconomyInv'
<1>1. PICK a \in Amounts :
        /\ Operation /\ other * AmountScale >= a /\ Net(Gross(a, ReverseNum, RateScale)) > 0
        /\ other' = Debited(other, a)
        /\ dollars' = dollars + Net(Gross(a, ReverseNum, RateScale))
        /\ turned' = turned + other - other' /\ qty' = qty
  BY DEF ConvertBack
<1>2. quote \in Nat /\ a \in Nat \ {0} /\ dollars \in Nat /\ other \in Nat /\ qty \in Nat /\ turned \in Nat
  BY AmountAssumption DEF EconomyInv, EconomyTypeOK
<1>. DEFINE s == QtyScale
            n == OtherNum
            d == OtherDen
            q == RateScale
            r == ReverseNum
            c == Net(Gross(a, r, q))
            e == Debited(other, a)
            m == other - e
<1>3. n \in Nat \ {0} /\ d \in Nat \ {0} /\ s \in Nat \ {0} /\ q \in Nat \ {0}
  BY ScalesGiven DEF EconomyScales
<1>4. r \in Nat /\ 2 * (n * r) <= 2 * (q * d) + n
  <2>. DEFINE qd == q * d
  <2>1. qd \in Nat /\ r = HalfUp(qd, n)
    BY <1>3 DEF ReverseNum
  <2>. HIDE DEF qd, r, n
  <2>2. r \in Nat /\ 2 * (n * r) <= 2 * qd + n
    BY <1>3, <2>1, HalfUpNearest, HalfUpNat
  <2>. QED  BY <2>2 DEF qd
<1>5. /\ c \in Int /\ e \in 0 .. other /\ c > 0
      /\ 2 * ((e - other) * r + c * q) <= r + q
  <2>. HIDE DEF r, q
  <2>. QED  BY <1>1, <1>2, <1>3, <1>4, ConversionGain DEF r, q
<1>6. m \in Nat /\ e - other = -m
  BY <1>2, <1>5
<1>7. dollars' - dollars = c /\ qty' - qty = 0 /\ other' - other = -m /\ turned' - turned = m
  BY <1>1, <1>2, <1>5
<1>8. dollars' \in Nat /\ other' \in Nat /\ qty' \in Nat /\ turned' \in Nat
  BY <1>1, <1>2, <1>5
<1>. HIDE DEF c, e, m, r, q, n, d, s
<1>9. 2 * (c * q) <= q + r * (2 * m + 1)
  <2>1. (e - other) * r = -(m * r) /\ r * (2 * m + 1) = 2 * (m * r) + r
    BY <1>4, <1>6
  <2>2. m * r \in Int /\ c * q \in Int
    BY <1>3, <1>4, <1>5, <1>6
  <2>. DEFINE mr == m * r
              cq == c * q
  <2>3. mr \in Int /\ cq \in Int /\ 2 * ((-mr) + cq) <= r + q
    BY <1>5, <2>1, <2>2
  <2>. HIDE DEF mr, cq
  <2>4. 2 * cq <= q + (2 * mr + r)
    BY <1>3, <1>4, <2>3
  <2>. QED  BY <2>1, <2>4 DEF mr, cq
<1>10. 2 * (r * (2 * m + 1) * n) <= (2 * (q * d) + n) * (2 * m + 1)
  <2>. DEFINE k == 2 * m + 1
              x == 2 * (n * r)
              y == 2 * (q * d) + n
  <2>1. k \in Nat /\ x \in Int /\ y \in Int /\ x <= y
    BY <1>3, <1>4, <1>6
  <2>2. 2 * (r * k * n) = x * k
    BY <1>3, <1>4, <2>1
  <2>. HIDE DEF x, y, k
  <2>3. x * k <= y * k
    BY <2>1
  <2>. QED  BY <2>2, <2>3 DEF y, k
<1>. DEFINE g == c * n - m * d
<1>11. 2 * (q * (2 * g - (n + d))) <= n * (2 * m + 1)
  <2>. DEFINE k == 2 * m + 1
              rk == r * k
              cqn == c * q * n
              rkn == rk * n
              qn == q * n
              qd == q * d
              mqd == m * qd
              nk == n * k
  <2>1. k \in Nat /\ rk \in Int /\ c * q \in Int
    BY <1>3, <1>4, <1>5, <1>6
  <2>2. 2 * (c * q) * n <= (q + rk) * n
    <3>. DEFINE x == 2 * (c * q)
                y == q + rk
    <3>1. x \in Int /\ y \in Int /\ x <= y
      BY <1>3, <1>9, <2>1
    <3>. HIDE DEF x, y
    <3>2. x * n <= y * n
      BY <1>3, <3>1
    <3>. QED  BY <3>2 DEF x, y
  <2>3. (q + rk) * n = qn + rkn /\ 2 * (c * q) * n = 2 * cqn
    BY <1>3, <1>5, <2>1
  <2>4. (2 * qd + n) * k = 2 * qd + 4 * mqd + nk
    <3>1. qd \in Int /\ mqd \in Int
      BY <1>3, <1>6
    <3>. HIDE DEF qd
    <3>2. (2 * qd + n) * k = 2 * (qd * k) + n * k /\ qd * k = 2 * (m * qd) + qd
      BY <1>3, <1>6, <3>1
    <3>. QED  BY <1>3, <1>6, <3>1, <3>2
  <2>5. 2 * (q * (2 * g - (n + d))) = 4 * cqn - 4 * mqd - 2 * qn - 2 * qd
    BY <1>3, <1>5, <1>6
  <2>6. /\ cqn \in Int /\ rkn \in Int /\ qn \in Int /\ qd \in Int /\ mqd \in Int /\ nk \in Int
    BY <1>3, <1>5, <1>6, <2>1
  <2>7. 2 * rkn <= 2 * qd + 4 * mqd + nk
    BY <1>10, <2>4
  <2>8. 2 * cqn <= qn + rkn
    BY <2>2, <2>3
  <2>. HIDE DEF cqn, rkn, qn, qd, mqd, nk, rk, g
  <2>9. 4 * cqn - 4 * mqd - 2 * qn - 2 * qd <= nk
    BY <2>6, <2>7, <2>8
  <2>. QED  BY <2>5, <2>9 DEF nk
<1>12. g \in Int
  BY <1>3, <1>5, <1>6
<1>13. Gained = s * g
  <2>1. Gained = (c * s + quote * 0) * n + (-m) * s * d
    BY <1>7 DEF Gained, s, n, d
  <2>. QED  BY <1>2, <1>3, <1>5, <1>6, <2>1
<1>14. 2 * (q * (2 * Gained - s * (n + d))) <= s * n * (2 * (turned' - turned) + 1)
  <2>. DEFINE x == 2 * (q * (2 * g - (n + d)))
              y == n * (2 * m + 1)
  <2>1. x \in Int /\ y \in Int /\ x <= y
    BY <1>3, <1>6, <1>11, <1>12
  <2>2. 2 * (q * (2 * (s * g) - s * (n + d))) = s * x /\ s * n * (2 * m + 1) = s * y
    <3>. HIDE DEF g
    <3>. QED  BY <1>3, <1>6, <1>12
  <2>. HIDE DEF x, y, g
  <2>3. s * x <= s * y
    BY <1>3, <2>1
  <2>. QED  BY <1>7, <1>13, <2>2, <2>3
<1>. QED  BY <1>1, <1>8, <1>14, DriftStep DEF EconomyInv, s, n, d, q

-----------------------------------------------------------------------------
(* Theorems *)

\* The inductive invariant holds at the start.
LEMMA InitEconomy == EconomyInit => EconomyInv
<1>. SUFFICES ASSUME EconomyInit PROVE EconomyInv
  OBVIOUS
<1>1. QtyScale \in Nat \ {0} /\ OtherNum \in Nat /\ OtherDen \in Nat /\ Stake \in Nat /\ MaxOps \in Nat
      /\ RateScale \in Nat
  BY ScalesGiven DEF EconomyScales
<1>2. quote \in Nat
  BY AmountAssumption DEF EconomyInit
<1>3. EconomyTypeOK
  BY <1>1 DEF EconomyInit, EconomyTypeOK
<1>4. quote * qty = 0 /\ other * QtyScale * OtherDen = 0 /\ ops * QtyScale * (OtherNum + OtherDen) = 0
  BY <1>1, <1>2 DEF EconomyInit
<1>5. Worth = 2 * Stake * QtyScale * OtherNum
  <2>1. Worth = 2 * ((Stake * QtyScale + 0) * OtherNum + 0)
    BY <1>4 DEF Worth, EconomyInit
  <2>. QED  BY <1>1, <2>1
<1>6. 2 * Stake * QtyScale * OtherNum \in Int
  BY <1>1
<1>7. Drift = 0
  BY <1>4, <1>5, <1>6 DEF Drift
<1>8. 2 * RateScale * Drift = 0 /\ QtyScale * OtherNum * (2 * turned + ops) = 0
  BY <1>1, <1>7 DEF EconomyInit
<1>. QED  BY <1>3, <1>8 DEF DriftBounded, EconomyInv

\* Every step keeps the inductive invariant.
LEMMA NextEconomy == EconomyInv /\ [EconomyNext]_economy => EconomyInv'
<1>. SUFFICES ASSUME EconomyInv, [EconomyNext]_economy PROVE EconomyInv'
  OBVIOUS
<1>1. CASE UNCHANGED economy
  BY <1>1 DEF EconomyInv, EconomyTypeOK, DriftBounded, Drift, Worth, economy
<1>. QED  BY <1>1, BuyKeeps, SellKeeps, ConvertOutKeeps, ConvertBackKeeps DEF EconomyNext

\* However trades and conversions are split and ordered, what they gain is at
\* most half a unit of each currency an operation, and half a unit of the rate
\* column for what is converted back, at every price, rate, spread, precision
\* of the amounts and scale of the column.
THEOREM DriftStaysBounded == EconomySpec => []DriftBounded
<1>1. EconomyInv => DriftBounded
  BY DEF EconomyInv
<1>. QED  BY <1>1, InitEconomy, NextEconomy, PTL DEF EconomySpec

\* Balances and holdings are never negative.
THEOREM EconomyTypeCorrect == EconomySpec => []EconomyTypeOK
<1>1. EconomyInv => EconomyTypeOK
  BY DEF EconomyInv
<1>. QED  BY <1>1, InitEconomy, NextEconomy, PTL DEF EconomySpec

\* The recorded fee is never negative: bought at or above the quote, sold at
\* or below it, after rounding.
THEOREM SpreadsAlwaysCost == EconomySpec => []SpreadsCost
<1>1. EconomyInv => SpreadsCost
  <2>. SUFFICES ASSUME EconomyInv, NEW q \in Lots
                PROVE  SellProceeds(quote, q) <= MarketValue(quote, q)
                       /\ MarketValue(quote, q) <= BuyCost(quote, q)
    BY DEF SpreadsCost
  <2>1. quote \in Nat /\ q \in Nat
    BY AmountAssumption DEF EconomyInv, EconomyTypeOK
  <2>. QED  BY <2>1, SpreadOrder
<1>. QED  BY <1>1, InitEconomy, NextEconomy, PTL DEF EconomySpec

-----------------------------------------------------------------------------
(* Induction over data: the least element of a set of naturals. *)

\* Every set of naturals that is not empty has a least element.
LEMMA Least ==
  ASSUME NEW S, S \subseteq Nat, S # {}
  PROVE  \E x \in S : \A y \in S : x <= y
<1>1. PICK x \in S : \A y \in S : ~(<<y, x>> \in OpToRel(<, Nat))
  BY NatLessThanWellFounded, WFMin, Zenon
<1>2. \A y \in S : ~(y < x)
  BY <1>1 DEF OpToRel
<1>. QED  BY <1>2

\* A set that has 0, and the successor of what it has, has every natural.
LEMMA Induct ==
  ASSUME NEW S, 0 \in S, \A n \in Nat : n \in S => n + 1 \in S
  PROVE  Nat \subseteq S
<1>. SUFFICES ASSUME Nat \ S # {} PROVE FALSE
  OBVIOUS
<1>1. PICK x \in Nat \ S : \A y \in Nat \ S : x <= y
  BY Least
<1>2. x - 1 \in Nat /\ (x - 1) + 1 = x
  BY <1>1
<1>3. x - 1 \in S
  BY <1>1, <1>2
<1>. QED  BY <1>1, <1>2, <1>3

-----------------------------------------------------------------------------
(* Sums over finite sets *)

\* The equation of MapThenSumSet, for a map that is a function.
SumStep(w, f, s) ==
  IF s = {} THEN 0 ELSE LET x == CHOOSE x \in s : TRUE IN w[x] + f[s \ {x}]

Sums(w, S) == CHOOSE f : f = [s \in SUBSET S |-> SumStep(w, f, s)]

Sum(w, S) == Sums(w, S)[S]

\* The fold is defined: there is a function that satisfies its equation.
LEMMA SumsExist ==
  ASSUME NEW S, IsFiniteSet(S), NEW w
  PROVE  Sums(w, S) = [s \in SUBSET S |-> SumStep(w, Sums(w, S), s)]
<1>. DEFINE Small(n) == {s \in SUBSET S : Cardinality(s) <= n}
            Upto == {n \in Nat : \E f : f = [s \in Small(n) |-> SumStep(w, f, s)]}
<1>1. \A s \in SUBSET S : IsFiniteSet(s) /\ Cardinality(s) \in Nat /\ Cardinality(s) <= Cardinality(S)
  BY FS_Subset, FS_CardinalityType
<1>2. 0 \in Upto
  <2>1. Small(0) = {{}}
    BY <1>1, FS_EmptySet
  <2>. DEFINE f == [s \in Small(0) |-> 0]
  <2>2. f = [s \in Small(0) |-> SumStep(w, f, s)]
    BY <2>1 DEF SumStep
  <2>. QED  BY <2>2
<1>3. ASSUME NEW n \in Nat, n \in Upto PROVE n + 1 \in Upto
  <2>1. PICK f : f = [s \in Small(n) |-> SumStep(w, f, s)]
    BY <1>3
  <2>. DEFINE g == [s \in Small(n + 1) |-> SumStep(w, f, s)]
  <2>2. Small(n) \subseteq Small(n + 1)
    BY <1>1
  <2>3. \A s \in Small(n) : g[s] = f[s]
    BY <2>1, <2>2
  <2>4. ASSUME NEW s \in Small(n + 1), s # {}, NEW x \in s
        PROVE  s \ {x} \in Small(n)
    BY <1>1, <2>4, FS_RemoveElement
  <2>5. ASSUME NEW s \in Small(n + 1)
        PROVE  SumStep(w, g, s) = SumStep(w, f, s)
    <3>. DEFINE x == CHOOSE x \in s : TRUE
    <3>. HIDE DEF g
    <3>1. CASE s = {}
      BY <3>1 DEF SumStep
    <3>2. CASE s # {}
      <4>1. x \in s
        BY <3>2
      <4>. HIDE DEF x
      <4>2. g[s \ {x}] = f[s \ {x}]
        BY <2>3, <2>4, <3>2, <4>1
      <4>. QED  BY <4>2 DEF SumStep, x
    <3>. QED  BY <3>1, <3>2
  <2>6. g = [s \in Small(n + 1) |-> SumStep(w, g, s)]
    <3>. SUFFICES [s \in Small(n + 1) |-> SumStep(w, f, s)] = [s \in Small(n + 1) |-> SumStep(w, g, s)]
      OBVIOUS
    <3>. HIDE DEF g, Small
    <3>. QED  BY <2>5
  <2>. HIDE DEF g
  <2>7. n + 1 \in Nat
    OBVIOUS
  <2>. QED  BY <2>6, <2>7, Zenon
<1>4. Nat \subseteq Upto
  <2>. HIDE DEF Upto
  <2>. QED  BY <1>2, <1>3, Induct
<1>5. Cardinality(S) \in Upto /\ Small(Cardinality(S)) = SUBSET S
  BY <1>1, <1>4, FS_CardinalityType
<1>. QED  BY <1>5 DEF Sums

\* Subsets of a finite set, each of which has what all smaller ones have.
LEMMA SubsetInduct ==
  ASSUME NEW S, IsFiniteSet(S), NEW P,
         \A T \in SUBSET S : (\A R \in SUBSET T : R # T => R \in P) => T \in P
  PROVE  SUBSET S \subseteq P
<1>. DEFINE Bad == (SUBSET S) \ P
            Sizes == {Cardinality(T) : T \in Bad}
<1>. SUFFICES ASSUME Bad # {} PROVE FALSE
  OBVIOUS
<1>1. \A T \in SUBSET S : IsFiniteSet(T) /\ Cardinality(T) \in Nat
  BY FS_Subset, FS_CardinalityType
<1>2. Sizes \subseteq Nat /\ Sizes # {}
  BY <1>1
<1>3. PICK n \in Sizes : \A m \in Sizes : n <= m
  <2>. HIDE DEF Sizes
  <2>. QED  BY <1>2, Least
<1>4. PICK T \in Bad : Cardinality(T) = n
  BY <1>3
<1>5. ASSUME NEW R \in SUBSET T, R # T PROVE R \in P
  <2>1. Cardinality(R) < Cardinality(T)
    BY <1>1, <1>4, <1>5, FS_Subset
  <2>2. R \in Bad => n <= Cardinality(R)
    BY <1>3
  <2>. QED  BY <1>1, <1>4, <2>1, <2>2
<1>6. T \in SUBSET S /\ T \notin P
  BY <1>4
<1>. HIDE DEF Bad
<1>. QED  BY <1>5, <1>6

\* A sum over a set does not depend on the larger set it is computed within.
LEMMA SumWithin ==
  ASSUME NEW S, IsFiniteSet(S), NEW w, NEW T \in SUBSET S
  PROVE  Sums(w, S)[T] = Sum(w, T)
<1>. DEFINE P == {R \in SUBSET S : \A U \in SUBSET S : R \subseteq U => Sums(w, U)[R] = Sums(w, S)[R]}
<1>1. ASSUME NEW R \in SUBSET S, \A Q \in SUBSET R : Q # R => Q \in P
      PROVE  R \in P
  <2>. SUFFICES ASSUME NEW U \in SUBSET S, R \subseteq U
                PROVE  Sums(w, U)[R] = Sums(w, S)[R]
    OBVIOUS
  <2>1. Sums(w, U)[R] = SumStep(w, Sums(w, U), R) /\ Sums(w, S)[R] = SumStep(w, Sums(w, S), R)
    <3>1. IsFiniteSet(U) /\ R \in SUBSET U /\ R \in SUBSET S
      BY FS_Subset
    <3>2. /\ Sums(w, U) = [s \in SUBSET U |-> SumStep(w, Sums(w, U), s)]
          /\ Sums(w, S) = [s \in SUBSET S |-> SumStep(w, Sums(w, S), s)]
      BY <3>1, SumsExist, Zenon
    <3>. HIDE DEF P
    <3>. DEFINE F == Sums(w, U)  G == Sums(w, S)
    <3>3. F = [s \in SUBSET U |-> SumStep(w, F, s)] /\ G = [s \in SUBSET S |-> SumStep(w, G, s)]
      BY <3>2
    <3>. HIDE DEF F, G
    <3>4. F[R] = SumStep(w, F, R) /\ G[R] = SumStep(w, G, R)
      BY <3>1, <3>3
    <3>. QED  BY <3>4 DEF F, G
  <2>2. CASE R = {}
    BY <2>1, <2>2 DEF SumStep
  <2>3. CASE R # {}
    <3>. DEFINE x == CHOOSE x \in R : TRUE
    <3>1. x \in R
      BY <2>3
    <3>. HIDE DEF x
    <3>2. R \ {x} \in P
      BY <1>1, <3>1
    <3>3. Sums(w, U)[R \ {x}] = Sums(w, S)[R \ {x}]
      BY <3>2
    <3>. QED  BY <2>1, <2>3, <3>3 DEF SumStep, x
  <2>. QED  BY <2>2, <2>3
<1>2. SUBSET S \subseteq P
  <2>. HIDE DEF P
  <2>. QED  BY <1>1, SubsetInduct
<1>. QED  BY <1>2 DEF Sum

LEMMA SumEmpty ==
  ASSUME NEW w
  PROVE  Sum(w, {}) = 0
<1>1. IsFiniteSet({})
  BY FS_EmptySet
<1>. DEFINE F == Sums(w, {})
<1>2. F = [s \in SUBSET {} |-> SumStep(w, F, s)]
  BY <1>1, SumsExist, Zenon
<1>. HIDE DEF F
<1>3. F[{}] = SumStep(w, F, {})
  BY <1>2
<1>. QED  BY <1>3 DEF F, Sum, SumStep

LEMMA SumFirst ==
  ASSUME NEW S, IsFiniteSet(S), S # {}, NEW w
  PROVE  \E x \in S : Sum(w, S) = w[x] + Sum(w, S \ {x})
<1>. DEFINE F == Sums(w, S)
<1>1. F = [s \in SUBSET S |-> SumStep(w, F, s)]
  BY SumsExist, Zenon
<1>. HIDE DEF F
<1>2. F[S] = SumStep(w, F, S)
  BY <1>1
<1>. DEFINE x == CHOOSE x \in S : TRUE
<1>3. x \in S /\ F[S] = w[x] + F[S \ {x}]
  BY <1>2 DEF SumStep
<1>. HIDE DEF x
<1>4. F[S \ {x}] = Sum(w, S \ {x})
  BY SumWithin DEF F
<1>. QED  BY <1>3, <1>4 DEF F, Sum

LEMMA SumCongruent ==
  ASSUME NEW S, IsFiniteSet(S), NEW v, NEW w, \A x \in S : v[x] = w[x]
  PROVE  Sum(v, S) = Sum(w, S)
<1>. DEFINE E(s, f) == SumStep(v, f, s)
<1>1. ASSUME NEW f PROVE [s \in SUBSET S |-> SumStep(v, f, s)] = [s \in SUBSET S |-> SumStep(w, f, s)]
  <2>1. ASSUME NEW s \in SUBSET S PROVE SumStep(v, f, s) = SumStep(w, f, s)
    <3>1. s # {} => (CHOOSE x \in s : TRUE) \in S
      OBVIOUS
    <3>. QED  BY <3>1 DEF SumStep
  <2>. QED  BY <2>1
<1>2. Sums(v, S) = Sums(w, S)
  BY <1>1, Zenon DEF Sums
<1>. QED  BY <1>2 DEF Sum

LEMMA SumType ==
  ASSUME NEW S, IsFiniteSet(S), NEW w, \A x \in S : w[x] \in Int
  PROVE  Sum(w, S) \in Int
<1>. DEFINE P == {T \in SUBSET S : Sum(w, T) \in Int}
<1>1. ASSUME NEW T \in SUBSET S, \A R \in SUBSET T : R # T => R \in P
      PROVE  T \in P
  <2>1. CASE T = {}
    BY <2>1, SumEmpty
  <2>2. CASE T # {}
    <3>1. PICK x \in T : Sum(w, T) = w[x] + Sum(w, T \ {x})
      BY <2>2, SumFirst, FS_Subset
    <3>2. T \ {x} \in P
      BY <1>1, <3>1
    <3>. QED  BY <3>1, <3>2
  <2>. QED  BY <2>1, <2>2
<1>. HIDE DEF P
<1>2. SUBSET S \subseteq P
  BY <1>1, SubsetInduct
<1>. QED  BY <1>2 DEF P

\* Any element may be counted first.
LEMMA SumPick ==
  ASSUME NEW S, IsFiniteSet(S), NEW w, \A x \in S : w[x] \in Int, NEW y \in S
  PROVE  Sum(w, S) = w[y] + Sum(w, S \ {y})
<1>. DEFINE P == {T \in SUBSET S : \A x \in T : Sum(w, T) = w[x] + Sum(w, T \ {x})}
<1>0. \A T \in SUBSET S : IsFiniteSet(T) /\ Sum(w, T) \in Int
  BY SumType, FS_Subset
<1>1. ASSUME NEW T \in SUBSET S, \A R \in SUBSET T : R # T => R \in P
      PROVE  T \in P
  <2>. SUFFICES ASSUME NEW z \in T PROVE Sum(w, T) = w[z] + Sum(w, T \ {z})
    OBVIOUS
  <2>1. PICK x \in T : Sum(w, T) = w[x] + Sum(w, T \ {x})
    BY <1>0, SumFirst
  <2>2. CASE x # z
    <3>1. T \ {x} \in P /\ T \ {z} \in P
      BY <1>1, <2>1
    <3>2. /\ Sum(w, T \ {x}) = w[z] + Sum(w, (T \ {x}) \ {z})
          /\ Sum(w, T \ {z}) = w[x] + Sum(w, (T \ {z}) \ {x})
      BY <2>1, <2>2, <3>1
    <3>3. (T \ {x}) \ {z} = (T \ {z}) \ {x}
      OBVIOUS
    <3>. DEFINE K == Sum(w, (T \ {z}) \ {x})
    <3>4. Sum(w, T \ {x}) = w[z] + K /\ Sum(w, T \ {z}) = w[x] + K
      BY <3>2, <3>3, Zenon
    <3>5. K \in Int /\ w[x] \in Int /\ w[z] \in Int
      BY <1>0, <2>1
    <3>. HIDE DEF P, K
    <3>. QED  BY <2>1, <3>4, <3>5
  <2>. QED  BY <2>1, <2>2
<1>. HIDE DEF P
<1>2. SUBSET S \subseteq P
  BY <1>1, SubsetInduct
<1>. QED  BY <1>2 DEF P

LEMMA SumPart ==
  ASSUME NEW S, IsFiniteSet(S), NEW w, \A x \in S : w[x] \in Int,
         NEW R \in SUBSET S, \A x \in S \ R : w[x] = 0
  PROVE  Sum(w, S) = Sum(w, R)
<1>. DEFINE P == {T \in SUBSET S : R \subseteq T => Sum(w, T) = Sum(w, R)}
<1>1. ASSUME NEW T \in SUBSET S, \A Q \in SUBSET T : Q # T => Q \in P
      PROVE  T \in P
  <2>. SUFFICES ASSUME R \subseteq T, R # T PROVE Sum(w, T) = Sum(w, R)
    OBVIOUS
  <2>1. PICK x \in T : x \notin R
    OBVIOUS
  <2>2. Sum(w, T) = w[x] + Sum(w, T \ {x})
    <3>1. IsFiniteSet(T) /\ \A z \in T : w[z] \in Int
      BY FS_Subset
    <3>. QED  BY <3>1, SumPick
  <2>3. Sum(w, T \ {x}) = Sum(w, R)
    BY <1>1, <2>1
  <2>4. Sum(w, R) \in Int
    <3>1. IsFiniteSet(R)
      BY FS_Subset
    <3>. QED  BY <3>1, SumType
  <2>. QED  BY <2>1, <2>2, <2>3, <2>4
<1>. HIDE DEF P
<1>2. SUBSET S \subseteq P
  BY <1>1, SubsetInduct
<1>. QED  BY <1>2 DEF P

-----------------------------------------------------------------------------
(* What the shares of an account are worth *)

Values(h, p) == [s \in Symbols |-> IF s \in DOMAIN p THEN h[s] * p[s] * RateDen ELSE 0]

MarkStep(h, p, f, s) ==
  IF s = {} THEN 0
  ELSE LET x == CHOOSE x \in s : TRUE
       IN  (IF x \in DOMAIN p THEN h[x] * p[x] * RateDen ELSE 0) + f[s \ {x}]

LEMMA MarkedIsSum ==
  ASSUME NEW h, NEW p
  PROVE  Marked(h, p) = Sum(Values(h, p), Owned(h))
<1>. DEFINE S == Owned(h)
<1>1. Marked(h, p) = (CHOOSE f : f = [s \in SUBSET S |-> MarkStep(h, p, f, s)])[S]
  BY Zenon DEF Marked, MapThenSumSet, MapThenFoldSet, MarkStep
<1>2. ASSUME NEW f
      PROVE  [s \in SUBSET S |-> MarkStep(h, p, f, s)] = [s \in SUBSET S |-> SumStep(Values(h, p), f, s)]
  <2>1. ASSUME NEW s \in SUBSET S
        PROVE  MarkStep(h, p, f, s) = SumStep(Values(h, p), f, s)
    <3>. DEFINE x == CHOOSE x \in s : TRUE
    <3>1. s # {} => x \in S
      OBVIOUS
    <3>. HIDE DEF x
    <3>2. s # {} => Values(h, p)[x] = IF x \in DOMAIN p THEN h[x] * p[x] * RateDen ELSE 0
      BY <3>1 DEF Values, Owned
    <3>. HIDE DEF S
    <3>. QED  BY <3>2 DEF SumStep, MarkStep, x
  <2>. HIDE DEF S
  <2>. QED  BY <2>1
<1>. HIDE DEF S
<1>3. (CHOOSE f : f = [s \in SUBSET S |-> MarkStep(h, p, f, s)]) = Sums(Values(h, p), S)
  BY <1>2, Zenon DEF Sums
<1>. QED  BY <1>1, <1>3, Zenon DEF Sum, S

\* Prices of some of the symbols, or of all.
PricesOf(p) == DOMAIN p \subseteq Symbols /\ \A s \in DOMAIN p : p[s] \in Nat

LEMMA Scales ==
  /\ QtyScale \in Nat \ {0} /\ RateDen \in Nat \ {0} /\ Unit \in Nat \ {0}
  /\ IsFiniteSet(Symbols) /\ IsFiniteSet(Users) /\ Symbols # {} /\ Prices \subseteq Nat
<1>1. QtyScale \in Nat \ {0} /\ RateDen \in Nat \ {0}
  BY ScaleAssumption, StandingsAssumption
<1>2. QtyScale * RateDen \in Nat \ {0}
  BY <1>1
<1>. QED  BY <1>1, <1>2, StandingsAssumption DEF Unit

\* The shares that are not owned add nothing, so the sum may run over all.
LEMMA MarkedOverAll ==
  ASSUME NEW h \in Quantities, NEW p, PricesOf(p)
  PROVE  /\ \A s \in Symbols : Values(h, p)[s] \in Int
         /\ Marked(h, p) = Sum(Values(h, p), Symbols) /\ Marked(h, p) \in Int
<1>. DEFINE w == Values(h, p)
<1>1. \A s \in Symbols : h[s] \in Nat
  BY DEF Quantities
<1>2. \A s \in Symbols : w[s] \in Int
  <2>. SUFFICES ASSUME NEW s \in Symbols, s \in DOMAIN p PROVE h[s] * p[s] * RateDen \in Int
    BY DEF Values
  <2>1. h[s] \in Int /\ p[s] \in Int /\ RateDen \in Int
    BY <1>1, Scales DEF PricesOf
  <2>. QED  BY <2>1
<1>3. \A s \in Symbols \ Owned(h) : w[s] = 0
  <2>. SUFFICES ASSUME NEW s \in Symbols, s \notin Owned(h), s \in DOMAIN p PROVE h[s] * p[s] * RateDen = 0
    BY DEF Values
  <2>1. h[s] = 0
    BY <1>1 DEF Owned
  <2>2. p[s] \in Int /\ RateDen \in Int
    BY Scales DEF PricesOf
  <2>. QED  BY <2>1, <2>2
<1>4. Owned(h) \in SUBSET Symbols /\ IsFiniteSet(Symbols)
  BY Scales DEF Owned
<1>. HIDE DEF w
<1>5. Sum(w, Symbols) = Sum(w, Owned(h)) /\ Sum(w, Symbols) \in Int
  BY <1>2, <1>3, <1>4, SumPart, SumType
<1>6. Marked(h, p) = Sum(w, Owned(h))
  BY MarkedIsSum DEF w
<1>. QED  BY <1>2, <1>5, <1>6 DEF w

\* Only the prices of the shares owned matter.
LEMMA MarkedSame ==
  ASSUME NEW h, NEW p, NEW q, \A s \in Owned(h) : s \in DOMAIN p /\ s \in DOMAIN q /\ p[s] = q[s]
  PROVE  Marked(h, p) = Marked(h, q)
<1>1. Owned(h) \subseteq Symbols /\ IsFiniteSet(Owned(h))
  <2>1. Owned(h) \in SUBSET Symbols
    BY DEF Owned
  <2>. QED  BY <2>1, Scales, FS_Subset
<1>2. \A s \in Owned(h) : Values(h, p)[s] = Values(h, q)[s]
  BY <1>1 DEF Values
<1>. QED  BY <1>1, <1>2, MarkedIsSum, SumCongruent

\* A share more or less is worth its price.
LEMMA OneShare ==
  ASSUME NEW h \in Quantities, NEW k \in Quantities, NEW s \in Symbols,
         \A o \in Symbols : o # s => k[o] = h[o], NEW q \in [Symbols -> Nat]
  PROVE  Marked(k, q) = Marked(h, q) + (k[s] - h[s]) * (q[s] * RateDen)
<1>. DEFINE v == Values(h, q)   w == Values(k, q)   R == Symbols \ {s}
<1>0. PricesOf(q) /\ IsFiniteSet(Symbols) /\ IsFiniteSet(R) /\ R \in SUBSET Symbols
  <2>1. R \in SUBSET Symbols
    OBVIOUS
  <2>. QED  BY <2>1, Scales, FS_Subset DEF PricesOf
<1>1. /\ \A o \in Symbols : v[o] \in Int /\ w[o] \in Int
      /\ Marked(h, q) = Sum(v, Symbols) /\ Marked(k, q) = Sum(w, Symbols)
  BY <1>0, MarkedOverAll
<1>2. \A o \in R : w[o] = v[o]
  BY DEF Values
<1>3. v[s] = h[s] * q[s] * RateDen /\ w[s] = k[s] * q[s] * RateDen
  BY DEF Values
<1>. HIDE DEF v, w, R
<1>4. Sum(v, Symbols) = v[s] + Sum(v, Symbols \ {s}) /\ Sum(w, Symbols) = w[s] + Sum(w, Symbols \ {s})
  BY <1>0, <1>1, SumPick
<1>5. Sum(v, R) = Sum(w, R) /\ Sum(v, R) \in Int
  BY <1>0, <1>1, <1>2, SumCongruent, SumType
<1>6. Marked(h, q) = v[s] + Sum(v, R) /\ Marked(k, q) = w[s] + Sum(v, R)
  BY <1>1, <1>4, <1>5, Zenon DEF R
<1>7. w[s] = v[s] + (k[s] - h[s]) * (q[s] * RateDen)
  <2>. DEFINE a == h[s]  b == k[s]  c == q[s]
  <2>1. a \in Int /\ b \in Int /\ c \in Int /\ RateDen \in Int
    BY Scales DEF Quantities
  <2>. HIDE DEF a, b, c
  <2>2. b * c * RateDen = a * c * RateDen + (b - a) * (c * RateDen)
    BY <2>1
  <2>. QED  BY <1>3, <2>2 DEF a, b, c
<1>8. (k[s] - h[s]) * (q[s] * RateDen) \in Int
  BY Scales DEF Quantities
<1>. QED  BY <1>1, <1>5, <1>6, <1>7, <1>8

LEMMA CashInt ==
  ASSUME NEW u \in Users, NEW d \in Int, NEW r \in Nat
  PROVE  Cash(u, d, r) \in Int
<1>1. u \in DOMAIN Euros => Euros[u] \in Nat
  BY StandingsAssumption
<1>. QED  BY <1>1, Scales DEF Cash, Unit

-----------------------------------------------------------------------------
\* A league table and a nightly snapshot taken of the same account at the same
\* moment differ by one money unit at most, whatever the account holds.
LEMMA OneAccountTwoReaders ==
  ASSUME NEW u \in Users, NEW d \in Int, NEW h \in Quantities, NEW p, PricesOf(p), NEW r \in Nat
  PROVE  TableEquity(u, d, h, p, r) - JobEquity(u, d, h, p, r) \in {-1, 0, 1}
BY CashInt, MarkedOverAll, Scales, TwoRoundings DEF TableEquity, JobEquity

-----------------------------------------------------------------------------
(* The invariant *)

Maps(S, V) == UNION {[T -> V] : T \in SUBSET S}
PriceMaps  == Maps(Symbols, Prices)
RowMaps    == Maps(Users, Snapshot)

TableRecord ==
  [at : {"idle", "wallets", "holdings", "prices", "answer"}, kind : {"season", "career"},
   cohort : SUBSET Users, usd : [Users -> Int], held : [Users -> Quantities], price : PriceMaps,
   quotes : PriceMaps, moved : [Users -> Nat], began : [Users -> Quantities]]

JobRecord ==
  [at : {"due", "next", "rate", "holdings", "prices", "done"}, left : SUBSET Users,
   who : Users \cup {CHOOSE u \in Users : TRUE}, usd : Int, held : Quantities,
   price : PriceMaps, rate : Nat \cup {None}, rows : RowMaps]

AccountsOK ==
  /\ usd \in [Users -> Int] /\ held \in [Users -> Quantities]
  /\ price \in [Symbols -> Prices] /\ rate \in Rates

ReadersOK ==
  table \in TableRecord /\ job \in JobRecord /\ snap \in [Users -> Snapshot \cup {None}]

Highest(q) == Max({q[s] : s \in Symbols})

\* At any prices, h and b are worth the same but for n shares.
Near(h, b, n) == \A q \in [Symbols -> Prices] :
  /\ Marked(h, q) <= Marked(b, q) + n * RateDen * Highest(q)
  /\ Marked(b, q) <= Marked(h, q) + n * RateDen * Highest(q)

\* What a table has read is near what there was when it began.
TableSound ==
  /\ table.kind = "season" => table.cohort \subseteq DOMAIN Baselines
  /\ table.at = "wallets" => table.moved = Nobody
  /\ table.at = "holdings" => \A u \in Users : Near(held[u], table.began[u], table.moved[u])
  /\ table.at \in {"prices", "answer"} =>
       \A u \in Users : Near(table.held[u], table.began[u], table.moved[u])
  /\ table.at = "answer" =>
       /\ table.quotes \in [Symbols -> Prices]
       /\ table.price = [s \in SymbolsIn(table.held, table.cohort) |-> table.quotes[s]]

JobRateOf(j) == IF j.rate = None THEN 0 ELSE j.rate

\* A row computed earlier in the run is what the caches of the run give now.
RowSound(u, row, j) ==
  /\ Owned(row.held) \subseteq DOMAIN j.price
  /\ u \in DOMAIN Euros => j.rate # None
  /\ row.equity = JobEquity(u, row.usd, row.held, j.price, JobRateOf(j))

JobSound ==
  /\ job.at \in {"rate", "holdings", "prices"} => job.who \in Users
  /\ job.at = "rate" => job.rate = None
  /\ job.at \in {"holdings", "prices"} /\ job.who \in DOMAIN Euros => job.rate # None
  /\ \A u \in DOMAIN job.rows : RowSound(u, job.rows[u], job)
  /\ \A u \in Users : snap[u] # None => RowSound(u, snap[u], job)

TablesInv == AccountsOK /\ ReadersOK /\ TableSound /\ JobSound

-----------------------------------------------------------------------------
LEMMA HighestBounds ==
  ASSUME NEW q \in [Symbols -> Nat]
  PROVE  Highest(q) \in Nat /\ \A s \in Symbols : q[s] <= Highest(q)
<1>. DEFINE P == {T \in SUBSET Symbols : T # {} => \E x \in T : \A y \in T : q[y] <= q[x]}
<1>1. ASSUME NEW T \in SUBSET Symbols, \A R \in SUBSET T : R # T => R \in P
      PROVE  T \in P
  <2>. SUFFICES ASSUME NEW z \in T PROVE \E x \in T : \A y \in T : q[y] <= q[x]
    OBVIOUS
  <2>1. T \ {z} \in P
    BY <1>1
  <2>2. \A y \in T : q[y] \in Nat
    OBVIOUS
  <2>3. CASE T \ {z} = {}
    <3>1. \A y \in T : y = z
      BY <2>3
    <3>. QED  BY <2>2, <3>1
  <2>4. CASE T \ {z} # {}
    <3>1. PICK x \in T \ {z} : \A y \in T \ {z} : q[y] <= q[x]
      BY <2>1, <2>4
    <3>2. CASE q[z] <= q[x]
      BY <3>1, <3>2
    <3>3. CASE q[x] <= q[z]
      <4>1. \A y \in T : q[y] <= q[z]
        BY <2>2, <3>1, <3>3
      <4>. QED  BY <4>1
    <3>. QED  BY <2>2, <3>2, <3>3
  <2>. QED  BY <2>3, <2>4
<1>2. Symbols \in P
  <2>. HIDE DEF P
  <2>1. SUBSET Symbols \subseteq P
    BY <1>1, SubsetInduct, Scales
  <2>. QED  BY <2>1
<1>. DEFINE V == {q[s] : s \in Symbols}
<1>3. PICK m \in V : \A y \in V : m >= y
  BY <1>2, Scales
<1>4. Highest(q) \in V /\ \A y \in V : Highest(q) >= y
  <2>1. Highest(q) = CHOOSE x \in V : \A y \in V : x >= y
    BY DEF Highest, Max
  <2>. HIDE DEF V
  <2>. QED  BY <1>3, <2>1
<1>. QED  BY <1>4

LEMMA NearSame ==
  ASSUME NEW h \in Quantities
  PROVE  Near(h, h, 0)
<1>. SUFFICES ASSUME NEW q \in [Symbols -> Prices]
              PROVE  Marked(h, q) <= Marked(h, q) + 0 * RateDen * Highest(q)
  BY DEF Near
<1>1. q \in [Symbols -> Nat] /\ PricesOf(q)
  BY Scales DEF PricesOf
<1>2. Highest(q) \in Nat /\ RateDen \in Nat /\ Marked(h, q) \in Int
  BY <1>1, HighestBounds, MarkedOverAll, Scales
<1>. QED  BY <1>2

LEMMA NearStep ==
  ASSUME NEW h \in Quantities, NEW b \in Quantities, NEW k \in Quantities, NEW s \in Symbols,
         \A o \in Symbols : o # s => k[o] = h[o], k[s] - h[s] \in {-1, 1},
         NEW n \in Nat, Near(h, b, n)
  PROVE  Near(k, b, n + 1)
<1>. SUFFICES ASSUME NEW q \in [Symbols -> Prices]
              PROVE  /\ Marked(k, q) <= Marked(b, q) + (n + 1) * RateDen * Highest(q)
                     /\ Marked(b, q) <= Marked(k, q) + (n + 1) * RateDen * Highest(q)
  BY DEF Near
<1>1. q \in [Symbols -> Nat] /\ PricesOf(q) /\ RateDen \in Nat
  BY Scales DEF PricesOf
<1>2. Highest(q) \in Nat /\ q[s] <= Highest(q) /\ q[s] \in Nat
  BY <1>1, HighestBounds
<1>. DEFINE H == Highest(q)  x == Marked(h, q)  y == Marked(b, q)  z == Marked(k, q)  c == q[s]
            e == k[s] - h[s]  step == c * RateDen  most == RateDen * H  bound == n * RateDen * H
<1>3. z = x + e * step
  BY <1>1, OneShare
<1>4. x <= y + bound /\ y <= x + bound
  BY DEF Near
<1>5. x \in Int /\ y \in Int
  BY <1>1, MarkedOverAll
<1>6. e * step = step \/ e * step = -step
  <2>1. c \in Nat
    BY <1>2
  <2>2. step \in Int
    <3>. HIDE DEF c
    <3>. QED  BY <1>1, <2>1
  <2>. HIDE DEF step, e
  <2>3. e \in {-1, 1}
    BY DEF e
  <2>. QED  BY <2>2, <2>3
<1>7. (n + 1) * RateDen * H = bound + most /\ step \in Nat /\ step <= most /\ bound \in Int /\ most \in Int
  <2>1. c \in Nat /\ H \in Nat /\ c <= H
    BY <1>2
  <2>. HIDE DEF c, H
  <2>. QED  BY <1>1, <2>1
<1>. HIDE DEF H, x, y, z, c, step, most, bound, e
<1>8. z \in Int
  BY <1>3, <1>5, <1>6, <1>7
<1>9. z <= y + (bound + most) /\ y <= z + (bound + most)
  BY <1>3, <1>4, <1>5, <1>6, <1>7, <1>8
<1>. QED  BY <1>7, <1>9 DEF H, y, z

LEMMA CostTypes ==
  ASSUME NEW p \in Nat
  PROVE  BuyCost(p, 1) \in Int /\ SellProceeds(p, 1) \in Int
<1>1. HalfSpread \in Int /\ Bps \in Nat \ {0} /\ Bps * QtyScale \in Nat \ {0}
  BY ScaleAssumption, SpreadAssumption DEF Bps
<1>2. p * (Bps + HalfSpread) * 1 \in Int /\ p * (Bps - HalfSpread) * 1 \in Int
  BY <1>1
<1>. QED  BY <1>1, <1>2, HalfUpNearest DEF BuyCost, SellProceeds

-----------------------------------------------------------------------------
(* The accounts and the tables *)

LEMMA InitTables == Init => TablesInv
<1>. SUFFICES ASSUME Init PROVE TablesInv
  OBVIOUS
<1>. USE DEF Init
<1>1. Nothing \in [Users -> Quantities] /\ Nobody \in [Users -> Nat] /\ Nobody \in [Users -> Int]
      /\ [s \in Symbols |-> 0] \in Quantities
  BY DEF Nothing, Nobody, Quantities
<1>2. AccountsOK
  BY <1>1, StandingsAssumption DEF AccountsOK, Nothing
<1>3. <<>> \in PriceMaps /\ <<>> \in RowMaps
  <2>1. <<>> \in [{} -> Prices] /\ <<>> \in [{} -> Snapshot]
    OBVIOUS
  <2>2. {} \in SUBSET Symbols /\ {} \in SUBSET Users
    OBVIOUS
  <2>. QED  BY <2>1, <2>2 DEF PriceMaps, RowMaps, Maps
<1>4. table \in TableRecord
  BY <1>1, <1>3 DEF TableRecord, NoTable
<1>5. job \in JobRecord /\ job.rows = <<>> /\ job.at \in {"due", "done"}
  <2>1. NoJob \in JobRecord /\ NoJob.rows = <<>> /\ NoJob.at = "due"
    BY <1>1, <1>3 DEF JobRecord, NoJob
  <2>2. job = NoJob \/ job = [NoJob EXCEPT !.at = "done"]
    OBVIOUS
  <2>. HIDE DEF Init
  <2>. QED  BY <2>1, <2>2 DEF JobRecord
<1>6. snap \in [Users -> Snapshot \cup {None}]
  OBVIOUS
<1>7. TableSound
  BY DEF TableSound, NoTable
<1>8. JobSound
  <2>1. job.rows = <<>> /\ job.at \in {"due", "done"}
    BY <1>5
  <2>2. \A u \in Users : snap[u] = None
    OBVIOUS
  <2>. QED  BY <2>1, <2>2 DEF JobSound
<1>. QED  BY <1>2, <1>4, <1>5, <1>6, <1>7, <1>8 DEF TablesInv, ReadersOK

LEMMA JobSoundSame == JobSound /\ UNCHANGED <<job, snap>> => JobSound'
BY DEF JobSound

\* A trade of one share between the two reads of a table is counted.
LEMMA TradeKeeps ==
  ASSUME TablesInv, NEW u \in Users, NEW s \in Symbols,
         UNCHANGED <<job, snap>>, Noted(u), UNCHANGED market,
         usd' \in [Users -> Int], held' \in [Users -> Quantities],
         \A v \in Users : v # u => held'[v] = held[v],
         \A o \in Symbols : o # s => held'[u][o] = held[u][o],
         held'[u][s] - held[u][s] \in {-1, 1}
  PROVE  TablesInv'
<1>. USE DEF TablesInv
<1>1. AccountsOK'
  BY DEF AccountsOK, market
<1>2. table \in TableRecord /\ table' \in TableRecord
  <2>1. table \in TableRecord
    BY DEF ReadersOK
  <2>2. table.moved \in [Users -> Nat] /\ [table.moved EXCEPT ![u] = @ + 1] \in [Users -> Nat]
    BY <2>1 DEF TableRecord
  <2>. QED  BY <2>1, <2>2 DEF Noted, TableRecord
<1>3. ReadersOK'
  BY <1>2 DEF ReadersOK
<1>4. TableSound'
  <2>1. CASE table.at # "holdings"
    BY <2>1 DEF TableSound, Noted
  <2>2. CASE table.at = "holdings"
    <3>1. /\ table'.kind = table.kind /\ table'.cohort = table.cohort /\ table'.at = table.at
          /\ table'.began = table.began /\ table'.moved = [table.moved EXCEPT ![u] = @ + 1]
          /\ table.moved \in [Users -> Nat] /\ table.began \in [Users -> Quantities]
      BY <1>2, <2>2 DEF Noted, TableRecord
    <3>2. ASSUME NEW v \in Users
          PROVE  Near(held'[v], table'.began[v], table'.moved[v])
      <4>1. Near(held[v], table.began[v], table.moved[v])
        BY <2>2 DEF TableSound
      <4>2. CASE v # u
        BY <3>1, <4>1, <4>2
      <4>3. CASE v = u
        <5>. DEFINE h == held[u]  k == held'[u]  b == table.began[u]  n == table.moved[u]
        <5>1. h \in Quantities /\ k \in Quantities /\ b \in Quantities /\ n \in Nat
          BY <3>1 DEF AccountsOK
        <5>2. Near(h, b, n)
          BY <4>1, <4>3
        <5>. HIDE DEF h, k, b, n
        <5>3. Near(k, b, n + 1)
          <6>1. (\A o \in Symbols : o # s => k[o] = h[o]) /\ k[s] - h[s] \in {-1, 1}
            BY DEF h, k
          <6>. QED  BY <5>1, <5>2, <6>1, NearStep
        <5>4. table'.moved[u] = n + 1
          BY <3>1 DEF n
        <5>. QED  BY <3>1, <4>3, <5>3, <5>4 DEF k, b
      <4>. QED  BY <4>2, <4>3
    <3>. QED  BY <2>2, <3>1, <3>2 DEF TableSound
  <2>. QED  BY <2>1, <2>2
<1>5. JobSound'
  BY JobSoundSame
<1>. QED  BY <1>1, <1>3, <1>4, <1>5

LEMMA BuyKeepsTables ==
  ASSUME TablesInv, NEW u \in Users, NEW s \in Symbols, Buy(u, s)
  PROVE  TablesInv'
<1>1. AccountsOK /\ UNCHANGED <<job, snap>> /\ Noted(u) /\ UNCHANGED market
  BY DEF TablesInv, Buy, Changed
<1>2. price[s] \in Nat
  BY <1>1, Scales DEF AccountsOK
<1>3. BuyCost(price[s], 1) \in Int
  BY <1>2, CostTypes
<1>4. usd' \in [Users -> Int] /\ held' = [held EXCEPT ![u][s] = @ + 1]
  BY <1>1, <1>3 DEF AccountsOK, Buy
<1>5. held[u] \in Quantities /\ held[u][s] \in Nat
  BY <1>1 DEF AccountsOK, Quantities
<1>6. held' \in [Users -> Quantities] /\ held'[u] = [held[u] EXCEPT ![s] = @ + 1]
  BY <1>1, <1>4, <1>5 DEF AccountsOK, Quantities
<1>7. /\ \A v \in Users : v # u => held'[v] = held[v]
      /\ \A o \in Symbols : o # s => held'[u][o] = held[u][o]
      /\ held'[u][s] - held[u][s] = 1
  BY <1>1, <1>4, <1>5, <1>6 DEF AccountsOK, Quantities
<1>. QED  BY <1>1, <1>4, <1>6, <1>7, TradeKeeps

LEMMA SellKeepsTables ==
  ASSUME TablesInv, NEW u \in Users, NEW s \in Symbols, Sell(u, s)
  PROVE  TablesInv'
<1>1. AccountsOK /\ UNCHANGED <<job, snap>> /\ Noted(u) /\ UNCHANGED market
  BY DEF TablesInv, Sell, Changed
<1>2. price[s] \in Nat
  BY <1>1, Scales DEF AccountsOK
<1>3. SellProceeds(price[s], 1) \in Int
  BY <1>2, CostTypes
<1>4. usd' \in [Users -> Int] /\ held' = [held EXCEPT ![u][s] = @ - 1]
  BY <1>1, <1>3 DEF AccountsOK, Sell
<1>5. held[u] \in Quantities /\ held[u][s] \in Nat /\ held[u][s] > 0
  BY <1>1 DEF AccountsOK, Quantities, Sell, Holds
<1>6. held' \in [Users -> Quantities] /\ held'[u] = [held[u] EXCEPT ![s] = @ - 1]
  BY <1>1, <1>4, <1>5 DEF AccountsOK, Quantities
<1>7. /\ \A v \in Users : v # u => held'[v] = held[v]
      /\ \A o \in Symbols : o # s => held'[u][o] = held[u][o]
      /\ held'[u][s] - held[u][s] = -1
  BY <1>1, <1>4, <1>5, <1>6 DEF AccountsOK, Quantities
<1>. QED  BY <1>1, <1>4, <1>6, <1>7, TradeKeeps

LEMMA QuoteKeepsTables == TablesInv /\ Quote => TablesInv'
<1>. SUFFICES ASSUME TablesInv, Quote PROVE TablesInv'
  OBVIOUS
<1>1. UNCHANGED <<usd, held, table, job, snap>>
  BY DEF Quote, Changed, accounts
<1>2. price' \in [Symbols -> Prices] /\ rate' \in Rates
  BY DEF Quote, TablesInv, AccountsOK
<1>. QED  BY <1>1, <1>2, JobSoundSame DEF TablesInv, AccountsOK, ReadersOK, TableSound

LEMMA TableOnlyKeeps ==
  ASSUME TablesInv, UNCHANGED <<usd, held, price, rate, job, snap>>,
         table' \in TableRecord, TableSound'
  PROVE  TablesInv'
BY JobSoundSame DEF TablesInv, AccountsOK, ReadersOK

LEMMA AskKeepsTables == TablesInv /\ Ask => TablesInv'
<1>. SUFFICES ASSUME TablesInv, Ask PROVE TablesInv'
  OBVIOUS
<1>1. UNCHANGED <<usd, held, price, rate, job, snap>>
  BY DEF Ask, accounts, market
<1>2. PICK kind \in {"season", "career"}, members \in (SUBSET Users) \ {{}} :
        table' = [NoTable EXCEPT !.at = "wallets", !.kind = kind,
                   !.cohort = IF kind = "season" THEN members \cap DOMAIN Baselines ELSE members]
  BY DEF Ask
<1>3. NoTable \in TableRecord
  <2>1. Nothing \in [Users -> Quantities] /\ Nobody \in [Users -> Nat] /\ Nobody \in [Users -> Int]
    BY DEF Nothing, Nobody, Quantities
  <2>2. <<>> \in PriceMaps
    <3>1. <<>> \in [{} -> Prices] /\ {} \in SUBSET Symbols
      OBVIOUS
    <3>. QED  BY <3>1 DEF PriceMaps, Maps
  <2>. QED  BY <2>1, <2>2 DEF TableRecord, NoTable
<1>4. /\ table' \in TableRecord /\ table'.at = "wallets" /\ table'.moved = NoTable.moved
      /\ table'.kind = "season" => table'.cohort \subseteq DOMAIN Baselines
  BY <1>2, <1>3 DEF TableRecord
<1>5. NoTable.moved = Nobody
  BY DEF NoTable
<1>6. TableSound'
  BY <1>4, <1>5 DEF TableSound
<1>. QED  BY <1>1, <1>4, <1>6, TableOnlyKeeps

LEMMA ReadWalletsKeepsTables == TablesInv /\ ReadWallets => TablesInv'
<1>. SUFFICES ASSUME TablesInv, ReadWallets PROVE TablesInv'
  OBVIOUS
<1>1. UNCHANGED <<usd, held, price, rate, job, snap>>
  BY DEF ReadWallets, TableOnly, accounts, market
<1>2. table \in TableRecord /\ usd \in [Users -> Int] /\ held \in [Users -> Quantities]
  BY DEF TablesInv, ReadersOK, AccountsOK
<1>3. /\ table' \in TableRecord /\ table'.at = "holdings" /\ table'.moved = table.moved
      /\ table'.began = held /\ table'.kind = table.kind /\ table'.cohort = table.cohort
  BY <1>2 DEF TableRecord, ReadWallets
<1>4. table.moved = Nobody
  BY DEF TablesInv, TableSound, ReadWallets
<1>5. \A u \in Users : Near(held[u], held[u], 0) /\ table'.moved[u] = 0
  BY <1>2, <1>3, <1>4, NearSame DEF Nobody
<1>6. TableSound'
  BY <1>1, <1>3, <1>5 DEF TableSound, TablesInv
<1>. QED  BY <1>1, <1>3, <1>6, TableOnlyKeeps

LEMMA ReadHoldingsKeepsTables == TablesInv /\ ReadHoldings => TablesInv'
<1>. SUFFICES ASSUME TablesInv, ReadHoldings PROVE TablesInv'
  OBVIOUS
<1>1. UNCHANGED <<usd, held, price, rate, job, snap>>
  BY DEF ReadHoldings, TableOnly, accounts, market
<1>2. table \in TableRecord /\ held \in [Users -> Quantities] /\ table.at = "holdings"
  BY DEF TablesInv, ReadersOK, AccountsOK, ReadHoldings
<1>3. /\ table' \in TableRecord /\ table'.at = "prices" /\ table'.moved = table.moved
      /\ table'.began = table.began /\ table'.held = held
      /\ table'.kind = table.kind /\ table'.cohort = table.cohort
  BY <1>2 DEF TableRecord, ReadHoldings
<1>4. TableSound'
  BY <1>2, <1>3 DEF TableSound, TablesInv
<1>. QED  BY <1>1, <1>3, <1>4, TableOnlyKeeps

LEMMA ReadPricesKeepsTables == TablesInv /\ ReadPrices => TablesInv'
<1>. SUFFICES ASSUME TablesInv, ReadPrices PROVE TablesInv'
  OBVIOUS
<1>1. UNCHANGED <<usd, held, price, rate, job, snap>>
  BY DEF ReadPrices, TableOnly, accounts, market
<1>2. table \in TableRecord /\ price \in [Symbols -> Prices] /\ table.at = "prices"
  BY DEF TablesInv, ReadersOK, AccountsOK, ReadPrices
<1>. DEFINE S == SymbolsIn(table.held, table.cohort)
            p == [s \in S |-> price[s]]
<1>3. S \in SUBSET Symbols
  BY DEF SymbolsIn, Owned
<1>. HIDE DEF S
<1>4. p \in PriceMaps /\ price \in PriceMaps
  <2>1. p \in [S -> Prices]
    BY <1>2, <1>3
  <2>2. Symbols \in SUBSET Symbols
    OBVIOUS
  <2>. QED  BY <1>2, <1>3, <2>1, <2>2 DEF PriceMaps, Maps
<1>5. table' = [table EXCEPT !.at = "answer", !.price = p, !.quotes = price]
  BY DEF ReadPrices, S
<1>6. p = [s \in S |-> price[s]]
  OBVIOUS
<1>. HIDE DEF p
<1>7. /\ table' \in TableRecord /\ table'.at = "answer" /\ table'.moved = table.moved
      /\ table'.began = table.began /\ table'.held = table.held /\ table'.quotes = price /\ table'.price = p
      /\ table'.kind = table.kind /\ table'.cohort = table.cohort
  BY <1>2, <1>4, <1>5 DEF TableRecord
<1>8. S = SymbolsIn(table'.held, table'.cohort)
  BY <1>7 DEF S
<1>9. TableSound'
  BY <1>2, <1>6, <1>7, <1>8 DEF TableSound, TablesInv
<1>. QED  BY <1>1, <1>7, <1>9, TableOnlyKeeps

LEMMA AnswerKeepsTables == TablesInv /\ Answer => TablesInv'
<1>. SUFFICES ASSUME TablesInv, Answer PROVE TablesInv'
  OBVIOUS
<1>1. UNCHANGED <<usd, held, price, rate, job, snap>> /\ table' = NoTable
  BY DEF Answer, accounts, market
<1>2. NoTable \in TableRecord
  <2>1. Nothing \in [Users -> Quantities] /\ Nobody \in [Users -> Nat] /\ Nobody \in [Users -> Int]
    BY DEF Nothing, Nobody, Quantities
  <2>2. <<>> \in PriceMaps
    <3>1. <<>> \in [{} -> Prices] /\ {} \in SUBSET Symbols
      OBVIOUS
    <3>. QED  BY <3>1 DEF PriceMaps, Maps
  <2>. QED  BY <2>1, <2>2 DEF TableRecord, NoTable
<1>3. TableSound'
  BY <1>1 DEF TableSound, NoTable
<1>. QED  BY <1>1, <1>2, <1>3, TableOnlyKeeps

-----------------------------------------------------------------------------
(* The snapshot job *)

LEMMA PutMap ==
  ASSUME NEW S, NEW V, NEW m, m \in Maps(S, V), NEW d \in S, NEW e \in V, NEW n, n = Put(m, d, e)
  PROVE  /\ n \in Maps(S, V) /\ d \in DOMAIN n /\ n[d] = e
         /\ \A x \in DOMAIN m : x \in DOMAIN n /\ (x # d => n[x] = m[x])
         /\ \A x \in DOMAIN n : x = d \/ x \in DOMAIN m
<1>1. PICK T \in SUBSET S : m \in [T -> V]
  BY DEF Maps
<1>2. T \cup {d} \in SUBSET S /\ n \in [T \cup {d} -> V]
  BY <1>1 DEF Put
<1>3. n \in Maps(S, V)
  BY <1>2 DEF Maps
<1>. QED  BY <1>3 DEF Put

\* What the caches gain later changes no row.
LEMMA RowStays ==
  ASSUME NEW u \in Users, NEW row, NEW j, NEW k, RowSound(u, row, j),
         \A s \in DOMAIN j.price : s \in DOMAIN k.price /\ k.price[s] = j.price[s],
         k.rate = j.rate \/ j.rate = None
  PROVE  RowSound(u, row, k)
<1>1. Owned(row.held) \subseteq DOMAIN j.price /\ Owned(row.held) \subseteq DOMAIN k.price
  BY DEF RowSound
<1>2. Marked(row.held, j.price) = Marked(row.held, k.price)
  BY <1>1, MarkedSame
<1>3. Cash(u, row.usd, JobRateOf(j)) = Cash(u, row.usd, JobRateOf(k))
  BY DEF Cash, RowSound, JobRateOf
<1>. QED  BY <1>1, <1>2, <1>3 DEF RowSound, JobEquity

LEMMA JobFacts ==
  ASSUME TablesInv
  PROVE  /\ job \in JobRecord /\ snap \in [Users -> Snapshot \cup {None}]
         /\ DOMAIN job.rows \subseteq Users /\ \A u \in DOMAIN job.rows : job.rows[u] \in Snapshot
         /\ \A u \in DOMAIN job.rows : RowSound(u, job.rows[u], job)
         /\ \A u \in Users : snap[u] # None => RowSound(u, snap[u], job)
         /\ DOMAIN job.price \subseteq Symbols /\ PricesOf(job.price)
         /\ JobRateOf(job) \in Nat
<1>1. job \in JobRecord /\ snap \in [Users -> Snapshot \cup {None}] /\ JobSound
  BY DEF TablesInv, ReadersOK
<1>2. job.rows \in RowMaps /\ job.price \in PriceMaps /\ job.rate \in Nat \cup {None}
  BY <1>1 DEF JobRecord
<1>3. DOMAIN job.rows \subseteq Users /\ \A u \in DOMAIN job.rows : job.rows[u] \in Snapshot
  BY <1>2 DEF RowMaps, Maps
<1>4. DOMAIN job.price \subseteq Symbols /\ \A s \in DOMAIN job.price : job.price[s] \in Prices
  BY <1>2 DEF PriceMaps, Maps
<1>. QED  BY <1>1, <1>2, <1>3, <1>4, Scales DEF JobSound, PricesOf, JobRateOf

\* A step of the job alone, whose caches only grow and whose rows stay.
LEMMA JobKeeps ==
  ASSUME TablesInv, UNCHANGED <<usd, held, price, rate, table>>,
         job' \in JobRecord, job'.rows = job.rows,
         \A s \in DOMAIN job.price : s \in DOMAIN job'.price /\ job'.price[s] = job.price[s],
         job'.rate = job.rate \/ job.rate = None,
         Publish \/ UNCHANGED snap,
         job'.at \in {"rate", "holdings", "prices"} => job'.who \in Users,
         job'.at = "rate" => job'.rate = None,
         job'.at \in {"holdings", "prices"} /\ job'.who \in DOMAIN Euros => job'.rate # None
  PROVE  TablesInv'
<1>1. AccountsOK' /\ TableSound'
  BY DEF TablesInv, AccountsOK, TableSound
<1>2. \A u \in DOMAIN job.rows : RowSound(u, job.rows[u], job')
  BY JobFacts, RowStays
<1>3. \A u \in Users : snap[u] # None => RowSound(u, snap[u], job')
  BY JobFacts, RowStays
<1>4. /\ snap' \in [Users -> Snapshot \cup {None}]
      /\ \A u \in Users : snap'[u] # None => RowSound(u, snap'[u], job')
  <2>1. CASE Publish
    <3>1. \A u \in Users : snap'[u] = IF u \in DOMAIN job.rows THEN job.rows[u] ELSE snap[u]
      BY <2>1 DEF Publish
    <3>2. snap' \in [Users -> Snapshot \cup {None}]
      BY <2>1, JobFacts DEF Publish
    <3>. QED  BY <1>2, <1>3, <3>1, <3>2
  <2>2. CASE UNCHANGED snap
    BY <1>3, <2>2, JobFacts
  <2>. QED  BY <2>1, <2>2
<1>5. ReadersOK'
  BY <1>4 DEF TablesInv, ReadersOK
<1>6. JobSound'
  BY <1>2, <1>4 DEF JobSound
<1>. QED  BY <1>1, <1>5, <1>6 DEF TablesInv

LEMMA JobStartKeepsTables == TablesInv /\ JobStart => TablesInv'
<1>. SUFFICES ASSUME TablesInv, JobStart PROVE TablesInv'
  OBVIOUS
<1>1. UNCHANGED <<usd, held, price, rate, table, snap>>
  BY DEF JobStart, JobOnly, accounts, market
<1>2. /\ job' \in JobRecord /\ job'.at = "next" /\ job'.rows = job.rows /\ job'.price = job.price
      /\ job'.rate = job.rate
  BY JobFacts DEF JobStart, JobRecord
<1>. QED  BY <1>1, <1>2, JobKeeps

LEMMA JobWalletsKeepsTables ==
  ASSUME TablesInv, NEW u \in Users, JobWallets(u)
  PROVE  TablesInv'
<1>1. UNCHANGED <<usd, held, price, rate, table, snap>>
  BY DEF JobWallets, JobOnly, accounts, market
<1>2. usd[u] \in Int
  BY DEF TablesInv, AccountsOK
<1>3. /\ job' \in JobRecord /\ job'.rows = job.rows /\ job'.price = job.price
      /\ job'.rate = job.rate /\ job'.who = u
      /\ job'.at = IF u \in DOMAIN Euros /\ job.rate = None THEN "rate" ELSE "holdings"
  BY <1>2, JobFacts DEF JobWallets, JobRecord
<1>. QED  BY <1>1, <1>3, JobKeeps

LEMMA JobRateKeepsTables == TablesInv /\ JobRate => TablesInv'
<1>. SUFFICES ASSUME TablesInv, JobRate PROVE TablesInv'
  OBVIOUS
<1>1. UNCHANGED <<usd, held, price, rate, table>> /\ (Publish \/ UNCHANGED snap)
  BY DEF JobRate, JobOnly, accounts, market
<1>0. job \in JobRecord /\ job.usd \in Int /\ usd[job.who] \in Int
  BY JobFacts DEF TablesInv, JobSound, JobRate, AccountsOK, JobRecord
<1>2. PICK r \in RateNow, read \in {job.usd, usd[job.who]} :
        job' = [job EXCEPT !.at = "holdings", !.rate = r, !.usd = read]
  <2>1. PICK r \in RateNow :
          \/ job' = [job EXCEPT !.at = "holdings", !.rate = r]
          \/ \E read \in {job.usd, usd[job.who]} :
               job' = [job EXCEPT !.at = "holdings", !.rate = r, !.usd = read]
    BY DEF JobRate
  <2>2. [job EXCEPT !.at = "holdings", !.rate = r]
          = [job EXCEPT !.at = "holdings", !.rate = r, !.usd = job.usd]
    BY <1>0 DEF JobRecord
  <2>. QED  BY <2>1, <2>2
<1>3. r \in Nat /\ r # None /\ read \in Int
  BY <1>0, StandingsAssumption DEF RateNow, TablesInv, AccountsOK
<1>4. /\ job' \in JobRecord /\ job'.rows = job.rows /\ job'.price = job.price
      /\ job'.rate = r /\ job'.who = job.who /\ job'.at = "holdings"
  BY <1>2, <1>3, JobFacts DEF JobRecord
<1>5. job.rate = None /\ job.who \in Users
  BY DEF TablesInv, JobSound, JobRate
<1>. QED  BY <1>1, <1>3, <1>4, <1>5, JobKeeps

LEMMA JobHoldingsKeepsTables == TablesInv /\ JobHoldings => TablesInv'
<1>. SUFFICES ASSUME TablesInv, JobHoldings PROVE TablesInv'
  OBVIOUS
<1>1. UNCHANGED <<usd, held, price, rate, table, snap>>
  BY DEF JobHoldings, JobOnly, accounts, market
<1>2. job.who \in Users /\ job.at = "holdings" /\ (job.who \in DOMAIN Euros => job.rate # None)
  BY DEF TablesInv, JobSound, JobHoldings
<1>3. held[job.who] \in Quantities
  BY <1>2 DEF TablesInv, AccountsOK
<1>4. /\ job' \in JobRecord /\ job'.rows = job.rows /\ job'.price = job.price
      /\ job'.rate = job.rate /\ job'.who = job.who /\ job'.at = "prices"
  BY <1>3, JobFacts DEF JobHoldings, JobRecord
<1>. QED  BY <1>1, <1>2, <1>4, JobKeeps

LEMMA JobPriceKeepsTables ==
  ASSUME TablesInv, NEW s \in Symbols, JobPrice(s)
  PROVE  TablesInv'
<1>1. UNCHANGED <<usd, held, price, rate, table, snap>>
  BY DEF JobPrice, JobOnly, accounts, market
<1>2. job.who \in Users /\ job.at = "prices" /\ (job.who \in DOMAIN Euros => job.rate # None)
  BY DEF TablesInv, JobSound, JobPrice
<1>. DEFINE p == Put(job.price, s, price[s])
<1>3. /\ price[s] \in Prices /\ s \notin DOMAIN job.price
      /\ job' = [job EXCEPT !.price = p]
  BY DEF TablesInv, AccountsOK, JobPrice, Uncached
<1>4. p \in PriceMaps /\ \A o \in DOMAIN job.price : o \in DOMAIN p /\ p[o] = job.price[o]
  <2>1. job.price \in Maps(Symbols, Prices)
    BY JobFacts DEF JobRecord, PriceMaps
  <2>. HIDE DEF p
  <2>2. p = Put(job.price, s, price[s])
    BY DEF p
  <2>3. /\ p \in Maps(Symbols, Prices)
        /\ \A o \in DOMAIN job.price : o \in DOMAIN p /\ (o # s => p[o] = job.price[o])
    BY <1>3, <2>1, <2>2, PutMap
  <2>. QED  BY <1>3, <2>3 DEF PriceMaps
<1>. HIDE DEF p
<1>5. /\ job' \in JobRecord /\ job'.rows = job.rows /\ job'.price = p
      /\ job'.rate = job.rate /\ job'.who = job.who /\ job'.at = "prices"
  BY <1>2, <1>3, <1>4, JobFacts DEF JobRecord
<1>. QED  BY <1>1, <1>2, <1>4, <1>5, JobKeeps

LEMMA JobRowKeepsTables == TablesInv /\ JobRow => TablesInv'
<1>. SUFFICES ASSUME TablesInv, JobRow PROVE TablesInv'
  OBVIOUS
<1>1. UNCHANGED <<usd, held, price, rate, table, snap>>
  BY DEF JobRow, JobOnly, accounts, market
<1>2. job.who \in Users /\ job.at = "prices" /\ (job.who \in DOMAIN Euros => job.rate # None)
  BY DEF TablesInv, JobSound, JobRow
<1>. DEFINE r == JobRateOf(job)
            row == [equity |-> JobEquity(job.who, job.usd, job.held, job.price, r), rate |-> r,
                    usd |-> job.usd, held |-> job.held]
            rows == Put(job.rows, job.who, row)
<1>3. /\ Owned(job.held) \subseteq DOMAIN job.price
      /\ job' = [job EXCEPT !.at = "next", !.left = @ \ {job.who}, !.rows = rows]
  BY DEF JobRow, JobRateOf
<1>4. job.usd \in Int /\ job.held \in Quantities /\ r \in Nat /\ PricesOf(job.price)
  BY JobFacts DEF JobRecord
<1>5. row \in Snapshot
  <2>1. JobEquity(job.who, job.usd, job.held, job.price, r) \in Int
    <3>1. Cash(job.who, job.usd, r) \in Int /\ Marked(job.held, job.price) \in Int /\ Unit \in Nat \ {0}
      BY <1>2, <1>4, CashInt, MarkedOverAll, Scales
    <3>2. HalfUp(Cash(job.who, job.usd, r), Unit) \in Int /\ HalfUp(Marked(job.held, job.price), Unit) \in Int
      BY <3>1, HalfUpNearest
    <3>. QED  BY <3>2 DEF JobEquity
  <2>. HIDE DEF r
  <2>. QED  BY <1>4, <2>1 DEF Snapshot
<1>6. RowSound(job.who, row, job)
  BY <1>2, <1>3 DEF RowSound
<1>. HIDE DEF row, r
<1>. HIDE DEF rows
<1>7. /\ rows \in RowMaps /\ rows[job.who] = row
      /\ \A u \in DOMAIN job.rows : u # job.who => rows[u] = job.rows[u]
      /\ \A u \in DOMAIN rows : u = job.who \/ u \in DOMAIN job.rows
  <2>1. job.rows \in Maps(Users, Snapshot)
    BY JobFacts DEF JobRecord, RowMaps
  <2>2. rows = Put(job.rows, job.who, row)
    BY DEF rows
  <2>. QED  BY <1>2, <1>5, <2>1, <2>2, PutMap DEF RowMaps
<1>8. /\ job' \in JobRecord /\ job'.rows = rows /\ job'.price = job.price
      /\ job'.rate = job.rate /\ job'.at = "next"
  BY <1>3, <1>7, JobFacts DEF JobRecord
<1>9. AccountsOK' /\ TableSound' /\ ReadersOK'
  BY <1>1, <1>8 DEF TablesInv, AccountsOK, TableSound, ReadersOK
<1>10. \A u \in DOMAIN rows : RowSound(u, rows[u], job')
  <2>. SUFFICES ASSUME NEW u \in DOMAIN rows PROVE RowSound(u, rows[u], job')
    OBVIOUS
  <2>1. u \in Users /\ RowSound(u, rows[u], job)
    BY <1>2, <1>6, <1>7, JobFacts
  <2>. QED  BY <1>8, <2>1, RowStays
<1>11. \A u \in Users : snap'[u] # None => RowSound(u, snap'[u], job')
  BY <1>1, <1>8, JobFacts, RowStays
<1>12. JobSound'
  BY <1>8, <1>10, <1>11 DEF JobSound
<1>. QED  BY <1>9, <1>12 DEF TablesInv

LEMMA JobSkipKeepsTables == TablesInv /\ JobSkip => TablesInv'
<1>. SUFFICES ASSUME TablesInv, JobSkip PROVE TablesInv'
  OBVIOUS
<1>1. UNCHANGED <<usd, held, price, rate, table, snap>>
  BY DEF JobSkip, JobOnly, accounts, market
<1>2. /\ job' \in JobRecord /\ job'.at = "next" /\ job'.rows = job.rows /\ job'.price = job.price
      /\ job'.rate = job.rate
  BY JobFacts DEF JobSkip, JobRecord
<1>. QED  BY <1>1, <1>2, JobKeeps

LEMMA JobEndKeepsTables == TablesInv /\ (JobDies \/ JobCommit) => TablesInv'
<1>. SUFFICES ASSUME TablesInv, JobDies \/ JobCommit PROVE TablesInv'
  OBVIOUS
<1>1. UNCHANGED <<usd, held, price, rate, table>> /\ (Publish \/ UNCHANGED snap)
  BY DEF JobDies, JobCommit, JobOnly, accounts, market
<1>2. /\ job' \in JobRecord /\ job'.at = "done" /\ job'.rows = job.rows /\ job'.price = job.price
      /\ job'.rate = job.rate
  BY JobFacts DEF JobDies, JobCommit, JobRecord
<1>. QED  BY <1>1, <1>2, JobKeeps

LEMMA NextTables == TablesInv /\ [Next]_vars => TablesInv'
<1>. SUFFICES ASSUME TablesInv, [Next]_vars PROVE TablesInv'
  OBVIOUS
<1>1. CASE UNCHANGED vars
  <2>1. UNCHANGED <<usd, held, price, rate, table, job, snap>>
    BY <1>1 DEF vars, accounts, market
  <2>. QED  BY <2>1, JobSoundSame DEF TablesInv, AccountsOK, ReadersOK, TableSound
<1>2. ASSUME NEW u \in Users, NEW s \in Symbols, Buy(u, s) PROVE TablesInv'
  BY <1>2, BuyKeepsTables
<1>3. ASSUME NEW u \in Users, NEW s \in Symbols, Sell(u, s) PROVE TablesInv'
  BY <1>3, SellKeepsTables
<1>4. ASSUME NEW u \in Users, JobWallets(u) PROVE TablesInv'
  BY <1>4, JobWalletsKeepsTables
<1>5. ASSUME NEW s \in Symbols, JobPrice(s) PROVE TablesInv'
  BY <1>5, JobPriceKeepsTables
<1>. QED
  BY <1>1, <1>2, <1>3, <1>4, <1>5, QuoteKeepsTables, AskKeepsTables, ReadWalletsKeepsTables,
     ReadHoldingsKeepsTables, ReadPricesKeepsTables, AnswerKeepsTables, JobStartKeepsTables,
     JobRateKeepsTables, JobHoldingsKeepsTables, JobRowKeepsTables, JobSkipKeepsTables,
     JobEndKeepsTables DEF Next

THEOREM TablesInvariant == Spec => []TablesInv
BY InitTables, NextTables, PTL DEF Spec

\* In one night's snapshots, however many prices and rates moved between the
\* readings of two users, the same possessions are worth the same
\* (leaderboard_service.py:80-97).
THEOREM SnapshotsAreComparable == Spec => []SnapshotsComparable
<1>1. ASSUME TablesInv PROVE SnapshotsComparable
  <2>. SUFFICES ASSUME NEW u \in Users, NEW v \in Users, snap[u] # None, snap[v] # None,
                       snap[u].usd = snap[v].usd, snap[u].held = snap[v].held,
                       Cash(u, 0, 1) = Cash(v, 0, 1)
                PROVE  snap[u].equity = snap[v].equity
    BY DEF SnapshotsComparable
  <2>. DEFINE r == JobRateOf(job)
              EuroCash(w) == IF w \in DOMAIN Euros THEN Euros[w] * 1 * QtyScale ELSE 0
              a == EuroCash(u)
              b == EuroCash(v)
  <2>1. /\ snap[u].equity = JobEquity(u, snap[u].usd, snap[u].held, job.price, r)
        /\ snap[v].equity = JobEquity(v, snap[u].usd, snap[u].held, job.price, r)
    BY <1>1, JobFacts DEF RowSound
  <2>2. r \in Nat
    BY <1>1, JobFacts
  <2>. HIDE DEF r
  <2>3. ASSUME NEW w \in Users
        PROVE  /\ EuroCash(w) \in Int
               /\ (IF w \in DOMAIN Euros THEN Euros[w] * r * QtyScale ELSE 0) = r * EuroCash(w)
    <3>1. w \in DOMAIN Euros => Euros[w] \in Nat
      BY StandingsAssumption
    <3>. QED  BY <2>2, <3>1, Scales
  <2>4. a = b
    <3>1. Cash(u, 0, 1) = 0 * Unit + a /\ Cash(v, 0, 1) = 0 * Unit + b
      BY DEF Cash
    <3>2. a \in Int /\ b \in Int /\ Unit \in Nat
      BY <2>3, Scales
    <3>. HIDE DEF a, b
    <3>. QED  BY <3>1, <3>2
  <2>5. Cash(u, snap[u].usd, r) = Cash(v, snap[u].usd, r)
    <3>. HIDE DEF EuroCash
    <3>1. (IF u \in DOMAIN Euros THEN Euros[u] * r * QtyScale ELSE 0) = r * a
      BY <2>3
    <3>2. (IF v \in DOMAIN Euros THEN Euros[v] * r * QtyScale ELSE 0) = r * b
      BY <2>3
    <3>. HIDE DEF a, b
    <3>. QED  BY <2>4, <3>1, <3>2, Zenon DEF Cash
  <2>. QED  BY <2>1, <2>5 DEF JobEquity
<1>. QED  BY <1>1, TablesInvariant, PTL

\* Whatever an account has come to hold, a table and a snapshot taken at the
\* same moment differ by one unit of 0.0001 USD at most
\* (league_service.py:258 and leaderboard_service.py:99-101).
THEOREM ReadersAgreeToAUnit == Spec => []AgreeToAUnit
<1>1. ASSUME TablesInv PROVE AgreeToAUnit
  <2>. SUFFICES ASSUME NEW u \in Users, NEW r \in RateNow PROVE Apart(u, r) \in {-1, 0, 1}
    BY DEF AgreeToAUnit
  <2>1. usd[u] \in Int /\ held[u] \in Quantities /\ r \in Nat /\ PricesOf(price)
    <3>1. usd[u] \in Int /\ held[u] \in Quantities /\ price \in [Symbols -> Prices] /\ rate \in Rates
      BY <1>1 DEF TablesInv, AccountsOK
    <3>2. r \in Nat
      BY <3>1, StandingsAssumption DEF RateNow
    <3>. QED  BY <3>1, <3>2, Scales DEF PricesOf
  <2>. QED  BY <2>1, OneAccountTwoReaders DEF Apart
<1>. QED  BY <1>1, TablesInvariant, PTL

-----------------------------------------------------------------------------
(* What a table shows *)

\* The rows of a table that has read all it needs, at the rate r.
RowOf(t, r, u) ==
  LET value == TableEquity(u, t.usd[u], t.held[u], t.price, r)
  IN  [user |-> u, value |-> value, ret |-> Return(value, Line(t.kind, u))]

LEMMA AnswerFacts ==
  ASSUME TablesInv, Answer
  PROVE  \E r \in Nat : \E order \in Sorted({RowOf(table, r, u) : u \in table.cohort}) :
           shown' = [rows |-> order, ranks |-> Ranks(order), rate |-> r, quotes |-> table.quotes,
                     kind |-> table.kind, usd |-> table.usd, moved |-> table.moved,
                     began |-> table.began]
<1>1. RateNow \subseteq Nat
  BY StandingsAssumption DEF RateNow, TablesInv, AccountsOK
<1>. QED  BY <1>1, Zenon DEF Answer, RowOf

LEMMA HalfUpMonotone ==
  ASSUME NEW m \in Int, NEW n \in Int, NEW d \in Nat \ {0}, m <= n
  PROVE  HalfUp(m, d) <= HalfUp(n, d)
BY HalfUpNearest, HalfUpUnique

LEMMA SortedRows ==
  ASSUME NEW S, NEW order \in Sorted(S), NEW i \in DOMAIN order
  PROVE  order[i] \in S
BY DEF Sorted, SetToSeqs

LEMMA AnswerShowsWorth == TablesInv /\ Answer => ShownWasWorth'
<1>. SUFFICES ASSUME TablesInv, Answer PROVE ShownWasWorth'
  OBVIOUS
<1>1. PICK r \in Nat : \E order \in Sorted({RowOf(table, r, u) : u \in table.cohort}) :
           shown' = [rows |-> order, ranks |-> Ranks(order), rate |-> r, quotes |-> table.quotes,
                     kind |-> table.kind, usd |-> table.usd, moved |-> table.moved,
                     began |-> table.began]
  BY AnswerFacts
<1>2. /\ \A i \in DOMAIN shown'.rows : shown'.rows[i] \in {RowOf(table, r, u) : u \in table.cohort}
      /\ shown'.rate = r /\ shown'.quotes = table.quotes /\ shown'.usd = table.usd
      /\ shown'.moved = table.moved /\ shown'.began = table.began
  BY <1>1, SortedRows
<1>. SUFFICES ASSUME NEW i \in DOMAIN shown'.rows
              PROVE  LET u == shown'.rows[i].user
                         worth == Cash(u, shown'.usd[u], shown'.rate) + Marked(shown'.began[u], shown'.quotes)
                         slack == shown'.moved[u] * RateDen * Max({shown'.quotes[s] : s \in Symbols})
                     IN  /\ shown'.rows[i].value <= HalfUp(worth + slack, Unit)
                         /\ shown'.rows[i].value >= HalfUp(worth - slack, Unit)
  BY DEF ShownWasWorth
<1>3. PICK u \in table.cohort : shown'.rows[i] = RowOf(table, r, u)
  BY <1>2
<1>. DEFINE q == table.quotes
            cash == Cash(u, table.usd[u], r)
            x == Marked(table.held[u], q)
            y == Marked(table.began[u], q)
            slack == table.moved[u] * RateDen * Highest(q)
<1>4. /\ shown'.rows[i].user = u
      /\ shown'.rows[i].value = HalfUp(cash + Marked(table.held[u], table.price), Unit)
  BY <1>3 DEF RowOf, TableEquity
<1>5. /\ table \in TableRecord /\ u \in Users /\ q \in [Symbols -> Prices]
      /\ table.price = [s \in SymbolsIn(table.held, table.cohort) |-> q[s]]
      /\ Near(table.held[u], table.began[u], table.moved[u])
  <2>1. table \in TableRecord /\ TableSound /\ table.at = "answer"
    BY DEF TablesInv, ReadersOK, Answer
  <2>2. u \in Users
    BY <2>1 DEF TableRecord
  <2>. QED  BY <2>1, <2>2 DEF TableSound
<1>6. /\ table.usd[u] \in Int /\ table.held[u] \in Quantities /\ table.began[u] \in Quantities
      /\ table.moved[u] \in Nat
  BY <1>5 DEF TableRecord
<1>7. Marked(table.held[u], table.price) = x
  <2>1. Owned(table.held[u]) \subseteq SymbolsIn(table.held, table.cohort) /\ Owned(table.held[u]) \subseteq Symbols
    BY DEF SymbolsIn, Owned
  <2>. QED  BY <1>5, <2>1, MarkedSame
<1>8. x <= y + slack /\ y <= x + slack
  BY <1>5 DEF Near
<1>9. cash \in Int /\ x \in Int /\ y \in Int /\ slack \in Int /\ Unit \in Nat \ {0}
  <2>1. q \in [Symbols -> Nat] /\ PricesOf(q)
    BY <1>5, Scales DEF PricesOf
  <2>2. Highest(q) \in Nat /\ RateDen \in Nat
    BY <2>1, HighestBounds, Scales
  <2>. QED  BY <1>5, <1>6, <2>1, <2>2, CashInt, MarkedOverAll, Scales
<1>. DEFINE worth == cash + y
<1>10. HalfUp(cash + x, Unit) <= HalfUp(worth + slack, Unit) /\ HalfUp(worth - slack, Unit) <= HalfUp(cash + x, Unit)
  <2>. HIDE DEF cash, x, y, slack
  <2>1. cash + x <= worth + slack /\ worth - slack <= cash + x /\ cash + x \in Int
        /\ worth + slack \in Int /\ worth - slack \in Int
    BY <1>8, <1>9
  <2>. QED  BY <1>9, <2>1, HalfUpMonotone
<1>11. slack = shown'.moved[u] * RateDen * Max({shown'.quotes[s] : s \in Symbols})
  BY <1>2 DEF Highest
<1>12. worth = Cash(u, shown'.usd[u], shown'.rate) + Marked(shown'.began[u], shown'.quotes)
  BY <1>2
<1>13. HalfUp(cash + x, Unit) \in Int /\ HalfUp(worth + slack, Unit) \in Int /\ HalfUp(worth - slack, Unit) \in Int
  <2>. HIDE DEF cash, x, y, slack
  <2>1. cash + x \in Int /\ worth + slack \in Int /\ worth - slack \in Int
    BY <1>9
  <2>. QED  BY <1>9, <2>1, HalfUpNearest
<1>14. shown'.rows[i].value = HalfUp(cash + x, Unit)
  BY <1>4, <1>7
<1>. HIDE DEF cash, x, y, slack, worth, q
<1>15. /\ shown'.rows[i].value <= HalfUp(worth + slack, Unit)
       /\ shown'.rows[i].value >= HalfUp(worth - slack, Unit)
  BY <1>10, <1>13, <1>14
<1>. QED  BY <1>4, <1>11, <1>12, <1>15

LEMMA OthersShowNothing == [Next]_vars /\ ~Answer => UNCHANGED shown
BY DEF Next, vars, Buy, Sell, Quote, Changed, Ask, ReadWallets, ReadHoldings, ReadPrices, TableOnly,
       JobStart, JobWallets, JobRate, JobHoldings, JobPrice, JobRow, JobSkip, JobDies, JobCommit, JobOnly

\* A table shows the whole worth of each account as it was when the wallets
\* were read, but for the shares its owner traded before the holdings were
\* (league_service.py:229-258).
THEOREM TablesShowWorth == Spec => []ShownWasWorth
<1>1. Init => ShownWasWorth
  BY DEF Init, NoAnswer, ShownWasWorth
<1>2. ShownWasWorth /\ UNCHANGED shown => ShownWasWorth'
  BY DEF ShownWasWorth
<1>3. TablesInv /\ ShownWasWorth /\ [Next]_vars => ShownWasWorth'
  BY <1>2, AnswerShowsWorth, OthersShowNothing
<1>. QED  BY <1>1, <1>3, TablesInvariant, PTL DEF Spec

-----------------------------------------------------------------------------
(* Ranks *)

\* HalfEven is the integer nearest to n/d, a tie going to the even one.
LEMMA HalfEvenNearest ==
  ASSUME NEW n \in Int, NEW d \in Nat \ {0}
  PROVE  /\ HalfEven(n, d) \in Int
         /\ 2 * n - d <= 2 * (d * HalfEven(n, d))
         /\ 2 * (d * HalfEven(n, d)) <= 2 * n + d
<1>. DEFINE low == n \div d  rest == n % d  dl == d * low
<1>1. low \in Int /\ rest \in 0 .. d - 1 /\ n = dl + rest
  OBVIOUS
<1>2. d * (low + 1) = dl + d /\ dl \in Int
  <2>. HIDE DEF low
  <2>. QED  BY <1>1
<1>3. HalfEven(n, d) = IF 2 * rest > d \/ (2 * rest = d /\ low % 2 = 1) THEN low + 1 ELSE low
  BY DEF HalfEven
<1>. HIDE DEF low, rest, dl
<1>4. CASE HalfEven(n, d) = low + 1 /\ 2 * rest >= d
  <2>1. d * HalfEven(n, d) = dl + d
    BY <1>2, <1>4, Zenon
  <2>. QED  BY <1>1, <1>2, <1>4, <2>1
<1>5. CASE HalfEven(n, d) = low /\ 2 * rest <= d
  <2>1. d * HalfEven(n, d) = dl
    BY <1>5, Zenon DEF dl
  <2>. QED  BY <1>1, <1>2, <1>5, <2>1
<1>. QED  BY <1>1, <1>3, <1>4, <1>5

\* The greater of two fractions is never rounded below the other.
LEMMA HalfEvenMonotone ==
  ASSUME NEW m \in Int, NEW n \in Int, NEW b \in Nat \ {0}, NEW d \in Nat \ {0}, m * d > n * b
  PROVE  HalfEven(m, b) >= HalfEven(n, d)
<1>. DEFINE x == HalfEven(m, b)  y == HalfEven(n, d)
<1>1. /\ x \in Int /\ 2 * m - b <= 2 * (b * x) /\ 2 * (b * x) <= 2 * m + b
      /\ y \in Int /\ 2 * n - d <= 2 * (d * y) /\ 2 * (d * y) <= 2 * n + d
  BY HalfEvenNearest
<1>. HIDE DEF x, y
<1>. SUFFICES ASSUME x + 1 <= y PROVE FALSE
  BY <1>1 DEF x, y
\* Both fractions would lie on the wrong side of x + 1/2.
<1>. DEFINE bx == b * x
            dx == d * x
            dy == d * y
<1>2. 2 * m <= 2 * bx + b /\ bx \in Int
  BY <1>1
<1>3. 2 * n >= 2 * dx + d /\ dx \in Int
  <2>1. d * (x + 1) <= d * y /\ d * (x + 1) = dx + d
    BY <1>1
  <2>2. dy \in Int /\ dx \in Int /\ 2 * dy <= 2 * n + d
    BY <1>1
  <2>. HIDE DEF dx
  <2>3. dx + d <= dy
    BY <2>1
  <2>. HIDE DEF dy
  <2>. QED  BY <2>2, <2>3
<1>4. (2 * m) * d <= (2 * bx + b) * d /\ (2 * n) * b >= (2 * dx + d) * b
  <2>. HIDE DEF bx, dx
  <2>1. \A i \in Int, k \in Int, e \in Nat : i <= k => i * e <= k * e
    OBVIOUS
  <2>. QED  BY <1>2, <1>3, <2>1
<1>5. (2 * bx + b) * d = (2 * dx + d) * b
  BY <1>1
<1>. DEFINE mid == (2 * dx + d) * b
<1>6. mid \in Int
  BY <1>1
<1>7. 2 * (m * d) <= mid /\ 2 * (n * b) >= mid
  BY <1>4, <1>5
<1>. HIDE DEF mid
<1>. QED  BY <1>6, <1>7

\* The step of Ranks.
RankStep(rows, rank, i) ==
  IF i > 1 /\ rows[i].ret = rows[i - 1].ret THEN rank[i - 1] ELSE i

LEMMA RanksExist ==
  ASSUME NEW rows, NEW N \in Nat, DOMAIN rows = 1 .. N
  PROVE  Ranks(rows) = [i \in 1 .. N |-> RankStep(rows, Ranks(rows), i)]
<1>. DEFINE Upto == {n \in Nat : \E f : f = [i \in 1 .. n |-> RankStep(rows, f, i)]}
<1>1. 0 \in Upto
  <2>. DEFINE f == [i \in 1 .. 0 |-> 0]
  <2>1. f = [i \in 1 .. 0 |-> RankStep(rows, f, i)]
    OBVIOUS
  <2>. QED  BY <2>1
<1>2. ASSUME NEW n \in Nat, n \in Upto PROVE n + 1 \in Upto
  <2>1. PICK f : f = [i \in 1 .. n |-> RankStep(rows, f, i)]
    BY <1>2
  <2>. DEFINE g == [i \in 1 .. n + 1 |-> RankStep(rows, f, i)]
  <2>2. \A i \in 1 .. n : g[i] = f[i]
    BY <2>1
  <2>3. \A i \in 1 .. n + 1 : RankStep(rows, f, i) = RankStep(rows, g, i)
    <3>. HIDE DEF g
    <3>1. \A i \in 1 .. n + 1 : i > 1 => i - 1 \in 1 .. n
      OBVIOUS
    <3>. QED  BY <2>2, <3>1 DEF RankStep
  <2>4. g = [i \in 1 .. n + 1 |-> RankStep(rows, g, i)]
    <3>. SUFFICES [i \in 1 .. n + 1 |-> RankStep(rows, f, i)] = [i \in 1 .. n + 1 |-> RankStep(rows, g, i)]
      OBVIOUS
    <3>. HIDE DEF g
    <3>. QED  BY <2>3
  <2>. HIDE DEF g
  <2>. QED  BY <2>4
<1>3. N \in Upto
  <2>. HIDE DEF Upto
  <2>. QED  BY <1>1, <1>2, Induct
<1>4. Ranks(rows) = CHOOSE f : f = [i \in 1 .. N |-> RankStep(rows, f, i)]
  BY Zenon DEF Ranks, RankStep
<1>. QED  BY <1>3, <1>4

\* What is true of neighbours is true of any two rows of a sorted table.
LEMMA SortedThroughout ==
  ASSUME NEW rows, NEW N \in Nat, DOMAIN rows = 1 .. N,
         \A i \in 1 .. N : rows[i].ret \in Int /\ NameKey[rows[i].user] \in Nat,
         \A i \in 1 .. N - 1 : Before(rows[i], rows[i + 1])
  PROVE  \A i, k \in 1 .. N : i <= k => Before(rows[i], rows[k])
<1>. DEFINE P == {m \in Nat : \A i \in 1 .. N : i + m <= N => Before(rows[i], rows[i + m])}
<1>1. 0 \in P
  <2>1. \A i \in 1 .. N : i + 0 = i /\ Before(rows[i], rows[i])
    BY DEF Before
  <2>. QED  BY <2>1
<1>2. ASSUME NEW m \in Nat, m \in P PROVE m + 1 \in P
  <2>. DEFINE Further == \A i \in 1 .. N : i + (m + 1) <= N => Before(rows[i], rows[i + (m + 1)])
  <2>0. m + 1 \in Nat
    OBVIOUS
  <2>. SUFFICES Further
    BY <2>0, Zenon
  <2>. SUFFICES ASSUME NEW i \in 1 .. N, i + (m + 1) <= N PROVE Before(rows[i], rows[i + (m + 1)])
    BY Zenon
  <2>. DEFINE k == i + m
  <2>1. k \in Int /\ i \in Int /\ N \in Int /\ 1 <= i /\ 0 <= m /\ k = i + m /\ i + m + 1 <= N
    OBVIOUS
  <2>2. k \in 1 .. N - 1 /\ i + (m + 1) = k + 1 /\ k \in 1 .. N /\ k + 1 \in 1 .. N
    BY <2>1
  <2>3. Before(rows[i], rows[k])
    BY <1>2, <2>2
  <2>. HIDE DEF k
  <2>4. Before(rows[k], rows[k + 1])
    BY <2>2
  <2>5. Before(rows[i], rows[k + 1])
    BY <2>2, <2>3, <2>4 DEF Before
  <2>. QED  BY <2>2, <2>5
<1>3. Nat \subseteq P
  <2>. HIDE DEF P
  <2>. QED  BY <1>1, <1>2, Induct
<1>. SUFFICES ASSUME NEW i \in 1 .. N, NEW k \in 1 .. N, i <= k PROVE Before(rows[i], rows[k])
  OBVIOUS
<1>4. k - i \in Nat /\ i + (k - i) = k
  OBVIOUS
<1>5. k - i \in P
  BY <1>3, <1>4
<1>. QED  BY <1>4, <1>5

\* Competition ranking: the members ahead of a row are those above its rank.
LEMMA RanksCount ==
  ASSUME NEW rows, NEW N \in Nat, DOMAIN rows = 1 .. N,
         \A i \in 1 .. N : rows[i].ret \in Int,
         \A i, k \in 1 .. N : i <= k => rows[i].ret >= rows[k].ret
  PROVE  \A i \in 1 .. N : /\ Ranks(rows)[i] \in 1 .. i
                           /\ {k \in 1 .. N : rows[k].ret > rows[i].ret} = 1 .. Ranks(rows)[i] - 1
<1>. DEFINE rank == Ranks(rows)
            Ahead(i) == {k \in 1 .. N : rows[k].ret > rows[i].ret}
            P == {n \in Nat : \A i \in 1 .. N : i <= n => rank[i] \in 1 .. i /\ Ahead(i) = 1 .. rank[i] - 1}
<1>0. \A i \in 1 .. N : rank[i] = RankStep(rows, rank, i)
  BY RanksExist
<1>. HIDE DEF rank
<1>1. 0 \in P
  OBVIOUS
<1>2. ASSUME NEW n \in Nat, n \in P PROVE n + 1 \in P
  <2>. SUFFICES ASSUME n + 1 \in 1 .. N
                PROVE  rank[n + 1] \in 1 .. n + 1 /\ Ahead(n + 1) = 1 .. rank[n + 1] - 1
    BY <1>2
  <2>. DEFINE i == n + 1
  <2>1. i \in 1 .. N /\ i \in Nat /\ rank[i] = RankStep(rows, rank, i)
    BY <1>0
  <2>2. CASE i > 1 /\ rows[i].ret = rows[i - 1].ret
    <3>1. i - 1 = n /\ n \in 1 .. N /\ n <= n
      BY <2>2
    <3>2. rank[n] \in 1 .. n /\ Ahead(n) = 1 .. rank[n] - 1
      BY <1>2, <3>1
    <3>3. Ahead(i) = Ahead(n) /\ rank[i] = rank[n]
      BY <2>1, <2>2, <3>1 DEF RankStep
    <3>. QED  BY <3>1, <3>2, <3>3
  <2>3. CASE ~(i > 1 /\ rows[i].ret = rows[i - 1].ret)
    <3>1. rank[i] = i
      BY <2>1, <2>3 DEF RankStep
    <3>2. ASSUME NEW k \in 1 .. N PROVE k \in Ahead(i) <=> k \in 1 .. i - 1
      <4>1. CASE k >= i
        BY <2>1, <4>1
      <4>2. CASE k < i
        <5>1. i > 1 /\ i - 1 \in 1 .. N /\ k <= i - 1 /\ i - 1 <= i
          BY <4>2
        <5>2. rows[k].ret >= rows[i - 1].ret /\ rows[i - 1].ret >= rows[i].ret /\ rows[i - 1].ret # rows[i].ret
          BY <2>1, <2>3, <5>1
        <5>. QED  BY <2>1, <4>2, <5>1, <5>2
      <4>. QED  BY <2>1, <4>1, <4>2
    <3>3. 1 .. i - 1 \subseteq 1 .. N
      BY <2>1
    <3>4. Ahead(i) = 1 .. i - 1
      BY <3>2, <3>3
    <3>. QED  BY <2>1, <3>1, <3>4
  <2>. QED  BY <2>2, <2>3
<1>3. Nat \subseteq P
  <2>. HIDE DEF P
  <2>. QED  BY <1>1, <1>2, Induct
<1>. SUFFICES ASSUME NEW i \in 1 .. N PROVE rank[i] \in 1 .. i /\ Ahead(i) = 1 .. rank[i] - 1
  BY DEF rank
<1>4. i \in P /\ i <= i
  <2>1. i \in Nat /\ i <= i
    OBVIOUS
  <2>. HIDE DEF P
  <2>. QED  BY <1>3, <2>1
<1>. QED  BY <1>4

LEMMA RowsFinite ==
  ASSUME NEW C \in SUBSET Users, NEW t, NEW r
  PROVE  LET S == {RowOf(t, r, u) : u \in C} IN IsFiniteSet(S) /\ Cardinality(S) \in Nat
<1>. DEFINE S == {RowOf(t, r, u) : u \in C}
            f == [u \in C |-> RowOf(t, r, u)]
<1>1. IsFiniteSet(C)
  BY Scales, FS_Subset
<1>2. f \in Surjection(C, S)
  BY DEF Surjection
<1>3. IsFiniteSet(S)
  <2>. HIDE DEF f, S
  <2>. QED  BY <1>1, <1>2, FS_Surjection
<1>. HIDE DEF S
<1>4. Cardinality(S) \in Nat
  BY <1>3, FS_CardinalityType
<1>. QED  BY <1>3, <1>4 DEF S

\* The order of a table is a sequence of its rows, none of them twice.
LEMMA OrderIsSequence ==
  ASSUME NEW S, Cardinality(S) \in Nat, NEW order \in Sorted(S)
  PROVE  \E N \in Nat : /\ DOMAIN order = 1 .. N /\ order \in [1 .. N -> S]
                        /\ \A i, k \in 1 .. N : i # k => order[i] # order[k]
                        /\ \A i \in 1 .. N - 1 : Before(order[i], order[i + 1])
<1>. DEFINE N == Cardinality(S)
<1>1. order \in [1 .. N -> S] /\ \A i, k \in 1 .. N : i # k => order[i] # order[k]
  BY DEF Sorted, SetToSeqs
<1>2. \A i \in 1 .. Len(order) - 1 : Before(order[i], order[i + 1])
  BY DEF Sorted
<1>. HIDE DEF N
<1>3. N \in Nat
  BY DEF N
<1>4. Len(order) = N
  BY <1>1, <1>3
<1>. QED  BY <1>1, <1>2, <1>3, <1>4

\* What a row holds.
LEMMA RowFacts ==
  ASSUME TablesInv, Answer, NEW r \in Nat, NEW u \in table.cohort
  PROVE  /\ u \in Users /\ Line(table.kind, u) \in Nat
         /\ RowOf(table, r, u) \in Row /\ RowOf(table, r, u).user = u
         /\ RowOf(table, r, u).ret = Return(RowOf(table, r, u).value, Line(table.kind, u))
<1>1. table \in TableRecord /\ TableSound /\ table.at = "answer"
  BY DEF TablesInv, ReadersOK, Answer
<1>2. u \in Users /\ table.kind \in {"season", "career"} /\ table.usd[u] \in Int
      /\ table.held[u] \in Quantities
  BY <1>1 DEF TableRecord
<1>3. Line(table.kind, u) \in Nat
  BY <1>1, <1>2, StandingsAssumption DEF Line, TableSound
<1>4. PricesOf(table.price)
  <2>1. table.price = [s \in SymbolsIn(table.held, table.cohort) |-> table.quotes[s]]
        /\ table.quotes \in [Symbols -> Prices]
    BY <1>1 DEF TableSound
  <2>2. SymbolsIn(table.held, table.cohort) \subseteq Symbols
    BY DEF SymbolsIn, Owned
  <2>. QED  BY <2>1, <2>2, Scales DEF PricesOf
<1>. DEFINE value == TableEquity(u, table.usd[u], table.held[u], table.price, r)
<1>5. value \in Int
  <2>1. Cash(u, table.usd[u], r) \in Int /\ Marked(table.held[u], table.price) \in Int /\ Unit \in Nat \ {0}
    BY <1>2, <1>4, CashInt, MarkedOverAll, Scales
  <2>. QED  BY <2>1, HalfUpNearest DEF TableEquity
<1>. HIDE DEF value
<1>6. Return(value, Line(table.kind, u)) \in Int
  <2>1. Gain(value, Line(table.kind, u)) \in Int
    BY <1>3, <1>5 DEF Gain
  <2>. QED  BY <1>3, <2>1, HalfEvenNearest DEF Return
<1>7. RowOf(table, r, u) = [user |-> u, value |-> value, ret |-> Return(value, Line(table.kind, u))]
  BY DEF RowOf, value
<1>. QED  BY <1>2, <1>3, <1>5, <1>6, <1>7 DEF Row

\* All that a new table shows.
AnswerOK(s) ==
  \E N \in Nat :
    /\ DOMAIN s.rows = 1 .. N /\ s.rows \in [1 .. N -> Row] /\ s.ranks = Ranks(s.rows)
    /\ \A i, k \in 1 .. N : s.rows[i].user = s.rows[k].user => i = k
    /\ \A i \in 1 .. N - 1 : Before(s.rows[i], s.rows[i + 1])
    /\ \A i \in 1 .. N : /\ Line(s.kind, s.rows[i].user) \in Nat
                         /\ s.rows[i].ret = Return(s.rows[i].value, Line(s.kind, s.rows[i].user))

LEMMA AnswerGives == TablesInv /\ Answer => AnswerOK(shown')
<1>. SUFFICES ASSUME TablesInv, Answer PROVE AnswerOK(shown')
  OBVIOUS
<1>. DEFINE Rows(q) == {RowOf(table, q, u) : u \in table.cohort}
<1>1. PICK r \in Nat : \E order \in Sorted(Rows(r)) :
           shown' = [rows |-> order, ranks |-> Ranks(order), rate |-> r, quotes |-> table.quotes,
                     kind |-> table.kind, usd |-> table.usd, moved |-> table.moved,
                     began |-> table.began]
  BY AnswerFacts
<1>2. PICK order \in Sorted(Rows(r)) :
           shown' = [rows |-> order, ranks |-> Ranks(order), rate |-> r, quotes |-> table.quotes,
                     kind |-> table.kind, usd |-> table.usd, moved |-> table.moved,
                     began |-> table.began]
  BY <1>1
<1>3. shown'.rows = order /\ shown'.ranks = Ranks(order) /\ shown'.kind = table.kind
  BY <1>2
<1>4. Cardinality(Rows(r)) \in Nat
  <2>1. table.cohort \in SUBSET Users
    BY DEF TablesInv, ReadersOK, TableRecord
  <2>. QED  BY <2>1, RowsFinite
<1>5. PICK N \in Nat : /\ DOMAIN order = 1 .. N /\ order \in [1 .. N -> Rows(r)]
                       /\ \A i, k \in 1 .. N : i # k => order[i] # order[k]
                       /\ \A i \in 1 .. N - 1 : Before(order[i], order[i + 1])
  <2>. HIDE DEF Rows
  <2>. QED  BY <1>4, OrderIsSequence
<1>6. ASSUME NEW i \in 1 .. N
      PROVE  /\ order[i] \in Row /\ order[i] = RowOf(table, r, order[i].user)
             /\ Line(table.kind, order[i].user) \in Nat
             /\ order[i].ret = Return(order[i].value, Line(table.kind, order[i].user))
  <2>1. PICK u \in table.cohort : order[i] = RowOf(table, r, u)
    BY <1>5
  <2>. QED  BY <2>1, RowFacts
<1>7. order \in [1 .. N -> Row]
  BY <1>5, <1>6
<1>8. \A i, k \in 1 .. N : order[i].user = order[k].user => i = k
  <2>. SUFFICES ASSUME NEW i \in 1 .. N, NEW k \in 1 .. N, order[i].user = order[k].user PROVE i = k
    OBVIOUS
  <2>1. order[i] = order[k]
    BY <1>6
  <2>. QED  BY <1>5, <2>1
<1>. QED  BY <1>3, <1>5, <1>6, <1>7, <1>8 DEF AnswerOK

LEMMA RanksAreJust == AnswerOK(shown) => RankedJustly
<1>. SUFFICES ASSUME AnswerOK(shown) PROVE RankedJustly
  OBVIOUS
<1>. DEFINE rows == shown.rows
            base(i) == Line(shown.kind, rows[i].user)
<1>1. PICK N \in Nat :
        /\ DOMAIN rows = 1 .. N /\ rows \in [1 .. N -> Row] /\ shown.ranks = Ranks(rows)
        /\ \A i, k \in 1 .. N : rows[i].user = rows[k].user => i = k
        /\ \A i \in 1 .. N - 1 : Before(rows[i], rows[i + 1])
        /\ \A i \in 1 .. N : base(i) \in Nat /\ rows[i].ret = Return(rows[i].value, base(i))
  BY DEF AnswerOK
<1>2. \A i \in 1 .. N : rows[i].ret \in Int /\ rows[i].value \in Int /\ NameKey[rows[i].user] \in Nat
  BY <1>1, StandingsAssumption DEF Row
<1>. HIDE DEF rows
<1>3. \A i, k \in 1 .. N : i <= k => Before(rows[i], rows[k])
  BY <1>1, <1>2, SortedThroughout
<1>4. \A i, k \in 1 .. N : i <= k => rows[i].ret >= rows[k].ret
  BY <1>2, <1>3 DEF Before
<1>. DEFINE Ahead(i) == {k \in 1 .. N : rows[k].ret > rows[i].ret}
            rank == Ranks(rows)
<1>5. \A i \in 1 .. N : rank[i] \in 1 .. i /\ Ahead(i) = 1 .. rank[i] - 1
  BY <1>1, <1>2, <1>4, RanksCount
<1>. HIDE DEF rank
<1>6. \A i \in 1 .. N : rank[i] = Cardinality(Ahead(i)) + 1
  <2>. SUFFICES ASSUME NEW i \in 1 .. N PROVE rank[i] = Cardinality(Ahead(i)) + 1
    OBVIOUS
  <2>1. rank[i] \in 1 .. i /\ Ahead(i) = 1 .. rank[i] - 1
    BY <1>5
  <2>2. rank[i] - 1 \in Nat
    BY <2>1
  <2>. HIDE DEF Ahead
  <2>3. Cardinality(1 .. rank[i] - 1) = rank[i] - 1
    <3>. DEFINE n == rank[i] - 1
    <3>1. n \in Nat /\ 1 \in Int /\ n \in Int
      BY <2>2
    <3>. HIDE DEF n
    <3>2. Cardinality(1 .. n) = IF 1 > n THEN 0 ELSE (n - 1) + 1
      BY <3>1, FS_Interval
    <3>3. Cardinality(1 .. n) = n
      BY <3>1, <3>2
    <3>. QED  BY <3>3 DEF n
  <2>. QED  BY <2>1, <2>3
<1>7. ASSUME NEW i \in 1 .. N, NEW k \in 1 .. N, base(i) > 0, base(k) > 0,
             (rows[i].value - base(i)) * base(k) > (rows[k].value - base(k)) * base(i)
      PROVE  rank[i] <= rank[k]
  <2>. DEFINE b == base(i)  d == base(k)  v == rows[i].value  w == rows[k].value
  <2>1. b \in Nat \ {0} /\ d \in Nat \ {0} /\ v \in Int /\ w \in Int
        /\ rows[i].ret = Return(v, b) /\ rows[k].ret = Return(w, d)
    BY <1>1, <1>2, <1>7
  <2>2. (v - b) * d > (w - d) * b
    BY <1>7
  <2>. HIDE DEF b, d, v, w
  <2>3. Gain(v, b) \in Int /\ Gain(w, d) \in Int /\ Gain(v, b) * d > Gain(w, d) * b
    <3>. DEFINE x == (v - b) * d  y == (w - d) * b
    <3>1. Gain(v, b) * d = x * 100000 /\ Gain(w, d) * b = y * 100000 /\ x \in Int /\ y \in Int
      BY <2>1 DEF Gain
    <3>2. x > y
      BY <2>2
    <3>3. Gain(v, b) \in Int /\ Gain(w, d) \in Int
      BY <2>1 DEF Gain
    <3>. HIDE DEF x, y
    <3>. QED  BY <3>1, <3>2, <3>3
  <2>4. rows[i].ret >= rows[k].ret
    BY <2>1, <2>3, HalfEvenMonotone DEF Return
  <2>5. Ahead(i) \subseteq Ahead(k)
    BY <1>2, <2>4
  <2>6. rank[i] \in 1 .. i /\ rank[k] \in 1 .. k /\ 1 .. rank[i] - 1 \subseteq 1 .. rank[k] - 1
    BY <1>5, <2>5
  <2>7. rank[i] > 1 => rank[i] - 1 \in 1 .. rank[k] - 1
    BY <2>6
  <2>. QED  BY <2>6, <2>7
<1>8. ASSUME NEW i \in 1 .. N, NEW k \in 1 .. N, rows[i].ret = rows[k].ret, i < k
      PROVE  NameKey[rows[i].user] <= NameKey[rows[k].user]
  BY <1>2, <1>3, <1>8 DEF Before
<1>9. DOMAIN shown.rows = 1 .. N /\ shown.ranks = rank /\ shown.rows = rows
  BY <1>1 DEF rank, rows
<1>10. SUFFICES ASSUME NEW i \in 1 .. N
       PROVE  /\ rank[i] = Cardinality(Ahead(i)) + 1
              /\ \A k \in 1 .. N :
                   /\ (/\ base(i) > 0 /\ base(k) > 0
                       /\ (rows[i].value - base(i)) * base(k) > (rows[k].value - base(k)) * base(i))
                         => rank[i] <= rank[k]
                   /\ (rows[i].ret = rows[k].ret /\ i < k)
                         => NameKey[rows[i].user] <= NameKey[rows[k].user]
  BY <1>9, Zenon DEF RankedJustly, BaselineOf
<1>. QED  BY <1>6, <1>7, <1>8

LEMMA AnswersSound == Spec => []AnswerOK(shown)
<1>1. Init => AnswerOK(shown)
  <2>. SUFFICES ASSUME Init PROVE AnswerOK(shown)
    OBVIOUS
  <2>1. shown.rows = <<>> /\ shown.ranks = <<>>
    BY DEF Init, NoAnswer
  <2>2. DOMAIN shown.rows = 1 .. 0 /\ shown.rows \in [1 .. 0 -> Row]
    BY <2>1
  <2>3. Ranks(shown.rows) = [i \in 1 .. 0 |-> RankStep(shown.rows, Ranks(shown.rows), i)]
    BY <2>2, RanksExist
  <2>4. shown.ranks = Ranks(shown.rows)
    BY <2>1, <2>3
  <2>. QED  BY <2>2, <2>4 DEF AnswerOK
<1>2. TablesInv /\ AnswerOK(shown) /\ [Next]_vars => AnswerOK(shown')
  BY AnswerGives, OthersShowNothing
<1>3. AnswerOK(shown') <=> AnswerOK(shown)'
  BY DEF AnswerOK
<1>. QED  BY <1>1, <1>2, <1>3, TablesInvariant, PTL DEF Spec

\* A rank is one more than the number of members strictly ahead; nobody whose
\* return is higher before it is rounded for display ranks below; names settle
\* the order of a tie and nothing else (_ranked, league_service.py:331-355).
THEOREM TablesRankJustly == Spec => []RankedJustly
BY AnswersSound, RanksAreJust, PTL

\* Of every table, and of every snapshot, the form: a user has one row at most,
\* every row has its rank, and a row of the day is what the job computes.
THEOREM TablesTypeCorrect == Spec => []TypeOK
<1>1. ASSUME TablesInv, AnswerOK(shown) PROVE TypeOK
  <2>1. AccountsOK /\ table \in TableRecord
    BY <1>1 DEF TablesInv, ReadersOK
  <2>2. table.cohort \subseteq Users /\ table.price \in PriceMaps
        /\ table.at \in {"idle", "wallets", "holdings", "prices", "answer"}
    BY <2>1 DEF TableRecord
  <2>3. DOMAIN table.price \subseteq Symbols
    BY <2>2 DEF PriceMaps, Maps
  <2>4. /\ job.at \in {"due", "next", "rate", "holdings", "prices", "done"} /\ job.left \subseteq Users
        /\ DOMAIN job.price \subseteq Symbols
        /\ \A u \in Users : snap[u] # None => snap[u] \in Snapshot
    BY <1>1, JobFacts DEF JobRecord
  <2>5. PICK N \in Nat : /\ DOMAIN shown.rows = 1 .. N /\ shown.rows \in [1 .. N -> Row]
                         /\ shown.ranks = Ranks(shown.rows)
                         /\ \A i, k \in 1 .. N : shown.rows[i].user = shown.rows[k].user => i = k
    BY <1>1 DEF AnswerOK
  <2>6. shown.rows \in Seq(Row)
    BY <2>5
  <2>7. DOMAIN shown.ranks = DOMAIN shown.rows
    <3>. DEFINE rank == Ranks(shown.rows)
    <3>1. rank = [i \in 1 .. N |-> RankStep(shown.rows, rank, i)]
      BY <2>5, RanksExist
    <3>. HIDE DEF rank
    <3>2. DOMAIN rank = 1 .. N
      BY <3>1
    <3>. QED  BY <2>5, <3>2 DEF rank
  <2>. QED  BY <2>1, <2>2, <2>3, <2>4, <2>5, <2>6, <2>7 DEF TypeOK, AccountsOK
<1>. QED  BY <1>1, TablesInvariant, AnswersSound, PTL
=============================================================================
