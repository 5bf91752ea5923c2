------------------------------- MODULE Economy -------------------------------
(***************************************************************************)
(* What trading and converting cost a single user when nothing else moves: *)
(* one stock at a constant price, a USD wallet and one in another currency *)
(* at a constant rate.  The market gives nothing here, so what the user    *)
(* gains or loses is spreads and rounding alone: that of the amounts       *)
(* (Transfers), and that of the reverse rate, which the code derives as    *)
(* the reciprocal of the one it fetched and stores in a column of its own. *)
(***************************************************************************)
EXTENDS Transfers

CONSTANTS
  Quotes,               \* quotes to start from, in money units
  OtherNum, OtherDen,   \* units of the other currency for one dollar unit
  RateScale,            \* units of the rate column in one (10^8 in the code)
  Lots,                 \* quantities traded
  Amounts,              \* amounts transferred
  Stake,                \* the balance the user starts with
  MaxOps                \* operations (bound)

ASSUME RateAssumption ==
  OtherNum \in Nat \ {0} /\ OtherDen \in Nat \ {0} /\ RateScale \in Nat \ {0}
ASSUME AmountAssumption ==
  /\ Stake \in Nat /\ MaxOps \in Nat
  /\ Quotes \subseteq Nat \ {0} /\ Lots \subseteq Nat \ {0} /\ Amounts \subseteq Nat \ {0}

VARIABLES
  quote,     \* stock_price.current_price
  dollars,   \* balance of the USD wallet
  other,     \* balance of the other wallet
  qty,       \* users_stock_wallet.quantity
  turned,    \* units of the other currency that conversions back have debited
  ops

economy == <<quote, dollars, other, qty, turned, ops>>

\* _refresh_rates: the reciprocal, rounded to the column that stores it.
ReverseNum == HalfUp(RateScale * OtherDen, OtherNum)

EconomyInit ==
  /\ quote \in Quotes
  /\ dollars = Stake /\ other = 0 /\ qty = 0 /\ turned = 0 /\ ops = 0

Operation == ops < MaxOps /\ ops' = ops + 1 /\ UNCHANGED quote

\* Against the cost after the spread.
Affords(q) == dollars >= BuyCost(quote, q)

\* buy_stocks: worth the minimum at the quote, affordable at the ask.
BuyStock == \E q \in Lots :
  /\ Operation
  /\ WorthBuying(quote, q) /\ Affords(q)
  /\ dollars' = dollars - BuyCost(quote, q)
  /\ qty' = qty + q
  /\ UNCHANGED <<other, turned>>

\* sell_stock: no minimum, but never for nothing.
SellStock == \E q \in Lots :
  /\ Operation
  /\ qty >= q /\ SellProceeds(quote, q) > 0
  /\ dollars' = dollars + SellProceeds(quote, q)
  /\ qty' = qty - q
  /\ UNCHANGED <<other, turned>>

\* transfer_funds between the two wallets, either way.
ConvertOut == \E a \in Amounts : LET credit == Net(Gross(a, OtherNum, OtherDen)) IN
  /\ Operation
  /\ dollars * AmountScale >= a /\ credit > 0
  /\ dollars' = Debited(dollars, a) /\ other' = other + credit
  /\ UNCHANGED <<qty, turned>>

ConvertBack == \E a \in Amounts : LET credit == Net(Gross(a, ReverseNum, RateScale)) IN
  /\ Operation
  /\ other * AmountScale >= a /\ credit > 0
  /\ other' = Debited(other, a) /\ dollars' = dollars + credit
  /\ turned' = turned + other - other'
  /\ UNCHANGED qty

EconomyNext == BuyStock \/ SellStock \/ ConvertOut \/ ConvertBack

EconomySpec == EconomyInit /\ [][EconomyNext]_economy

-----------------------------------------------------------------------------
(* Properties *)

\* Balances and holdings are never negative.
EconomyTypeOK ==
  /\ quote \in Quotes /\ dollars \in Nat /\ other \in Nat /\ qty \in Nat
  /\ turned \in Nat /\ ops \in 0 .. MaxOps

\* What the user owns at the quote and the rate, exactly: in units of the other
\* currency over 2 * QtyScale * OtherDen.
Worth ==
  2 * ((dollars * QtyScale + quote * qty) * OtherNum + other * QtyScale * OtherDen)

\* What the user has gained beyond half a unit of each currency an operation.
Drift == Worth - 2 * Stake * QtyScale * OtherNum - ops * QtyScale * (OtherNum + OtherDen)

\* Rounding can favour the user by half a unit of each currency an operation,
\* and the rounding of the reverse rate by half a unit of its column for every
\* unit converted back (and for half a unit an operation), and by no more: no
\* sequence of trades and conversions beats the spreads by more than the
\* rounding of its steps.
DriftBounded ==
  2 * RateScale * Drift <= QtyScale * OtherNum * (2 * turned + ops)

\* The fees recorded are never negative: a buyer never pays less than the quote
\* and a seller never gets more, after rounding, at any quantity.
SpreadsCost == \A q \in Lots :
  SellProceeds(quote, q) <= MarketValue(quote, q) /\ MarketValue(quote, q) <= BuyCost(quote, q)

-----------------------------------------------------------------------------
(* What the comments promise and the code breaks: TLC refutes each *)

\* "The economy is deflationary. Money leaves on every trade and never returns"
\* (docs/economy-and-leaderboards.md): at a constant price nobody ends with
\* more cash than he started with.
NeverRicher == dollars <= Stake

\* "Quantizing both sides" (transfer_funds): whatever is credited to one wallet
\* has been debited from the other.
CreditsArePaid ==
  [][(other' > other => dollars' < dollars)
     /\ (dollars' > dollars /\ qty' = qty => other' < other)]_economy
=============================================================================
