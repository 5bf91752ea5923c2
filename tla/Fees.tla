-------------------------------- MODULE Fees --------------------------------
(***************************************************************************)
(* The arithmetic of a trade: the half spread applied on either side of a  *)
(* quote, and the rounding of money to the scale of its columns            *)
(* (utils/fees.py, utils/validation_utils.py, and the lines of             *)
(* stocks_service.py that call them).                                      *)
(*                                                                         *)
(* Money is an integer, in units of the column scale (0.0001), and so are  *)
(* quantities, in 1/QtyScale of a share.  Spreads are in basis points.     *)
(***************************************************************************)
EXTENDS Integers

CONSTANTS
  HalfSpread,   \* TRADE_HALF_SPREAD, in basis points
  FxSpread,     \* FX_SPREAD, in basis points
  QtyScale,     \* quantity units in one share (10^6 in the code)
  MinTrade      \* MIN_TRADE_VALUE, in money units

Bps == 10000

\* _decimal_env refuses a spread outside [0, 0.5).
ASSUME SpreadAssumption == HalfSpread \in 0 .. 4999 /\ FxSpread \in 0 .. 4999
ASSUME ScaleAssumption == QtyScale \in Nat \ {0} /\ MinTrade \in Nat \ {0}

\* quantize_money of n/d: to the nearest unit, a tie going up.
HalfUp(n, d) == (2 * n + d) \div (2 * d)

MarketValue(price, qty) == HalfUp(price * qty, QtyScale)

AskBelowQuote(price, qty) ==
  HalfUp(price * (Bps - HalfSpread) * qty, Bps * QtyScale)

\* buy_execution_price: what a buyer pays, at the ask.
BuyCost(price, qty) == HalfUp(price * (Bps + HalfSpread) * qty, Bps * QtyScale)

\* sell_execution_price: what a seller receives, at the bid.
SellProceeds(price, qty) ==
  HalfUp(price * (Bps - HalfSpread) * qty, Bps * QtyScale)

\* A buy is refused below MIN_TRADE_VALUE, measured before the spread.
WorthBuying(price, qty) == MarketValue(price, qty) >= MinTrade
=============================================================================
