SPECIFICATION EconomySpec
CONSTANTS
  HalfSpread = 500  FxSpread = 100  QtyScale = 10  MinTrade = 1
  Quotes = {6, 7, 57}
  OtherNum = 7  OtherDen = 2  RateScale = 100
  AmountScale = 4
  Lots = {1, 2, 3, 5, 9}
  Amounts = {1, 2, 5, 14, 23}
  Stake = 40
  MaxOps = 6
INVARIANT DriftBounded
CHECK_DEADLOCK FALSE
