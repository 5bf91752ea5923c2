SPECIFICATION LiveSpec
CONSTANTS
  aapl = aapl  tsla = tsla
  Symbols = {aapl, tsla}
  Prices <- SomePrices
  Rankings <- OneHot
  MaxTrades <- SomeTrades
  MaxFaults = 1
  NoSet = NoSet
INVARIANTS NewestKept
PROPERTIES NeverBackward PickedUp CatchesUp
CHECK_DEADLOCK FALSE
