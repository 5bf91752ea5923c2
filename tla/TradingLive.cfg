SPECIFICATION LiveSpec
CONSTANTS
  u1 = u1  u2 = u2  aapl = aapl  t1 = t1  t2 = t2  t3 = t3
  NoRow = NoRow  NoThread = NoThread
  HalfSpread = 2000  FxSpread = 500  QtyScale = 1  MinTrade = 1
  Users = {u1, u2}
  Threads = {t1, t2}
  Symbols = {aapl}
  MaxWallets = 3
  HoldingIds = {1, 2, 3}
  Prices = {2}
  Quantities = {1}
  AmountScale = 2
  Amounts = {3}
  Rate <- RateTable
  DustLimit = 1
  Opening <- OneEach
  Ops = {"buy", "sell", "transfer", "create", "delete"}
  RatesExpire = TRUE
  MaxRequests = 3
PROPERTIES OneUserAtATime EveryRequestAnswered
CHECK_DEADLOCK FALSE
