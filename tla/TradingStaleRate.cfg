SPECIFICATION Spec
CONSTANTS
  u1 = u1  u2 = u2  aapl = aapl  t1 = t1  t2 = t2  t3 = t3
  NoRow = NoRow  NoThread = NoThread
  HalfSpread = 2000  FxSpread = 500  QtyScale = 1  MinTrade = 1
  Users = {u1}
  Threads = {t1, t2}
  Symbols = {aapl}
  MaxWallets = 2
  HoldingIds = {1}
  Prices = {2}
  Quantities = {1}
  AmountScale = 2
  Amounts = {4}
  Rate <- RateTable
  DustLimit = 1
  Opening <- TwoWallets
  Ops = {"transfer"}
  RatesExpire = TRUE
  MaxRequests = 2
INVARIANTS NoOverdraft
CHECK_DEADLOCK FALSE
