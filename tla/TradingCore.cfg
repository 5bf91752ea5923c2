SPECIFICATION Spec
CONSTANTS
  u1 = u1  u2 = u2  aapl = aapl  t1 = t1  t2 = t2  t3 = t3
  NoRow = NoRow  NoThread = NoThread
  HalfSpread = 2000  FxSpread = 500  QtyScale = 1  MinTrade = 1
  Users = {u1}
  Threads = {t1, t2, t3}
  Symbols = {aapl}
  MaxWallets = 2
  HoldingIds = {1, 2, 3}
  Prices = {2, 3}
  Quantities = {1, 2}
  AmountScale = 2
  Amounts = {3}
  Rate <- RateTable
  DustLimit = 1
  Opening <- TwoWallets
  Ops = {"buy", "sell", "transfer"}
  RatesExpire = FALSE
  MaxRequests = 4
INVARIANTS LockedReadsCurrent NoOverdraft LedgerReconciles RowPerWallet DeadlockNeedsSaleAndBuy
SYMMETRY ThreadSymmetry
PROPERTY LedgerSpec
CHECK_DEADLOCK FALSE
