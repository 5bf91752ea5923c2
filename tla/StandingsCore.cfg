SPECIFICATION Spec
CONSTANTS
  HalfSpread = 2000
  FxSpread = 100
  QtyScale = 2
  MinTrade = 1
  Users = {1, 2, 3}
  Symbols = {aapl}
  NameKey <- Names
  Prices = {3, 5}
  Rates = {1, 3}
  RateDen = 2
  Euros <- OneForeign
  Baselines <- TwoLines
  Opening = 4
  Grant = 4
  MaxChanges = 3
  MaxTables = 1
  None = None
INVARIANTS
  RankedJustly
  ShownWasWorth
  SnapshotsComparable
  AgreeToAUnit
CHECK_DEADLOCK FALSE
