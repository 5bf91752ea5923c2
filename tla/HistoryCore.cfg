SPECIFICATION HistorySpec
CONSTANTS
  NoProfile = NoProfile
  Tickers = 6
  Budget = 2
  Profile <- Profiles
  Quoted = {1, 2, 3, 5}
  MaxFaults = 1
  Listed = {1, 2, 5, 6}
  Window = 5
  MinRows = 2
  PerRun = 2
  Chunk = 2
  Providers = {"alpaca", "massive"}
  Weekend = {5, 10}
  Holidays = {8}
  MaxDay = 14
INVARIANTS EveryTickerLoads CorrectedEveryPeriod
PROPERTY OfficialKept
CHECK_DEADLOCK FALSE
