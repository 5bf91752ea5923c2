SPECIFICATION AccountSpec
CONSTANTS
  t1 = t1  t2 = t2  aapl = aapl  msft = msft  gone = gone
  Threads <- TwoThreads
  MaxAttempts = 2
  Ttl = 1
  Second = 2
  Cooldown = 1
  MaxCodes = 3
  MaxRequests = 5
  FirstServed = 1
  MaxClock = 2
  Passwords = {1, 2}
  MaxTokens = 2
  Symbols = {aapl, msft, gone}
  Listed = {aapl, msft}
  Cap = 1
  NoRequest = NoRequest
INVARIANTS OnlyNewestLive SessionNeedsProof LateWritesBounded ListOverCapBounded
PROPERTIES NoRevival YesOnceBeforeCap
SYMMETRY Symmetry
CHECK_DEADLOCK FALSE
