SPECIFICATION Spec
CONSTANTS
  u1 = u1  u2 = u2  u3 = u3  u4 = u4  t1 = t1  t2 = t2
  Users <- FourUsers
  Threads <- TwoThreads
  MaxShadows = 1
  MaxFollowing = 1
  MaxRequests = 4
  NoThread = NoThread
  NoRequest = NoRequest
INVARIANTS TradesToldToShadowsOnly CapsBounded
PROPERTIES AcceptedByInvitee EndsByChoice
SYMMETRY Symmetry
CHECK_DEADLOCK FALSE
