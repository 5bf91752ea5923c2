SPECIFICATION Spec
CONSTANTS
  u1 = u1  u2 = u2  u3 = u3  t1 = t1  t2 = t2
  NoUser = NoUser  NoThread = NoThread
  Users = {u1, u2, u3}
  Threads = {t1, t2}
  MaxMembers = 2
  MaxPerUser = 2
  MaxRequests = 4
INVARIANTS OwnerIsMember OverCapBounded
PROPERTY BookSpec
SYMMETRY Symmetry
CHECK_DEADLOCK FALSE
