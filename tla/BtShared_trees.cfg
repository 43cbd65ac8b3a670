SPECIFICATION BtSharedSpec
CONSTANTS
  b1 = b1  b2 = b2  b3 = b3
  u1 = u1  u2 = u2  u3 = u3
  Btree = {b1, b2, b3}
  Object = {o1, o2, o3}
  Path = {p1, p2}
  Caller = {u1, u2, u3}
  CallerOf <- ThreeCallers
  Null = Null
  Junk = Junk
  MallocFails = FALSE
  MaxRef = 5
INVARIANT TreesComplete
CHECK_DEADLOCK FALSE
