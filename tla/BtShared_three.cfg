SPECIFICATION BtSharedSpec
CONSTANTS
  b1 = b1  b2 = b2  b3 = b3
  u1 = u1  u2 = u2  u3 = u3
  Btree = {b1, b2, b3}
  Object = {o1, o2, o3}
  Path = {p1}
  Caller = {u1, u2, u3}
  CallerOf <- ThreeCallers
  Null = Null
  Junk = Junk
  MallocFails = TRUE
  MaxRef = 5
SYMMETRY ObjectSymmetry
INVARIANTS BtSharedTypeOK EnvOutlivesHandles OneEnvPerPath OwnershipInv
CHECK_DEADLOCK FALSE
