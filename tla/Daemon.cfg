SPECIFICATION Spec
CONSTANTS
  c1 = c1  c2 = c2  c3 = c3
  u1 = u1  u2 = u2
  p1 = p1  p2 = p2
  Nil = Nil
  Conns = {c1, c2, c3}
  Uids = {u1, u2}
  Root = u1
  UidOf <- MCUidOf
  Says <- MCSaysWatch
  Tokens = {t1, t2, t3}
  Packages = {p1}
  CgroupStates = {"a"}
  TopOf <- MCTopOf
  PayloadOf <- MCPayloadOf
  NoPayload = ""
  Boots <- MCServing
  SlowConns = {}
  Faults = {"accept", "add", "cred", "reuse"}
  AcceptBurst = 1
  MaxEvents = 2
  MaxSwitches = 1
SYMMETRY TwinSymmetry
INVARIANTS TypeOK ReverseMapExact InterestOwned HeldOnce OnlyAllowedServed
PROPERTIES ServedAsPromised IterationEnds
CHECK_DEADLOCK FALSE
