SPECIFICATION LiveSpec
CONSTANTS
  c1 = c1  c2 = c2  c3 = c3
  u1 = u1  u2 = u2
  p1 = p1  p2 = p2
  Nil = Nil
  Conns = {c1, c2}
  Uids = {u1, u2}
  Root = u1
  UidOf <- MCUidOf1
  Says <- MCSaysAll
  Tokens = {t1, t2}
  Packages = {p1, p2}
  CgroupStates = {"a"}
  TopOf <- MCTopOf
  PayloadOf <- MCPayloadOf
  NoPayload = ""
  Boots <- MCObserver
  SlowConns = {}
  Faults = {}
  AcceptBurst = 2
  MaxEvents = 8
  MaxSwitches = 1
PROPERTIES EventuallyServed EventuallyCurrent ImplementsService
CHECK_DEADLOCK FALSE
