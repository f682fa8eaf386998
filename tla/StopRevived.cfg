SPECIFICATION Spec
CONSTANTS
  MaxSups = 1
  Terminals = 2
  MaxEvents = 2
  Kinds = {"daemon", "stop"}
  CrashLimit = 3
  Faults = {}
  Torn = Torn
  Dead = Dead
  Nil = Nil
INVARIANT StoppedStays
CHECK_DEADLOCK FALSE
