SPECIFICATION LiveSpec
CONSTANTS
  MaxSups = 2
  Terminals = 2
  MaxEvents = 3
  Kinds = {"daemon", "stop", "restart"}
  CrashLimit = 2
  Faults = {"crash", "kill", "reboot", "timeout", "fork", "disk"}
  Torn = Torn
  Dead = Dead
  Nil = Nil
INVARIANTS SupervisorTypeOK SigtermIsFinal StopHolds OneSupervisor Reachable
PROPERTIES CommandsServed ReadyIsTrue Recovers
CHECK_DEADLOCK FALSE
