SPECIFICATION LiveSpec
CONSTANTS
  Entries <- MCEntries
  Packages = {"sys", "ime1", "ime2", "app", "app2"}
  Matches <- MCMatches
  Removes <- MCRemoves
  StaticDefaults = {"sys"}
  TerminalDefaults = {"app*"}
  MaxVersion = 1
  Keyboard <- MCKeyboard
  Accessibility <- MCAccessibility
  UserFiles <- MCUserFiles
  TerminalFiles <- MCTerminalFiles
  Denied <- MCDenied
  Faults = {"command", "write"}
  MaxEdits = 2
  Nil = Nil
INVARIANTS ReloadTypeOK InForce DefaultsCurrent AdditionsHold RemovalsHoldAtFirst
PROPERTIES ComesToRest Quiesces
CHECK_DEADLOCK FALSE
