SPECIFICATION Spec
CONSTANTS
  Entries <- MCEntries
  Packages = {"sys", "ime1", "ime2", "app", "app2"}
  Matches <- MCMatches
  Removes <- MCRemoves
  StaticDefaults = {"sys"}
  TerminalDefaults = {"app*"}
  MaxVersion = 1
  Keyboard <- MCKeyboard
  Accessibility <- MCAccessibility
  UserFiles <- MCUserFiles
  TerminalFiles <- MCTerminalFiles
  Denied <- MCDenied
  Faults = {}
  MaxEdits = 1
  Nil = Nil
INVARIANT RemovalsHold
CHECK_DEADLOCK FALSE
