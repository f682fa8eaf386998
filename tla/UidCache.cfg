SPECIFICATION CacheSpec
CONSTANTS
  u1 = u1  u2 = u2
  p1 = p1  p2 = p2
  Daemon = Daemon  cli = cli
  Nil = Nil
  Torn = Torn
  AppUids = {u1, u2}
  Packages = {p1, p2}
  MaxVersion = 2
  Listing <- MCListing
  Procs = {Daemon, cli}
  Settings <- MCSettings
  MaxStarts = 2
INVARIANTS CacheTypeOK FileFresh CacheFresh ChangeNoticed OnlyFailuresAddUp
PROPERTY KnownStaysKnown
CHECK_DEADLOCK FALSE
