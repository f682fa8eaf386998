SPECIFICATION Spec
CONSTANTS
  ua = ua  ub = ub  ut = ut  uh = uh  ui = ui
  Daemon = Daemon
  Nil = Nil
  Torn = Torn
  AppUids = {ua, ub, ut, uh, ui}
  Packages = {"app", "new", "term", "home", "systemui", "sh", "isolated", "zygote"}
  MaxVersion = 1
  Listing <- MCListing
  Procs = {Daemon}
  Settings <- MCSettings
  MaxStarts = 1
  Pids = {1, 2, 3}
  Programs = {"app", "new", "term", "shell", "home", "isolated", "systemui", "zygote"}
  UidOf <- MCUidOf
  CmdOf <- MCCmdOf
  Becomes <- MCBecomes
  FirstScreens <- MixedScreens
  Arrivals <- MixedArrivals
  Scores <- MCScores
  Blocked = {"systemui"}
  Terminals = {"term"}
  SystemNames = {"systemui"}
  Launcher = "home"
  MaxMoves = 1
INVARIANTS ResolverTypeOK BestAnswered AnswerAdmitted VerdictsTrue DismissedRightly
CHECK_DEADLOCK FALSE
