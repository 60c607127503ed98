SPECIFICATION FairSpec
CONSTANTS
  c1 = c1
  c2 = c2
  c3 = c3
  Calls = {c1, c2}
  NoCall = NoCall
  MaxAttempts = 2
  Overlap = TRUE
  HotReload = FALSE
  Native = TRUE
INVARIANT Consistent
INVARIANT NoCrashLost
PROPERTY ReportedIsLaunched
PROPERTY CrashNoticed
PROPERTY EveryCallAnswered
