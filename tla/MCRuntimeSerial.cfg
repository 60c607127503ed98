SPECIFICATION Spec
CONSTANTS
  c1 = c1
  c2 = c2
  c3 = c3
  Calls = {c1, c2}
  NoCall = NoCall
  MaxAttempts = 3
  Overlap = FALSE
  HotReload = TRUE
  Native = TRUE
SYMMETRY Symmetric
INVARIANT NoOrphan
INVARIANT MarkedExitedAlone
INVARIANT Serial
PROPERTY NoRequestDuringTeardown
PROPERTY Supervised
