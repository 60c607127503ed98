CONSTANTS
  p1 = p1
  p2 = p2
  Packagers = {p1, p2}
  Platforms = 2
  Host = 2
  MaxEdits = 1
  NoFile = NoFile
  Partial = Partial
  Stuck = Stuck
SYMMETRY Symmetric
SPECIFICATION MCSpec
INVARIANTS AnswerMatchesDisk PublishedComplete NothingLeftBehind LeaksAreReported
PROPERTY Publishes
