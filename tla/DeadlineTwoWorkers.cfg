CONSTANTS
  Cases = {c1}
  Workers = {w1, w2}
  Tokens = {1, 2, 3, 4, 5, 6}
  BatchSize = 50
  Attempts = 1
  MaxStalled = 1
  MaxCrashes = 1
  MaxErrors = 0
  CrashPoints <- MCAllCrashPoints
  ErrorPoints <- MCAllErrorPoints
SPECIFICATION Spec
INVARIANTS TypeOK TerminalIsQuiet PublishedMeansDelivered OneLeaseHolder
PROPERTIES TimelineSpec
SYMMETRY MCSymmetry
CHECK_DEADLOCK FALSE
