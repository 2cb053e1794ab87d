\* One API process, as compose.yaml.example deploys it.
CONSTANTS
  Cases = {c1}
  Workers = {w1}
  Tokens = {1, 2, 3, 4, 5, 6}
  BatchSize = 50
  Attempts = 2
  MaxStalled = 1
  MaxCrashes = 1
  MaxErrors = 0
  CrashPoints <- MCAllCrashPoints
  ErrorPoints <- MCSafeErrorPoints
SPECIFICATION FairSpec

PROPERTIES ExpiredLeaseIsReclaimed
CHECK_DEADLOCK FALSE
