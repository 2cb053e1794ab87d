\* One API process, as compose.yaml.example deploys it.
CONSTANTS
  Cases = {c1, c2}
  OtherCase = c2
  Workers = {w1}
  Tokens = {1, 2, 3, 4, 5, 6}
  BatchSize = 1
  Attempts = 2
  MaxStalled = 1
  MaxCrashes = 1
  MaxErrors = 3
  CrashPoints <- MCSafeCrashPoints
  ErrorPoints <- MCSafeErrorPoints
SPECIFICATION RecoverySpec
INVARIANTS NeverForgotten
PROPERTIES EveryCaseIsResolved
CHECK_DEADLOCK FALSE
