\* A correction of the verdict about an older version.
CONSTANTS
  author = author  r1 = r1  r2 = r2  r3 = r3  j1 = j1  j2 = j2  j3 = j3
  s1 = s1  s2 = s2
  Author = author
  Reporters = {r1, r2, r3}
  Judges = {}
  LevelOf <- MCEvenLevels
  TargetTypes = {"POST"}
  Sessions = {s1}
  QuotaLeft = 1
  Bans = FALSE
  MaxVersion = 2
  MaxRound <- MCSecondRoundOfV1
SPECIFICATION Spec
PROPERTIES CorrectionReopensReporting
CHECK_DEADLOCK FALSE
