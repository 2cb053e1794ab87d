\* Two transactions at a time on a post or a reply that is edited and removed.
CONSTANTS
  author = author  r1 = r1  r2 = r2  r3 = r3  j1 = j1  j2 = j2  j3 = j3
  s1 = s1  s2 = s2
  Author = author
  Reporters = {r1, r2, r3}
  Judges = {}
  LevelOf <- MCEvenLevels
  TargetTypes = {"POST", "REPLY"}
  Sessions = {s1, s2}
  QuotaLeft = 1
  Bans = FALSE
  MaxVersion = 2
  MaxRound <- MCSecondRoundOfV1
SPECIFICATION Spec
SYMMETRY MCSymmetry
INVARIANTS StateFollowsCase RemovalHasStandingVerdict PenaltiesFollowVerdicts
PROPERTIES OnlyCorrectionRestores
CHECK_DEADLOCK FALSE
