\* Two transactions at a time on one version of a post, judged by three judges.
CONSTANTS
  author = author  r1 = r1  r2 = r2  r3 = r3  j1 = j1  j2 = j2  j3 = j3
  s1 = s1  s2 = s2
  Author = author
  Reporters = {r1, r2, r3}
  Judges = {j1, j2, j3}
  LevelOf <- MCGradedLevels
  TargetTypes = {"POST"}
  Sessions = {s1, s2}
  QuotaLeft = 1
  Bans = TRUE
  MaxVersion = 1
  MaxRound <- MCOneRound
SPECIFICATION Spec
SYMMETRY MCSymmetry
INVARIANTS TypeOK NoOpenAssignmentAfterVerdict VerdictsAreSound
CHECK_DEADLOCK FALSE
