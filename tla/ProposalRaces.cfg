\* Two transactions at a time on one proposal, with the quorum of the code, and
\* one edit of its scope.
CONSTANTS
  m1 = m1  m2 = m2  m3 = m3  m4 = m4  s1 = s1  s2 = s2
  Members = {m1, m2, m3, m4}
  Scopes = {"TOPIC"}
  Kinds = {"NORMAL"}
  EligibleCounts = {2, 3}
  MinQuorum = 3
  Phase = 1
  Lifetime = 3
  MaxNow = 3
  MaxProposals = 1
  MaxRevision = 1
  MaxVersion = 2
  Sessions = {s1, s2}
SPECIFICATION Spec
SYMMETRY MCSymmetry
INVARIANTS TypeOK DecisionsFollowVotes HoldMatchesCase
PROPERTIES DecisionsStand
CHECK_DEADLOCK FALSE
