\* A proposal revised when less than two phases are left.
CONSTANTS
  m1 = m1  m2 = m2  m3 = m3  m4 = m4  s1 = s1  s2 = s2
  Members = {m1, m2, m3, m4}
  Scopes = {"TOPIC"}
  Kinds = {"NORMAL"}
  EligibleCounts = {3}
  MinQuorum = 3
  Phase = 2
  Lifetime = 4
  MaxNow = 3
  MaxProposals = 1
  MaxRevision = 2
  MaxVersion = 1
  Sessions = {s1}
SPECIFICATION Spec
SYMMETRY MCSymmetry
INVARIANT ObjectedGoesToVote
CHECK_DEADLOCK FALSE
