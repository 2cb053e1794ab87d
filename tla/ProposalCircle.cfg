\* Both scopes at the same time, circles of both kinds, edits and bans; and
\* revisions of one proposal.
CONSTANTS
  m1 = m1  m2 = m2  m3 = m3  m4 = m4  s1 = s1  s2 = s2
  Members = {m1}
  Scopes = {"TOPIC", "RULES"}
  Kinds = {"NORMAL", "OFFICIAL"}
  EligibleCounts = {3}
  MinQuorum = 1
  Phase = 1
  Lifetime = 2
  MaxNow = 1
  MaxProposals = 1
  MaxRevision = 2
  MaxVersion = 2
  Sessions = {s1, s2}
SPECIFICATION CircleSpec
SYMMETRY MCSymmetry
INVARIANTS CircleIsKept DueCanAdvance RevisionsAreDecided
CHECK_DEADLOCK FALSE
