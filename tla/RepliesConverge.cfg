\* A root is removed and restored, and its answer removed, while the branch is fanned out.
CONSTANTS
  Replies <- MCReplies
  Agents = {"a", "b"}
  Author = "a"
  RootAuthor = "b"
  ChildAuthor = "b"
  FeedbackIds = {1, 2}
  FanoutBatch = 1
  WorkBatch = 2
  MinParticipants = 1
  MinPositive = 1
  ThreadAttempts = 2
  Sessions = {"u", "p"}
  Projector = "p"
  MaxActs = 3
  MaxThreadFaults = 0
SPECIFICATION ThreadSpec
INVARIANT RepliesConverge
CHECK_DEADLOCK FALSE
