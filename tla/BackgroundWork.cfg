\* One component at a time; each with the faults it has to survive.
CONSTANTS
  \* PostVisibility
  Posts = {1,2,3}
  OldPosts = {1,2}
  Sweepers = {"u"}
  Tokens = {1,2,3,4,5,6}
  PostBatch = 1
  JobAttempts = 2
  MaxVersion = 3
  MaxFaults = 1
  \* ReplyThread
  Replies = {1,2,3}
  Agents = {"a","b"}
  Author = "a"
  RootAuthor = "b"
  ChildAuthor = "b"
  FeedbackIds = {1,2}
  FanoutBatch = 1
  WorkBatch = 2
  MinParticipants = 1
  MinPositive = 1
  ThreadAttempts = 2
  Sessions = {"u","v","p"}
  Projector = "p"
  MaxActs = 2
  MaxThreadFaults = 1
  \* HotIndex
  HotPosts = {1,2}
  AlreadyHot = {2}
  Changing = {2}
  Generations = {1,2}
  RebuildBatch = 1
  IndexAttempts = 2
  MaxHotChanges = 2
  MaxIndexFaults = 1
  \* ProposalDeadline
  DeadlineWorkers = {"u"}
  DeliveryTokens = {1,2,3,4,5,6,7,8}
  DeadlineAttempts = 2
  MaxDeadlineVersion = 3
  MaxThrows = 2
  MaxDeaths = 1
  DeathPoints = {"p_read","p_add","p_mark","p_undo","c_mark","a_claim"}
  ThrowPoints = {"p_read","p_add","p_mark","c_add","c_mark","a_claim","a_tx"}
  \* McpAdmission
  LeaseIds = {1, 2}
  ToolLimit = 1
  LeaseTtl = 2
  RateCapacity = 2
  RateRefill = 1
  ToolCost = 2
  MaxChecks = 1
  MaxMcpFaults = 1
SPECIFICATION Spec
INVARIANTS BackgroundTypeOK CleanMeansProjected ThreadIsConsistent IndexServesReaders ProposalIsWatched WithinLimits
PROPERTIES OnlyPresentStatusSpreads ReleasedStaysFree WorkIsDone
CHECK_DEADLOCK FALSE
