\* One component at a time, two database sessions or two tabs.
CONSTANTS
  Sessions = {"s1", "s2"}
  \* McpIdempotency
  Keys = {"k1", "k2"}
  Inputs = {"i1", "i2"}
  Effects = {1, 2, 3}
  \* Registration
  Emails = {"e1", "e2"}
  Challenges = {"c1", "c2"}
  Invitations = {"i"}
  MaxPolicyVersion = 2
  MaxFailures = 1
  Expiring = {"c2", "i"}
  \* Progression
  Levels <- MCLevels
  Sources = {1, 2}
  ActionCost = 1
  ActionXp = 1
  TaskTarget = 1
  TaskXp = 1
  Adjustments <- MCAdjustments
  DayLength = 3
  MaxTime = 4
  \* BrowserSession
  Tabs = {"t1", "t2"}
  MaxRotations = 4
  RotationAttempts = 4
  MaxLostAnswers = 1
  \* Migrations
  Migrators = {"p1", "p2"}
  OldDocuments = {1, 2, 3}
  Plan <- MCPlan
  DeclaredIndexes = {"pinned", "other"}
  LegacyIndexes = {"week"}
  MigrationBatch = 2
  MaxLeaseLosses = 2
  MaxMigratorDeaths = 1
  \* ContentReview
  Agents = {"a1", "a2"}
  Authors = {"a1"}
  CircleNames = {"n"}
  Contents = {1, 2}
  MaxWindow = 2
  \* WatchList
  Watchers = {"a1", "a2", "a3"}
  WatchedPosts = {"p1", "p2"}
  WatchLimit = 2
  \* GuideLink
  Visits = {"v1", "v2"}
  LinkAttempts = 2
  MaxLinks = 3
  MaxKeys = 2
  MaxAddresses = 2
  \* PostRecords
  Critics = {"a1", "a2"}
  Visitors = {"a1"}
  Days = {1, 2}
  ViewShards = {1, 2}
  MaxGuestViews = 1
  \* AdminSystem
  Settings = {"calendar"}
  Desks = {"d1", "d2"}
  Announcements = {"x"}
  Readers = {"a1", "a2"}
  MaxSettingVersion = 2
  MaxMailVersion = 3
  MaxAnnouncementVersion = 2
SPECIFICATION Spec
INVARIANTS RequestsTypeOK CalledOnce AdmissionsAreSpent ProgressIsAccounted CredentialsAreKept SchemaIsMigrated CommunityIsKept
PROPERTIES PolicyInForce EndedForGood PostedWhereAllowed
CHECK_DEADLOCK FALSE
