SPECIFICATION PartsSpec
CONSTANTS
  p1 = p1
  p2 = p2
  p3 = p3
  k1 = k1
  k2 = k2
  Proc = {p1, p2, p3}
  Key = {k1, k2}
  Amount = {1, 2}
  Alarm = 2
  Halt = 3
  NoProc = NoProc
  MaxCalls = 3
  Sub = {"a", "b", "c"}
  Parent = "s"
  MaxLen = 3
  MinSubs = 2
  MaxSubs = 5
  MaxCommits = 2
  Merger = {"m1", "m2"}
  MaxTokens = 2
  Proc0 = {"r1", "r2"}
  Child = {"c1"}
  ProjectOf <- MCProjectOf
  MaxSpend = 1
  DayLimit = 2
  Node = {"a", "b", "c"}
  Line <- MCLine
  MaxStream = 2
  ErrorRetry = 1
  IterationCap = 2
  P0Tenths = 8
  CoverTenths = 9
  RunnerLogs <- MCLogs
  PolicyTags = {"gdpr"}
  StoryText <- MCText
  Infra = {"i"}
  Diffs <- MCDiffs
  MaxLines = 4
  SecLine <- MCSecLine
  Payload <- MCPayload
  NoStory = "none"
  Hard = {"auth"}
  Rules <- MCRules
  UnknownAction = "judge"
  MaxAuto = 1
  Judged <- MCJudged
  Blocks <- MCBlocks
  Whitelist = {"wave", "stop", "gone"}
  Registered = {"wave", "stop", "merge"}
  Cost = {0, 1}
  DailyLimit = 2
  MaxAsked = 3
  Hosts <- MCHosts
  Pilot = {"u1", "u2"}
  Tenant = {"t1", "t2"}
  Stale = 3
  Longest = 2
  Dispatcher = {"d1", "d2"}
  MaxVersion = 2
  Wave <- MCWave
  Needs <- MCNeeds
  Parallel = 2
  MaxRounds = 3
  Refusing = {"b"}
  MockDays = {0, 2, 4, 9}
  Parked = {}
  Misspelt = {"b"}
  FlowChild = {"w1"}
  Asks <- MCAsks
  Enough = 2
  MaxText = 2
INVARIANTS
  SplitIsWhole
  BurntStaysBurnt
  OneOfAProject
  DependsKept
  ApproveIsEarned
  HumansDecide
  OneReply
  StartedAsPromised
  WorkersHaveState
  MockWave
  SeedIsNoRetro
PROPERTIES Implements
CHECK_DEADLOCK FALSE
