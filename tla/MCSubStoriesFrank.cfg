SPECIFICATION SubSpec
CONSTANTS
  Sub = {"a", "b"}
  Parent = "s"
  MaxLen = 2
  MinSubs = 2
  MaxSubs = 5
  MaxCommits = 2
INVARIANTS NoFrankencommit
CHECK_DEADLOCK FALSE
