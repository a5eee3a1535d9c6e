SPECIFICATION SprintSpec
CONSTANTS
  Stem <- MCStem
  After <- MCAfter
  Word = {"backlog", "ready-for-dev", "review", "done", "superseded"}
  Sheets <- MCFlatOnly
  Said = {"nothing", "review", "done"}
  Told = {}
  Kids = {}
  MaxRuns = 1
INVARIANTS MergedIsDone
CHECK_DEADLOCK FALSE
