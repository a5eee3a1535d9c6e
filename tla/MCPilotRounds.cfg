SPECIFICATION PilotSpec
CONSTANTS
  a = a
  b = b
  c = c
  d = d
  f = f
  g = g
  h = h
  Story = {a, b, c, d}
  Pos <- ThePos
  Deps <- TheDeps
  Touches <- TheTouches
  Manual = {}
  MaxParallel = 2
  MaxStories = 3
  MaxRounds = 3
  MaxSpend = 7
  DayLimit = 9
  StoryAlarm = 4
  StoryHalt = 5
  BudgetOff = FALSE
  Cost = {1, 3}
  Leftover = {0, 4}
  MaxActions = 2
  MaxConsecutive = 2
  FailSafe = TRUE
  DrainPending = TRUE
  MaxEvents = 3
  Stem <- MCStem
  After <- MCAfter
  Word = {"backlog", "ready-for-dev", "review", "done", "superseded"}
  Sheets <- MCSheets
  Said = {"nothing", "review", "done"}
  Told = {"superseded"}
  Kids <- MCKids
  MaxRuns = 2
INVARIANTS NoFileRace CapsHold WorkersAccounted CountIsStreak AnsweredOnce StatusKept
