SPECIFICATION SupervisorSpec
CONSTANTS
  MaxActions = 2
  MaxConsecutive = 2
  FailSafe = TRUE
  DrainPending = TRUE
  MaxEvents = 3
INVARIANTS AbortDrainReturns
