SPECIFICATION FairSpec
CONSTANTS MaxAttempts = 2
          MaxPrinted <- MCMaxPrinted
          MaxChange = 1
          AutoClear = FALSE
          AutoClean = TRUE
INVARIANTS TailReadsAll
PROPERTIES NothingUnreadWhenGivenUp OwnCompletionWhenQuiet Ends
CHECK_DEADLOCK FALSE
