SPECIFICATION Spec
CONSTANTS
  s1 = s1
  s2 = s2
  None = None
  Story = {s1, s2}
  Critical = {}
  ByDiff = {}
  SecurityOn = TRUE
  ReviewRetry = 0
  SecRetry = 0
  MaxDrain = 12
  MaxNoise = 0
INVARIANTS CleanupBlocksNoMerge
