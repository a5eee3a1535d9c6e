SPECIFICATION Spec
CONSTANTS
  s1 = s1
  s2 = s2
  None = None
  Story = {s1}
  Critical = {}
  ByDiff = {}
  SecurityOn = TRUE
  ReviewRetry = 1
  SecRetry = 1
  MaxDrain = 12
  MaxNoise = 0
PROPERTIES ComplianceNeverMerged
