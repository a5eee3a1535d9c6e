SPECIFICATION Spec
CONSTANTS
  s1 = s1
  s2 = s2
  None = None
  Story = {s1, s2}
  Critical = {s1}
  ByDiff = {s2}
  SecurityOn = TRUE
  ReviewRetry = 0
  SecRetry = 0
  MaxDrain = 12
  MaxNoise = 1
INVARIANTS SecurityBeforeMerge HonestMetric NothingStranded
CONSTRAINTS OneDeletes PlainNoise
PROPERTIES ReviewStands HaltStopsReview
