SPECIFICATION LoopSpec
CONSTANTS
  t1 = t1
  t2 = t2
  c1 = c1
  x = x
  y = y
  z = z
  s1 = s1
  None = None
  Task = {t1, t2}
  NSubs = 2
  Corr = {c1}
  NoCorr = NoCorr
  MaxEvents = 4
  MaxDrain = 4
  Bg = {x, y, z}
  MaxWakeups = 2
PROPERTIES InOrderOnce Implements Answered ShutdownReturns PilotEnds
CHECK_DEADLOCK FALSE
