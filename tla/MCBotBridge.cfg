SPECIFICATION Spec
CONSTANTS
  q1 = q1
  q2 = q2
  q3 = q3
  Call = {q1, q2, q3}
  Chat = {1}
  ChatOf <- MCChatOf
  NoCall = NoCall
  Wave = {"w"}
  Project = {"path", "slug"}
  ProjectOf <- MCProjectOf
  InflightCap = 2
  PerChatCap = 2
  MaxReenqueue = 1
  MaxStarts <- MCMaxStarts
  MaxSessions = 2
CHECK_DEADLOCK FALSE
PROPERTIES JoinsRunning Implements
SYMMETRY Alike
