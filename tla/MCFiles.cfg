SPECIFICATION FilesSpec
CONSTANTS
  p1 = p1
  p2 = p2
  a = a
  b = b
  f1 = f1
  Proc = {p1, p2}
  Project = {a, b}
  File = {f1}
  Exempt = {}
  Ignored <- MCIgnored
  Stamp <- MCStamp
  MaxContent = 3
  Edit = {"e1", "e2"}
  Dense = {"e2"}
  Followed = {{"overlay"}, {"fork"}}
  MaxUp = 1
  ExemptOverlay = FALSE
  Policies = {"gates", "decision"}
  Gates = "gates"
  Excluded = {}
  Levels = 1
  Asks <- MCAsks
  Keep = 1
  MaxBatch = 2
  MaxBatches = 2
  MaxSec = 2
  SourceVersioned = FALSE
SYMMETRY MCSymmetry
INVARIANTS NeverLost CommitIsSound TreeKept
PROPERTIES FailureLeavesNothing ForkArrives RollbackRestores
CHECK_DEADLOCK FALSE
