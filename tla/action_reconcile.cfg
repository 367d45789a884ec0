CONSTANTS
  Procs = {a, b}
  Paths <- Tree
  Contents = {"x", "y"}
  Layouts <- TreeLayouts
  Key <- PortableKey
  Rank <- SortRank
  LockPaths <- TwoLocks
  Incarnations = {"i1", "i2"}
  RootFates = {"i1", "i2"}
  MaxRuns = 3
  MaxTouches = 2
  Absent = Absent
  a = a
  b = b
SYMMETRY ProcSymmetry
SPECIFICATION Spec
INVARIANTS
  OneRunAtATime
  RootConverges
  StoppedRunsRecover

  
CHECK_DEADLOCK FALSE
