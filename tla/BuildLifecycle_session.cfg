SPECIFICATION Spec
CONSTANTS
  Gens = {g1, g2}
  Branches = {main, dev}
  NoBranch = NoBranch
  NoGen = NoGen
  Import = Import
  Sweep = Sweep
  Admin = Admin
  Syncer = Syncer
  MaxBuild = 2
  Keep = 1
  KeepHistory = TRUE
  MaxAge = TRUE
  Watching = TRUE
  ObjectStore = TRUE
  Jobs <- AllureJobs
  Unlocked = {"sweep", "promote"}
  SessionLoss = TRUE
  Crashes = TRUE
  Faults = FALSE
SYMMETRY Symmetry
CHECK_DEADLOCK FALSE
INVARIANTS
  OwnRow
PROPERTIES
  StaleRechecked
