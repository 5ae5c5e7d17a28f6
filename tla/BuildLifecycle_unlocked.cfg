SPECIFICATION Spec
CONSTANTS
  Gens = {g1, g2}
  Branches = {main, dev}
  NoBranch = NoBranch
  NoGen = NoGen
  Import = Import
  Sweep = Sweep
  Admin = Admin
  Syncer = Syncer
  MaxBuild = 2
  Keep = 1
  KeepHistory = TRUE
  MaxAge = FALSE
  Watching = TRUE
  ObjectStore = FALSE
  Jobs <- AllureJobs
  Unlocked = {"sweep", "delete", "clean", "sync", "drop"}
  SessionLoss = FALSE
  Crashes = FALSE
  Faults = FALSE
SYMMETRY Symmetry
CHECK_DEADLOCK FALSE
INVARIANTS
  MutualExclusion
  LatestPerBranch
