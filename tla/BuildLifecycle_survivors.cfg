SPECIFICATION Spec
CONSTANTS
  Gens = {g1, g2, g3}
  Branches = {main, dev}
  NoBranch = NoBranch
  NoGen = NoGen
  Import = Import
  Sweep = Sweep
  Admin = Admin
  Syncer = Syncer
  MaxBuild = 3
  Keep = 1
  KeepHistory = TRUE
  MaxAge = TRUE
  Watching = TRUE
  ObjectStore = FALSE
  Jobs <- AllureJobs
  Unlocked = {"sweep"}
  SessionLoss = FALSE
  Crashes = FALSE
  Faults = FALSE
SYMMETRY Symmetry
CHECK_DEADLOCK FALSE
INVARIANTS
  PruneSparesSurvivors
