SPECIFICATION FairSpec
CONSTANTS
  Gens = {g1, g2}
  Branches = {main, dev}
  NoBranch = NoBranch
  NoGen = NoGen
  Import = Import
  Sweep = Sweep
  Admin = Admin
  Syncer = Syncer
  MaxBuild = 2
  Keep = 1
  KeepHistory = TRUE
  MaxAge = TRUE
  Watching = TRUE
  ObjectStore = FALSE
  Jobs <- AllJobs
  Unlocked = {}
  SessionLoss = FALSE
  Crashes = TRUE
  Faults = TRUE
CHECK_DEADLOCK FALSE
INVARIANTS
  PublishedKept
PROPERTIES
  WaiterEnds
  ImplementsHistory
