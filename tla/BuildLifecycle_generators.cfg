SPECIFICATION AllSpec
CONSTANTS
  Parts = {"builds", "runs"}
  QueryFaults = {"stats", "awaiting", "origins", "tags"}
  Suites = {"s1", "s2"}
  CiBranches = {"main", "dev"}
  Runs = {"p1", "c1"}
  PipelineIds = {"p1"}
  Tests = {"t1", "t2"}
  NameOf <- OneName
  Uploads <- Uploaded
  EnvTests = {}
  Filters = {"no branch", "main"}
  MaxBuilds = 3
  MaxDeletes = 1
  MaxDefaults = 1
  MaxLost = 1
  MaxOverlap = 1
  PerPage = 1
  RunCap = 2
  ToolCap = 1
  Shards = 2
  PerBuild = 1
  Gens = {g1, g2, g3}
  Branches = {main, dev}
  NoBranch = NoBranch
  NoGen = NoGen
  Import = Import
  Sweep = Sweep
  Admin = Admin
  Syncer = Syncer
  MaxBuild = 3
  Keep = 1
  KeepHistory = TRUE
  MaxAge = TRUE
  Watching = FALSE
  ObjectStore = FALSE
  Jobs <- AllJobs
  Unlocked = {}
  SessionLoss = FALSE
  Crashes = TRUE
  Faults = FALSE
SYMMETRY Symmetry
CHECK_DEADLOCK FALSE
INVARIANTS
  TypeOK
  PageIsBacked
  TaggedUnlessWarned
PROPERTIES
  LatestNeverPruned
