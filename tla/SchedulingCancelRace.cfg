SPECIFICATION Spec
CONSTANTS
  c1 = c1
  c2 = c2
  c3 = c3
  build = build
  test = test
  NoCommit = NoCommit
  NoBranch = NoBranch
  NoTask = NoTask
  Commits <- ThreeCommits
  Parents <- Line
  Branches <- TwoBranches
  InitHead <- OnSecond
  Tests = {test}
  Kind <- Kinds
  Disabled = {}
  Artifacts <- OneArtifact
  Staged = {}
  MaxRetries <- NoRetries
  TestsOf <- TestInAll
  Deps = {}
  Categories = {"linux"}
  CategoryOf <- OneCategory
  MaxRuns = 2
  MaxLevel = 1
  MaxRunsDesired = 1
  MaxRequests = 3
  Moments = {"drained", "idle", "picked"}
  Resubmit = FALSE
PROPERTIES CancelsOnlyUnwanted
CHECK_DEADLOCK FALSE
