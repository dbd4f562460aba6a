SPECIFICATION Spec
CONSTANTS
  c1 = c1
  c2 = c2
  c3 = c3
  build = build
  test = test
  NoCommit = NoCommit
  NoBranch = NoBranch
  NoTask = NoTask
  Commits <- TwoCommits
  Parents = {}
  Branches <- OneBranch
  InitHead <- OnFirst
  Tests <- BuildAndTest
  Kind <- Kinds
  Disabled = {}
  Artifacts <- OneArtifact
  Staged = {}
  MaxRetries <- TwoTries
  TestsOf <- BothInFirst
  Deps <- TestNeedsBuild
  Categories = {"linux"}
  CategoryOf <- OneCategory
  MaxRuns = 3
  MaxLevel = 1
  MaxRunsDesired = 1
  MaxRequests = 3
  Moments = {"drained", "idle", "processed"}
  Resubmit = FALSE
INVARIANTS RetryNotForgotten
CHECK_DEADLOCK FALSE
