SPECIFICATION MCSpec
CONSTANTS
  c1 = c1
  c2 = c2
  c3 = c3
  build = build
  test = test
  NoCommit = NoCommit
  NoBranch = NoBranch
  NoTask = NoTask
  Commits <- TwoCommits
  Parents = {}
  Branches <- OneBranch
  InitHead <- OnFirst
  Tests <- BuildAndTest
  Kind <- Kinds
  Disabled = {}
  Artifacts <- OneArtifact
  Staged <- BuildAndTest
  MaxRetries <- NoRetries
  TestsOf <- BuildInFirst
  Deps <- TestNeedsBuild
  Categories = {"linux"}
  CategoryOf <- OneCategory
  MaxRuns = 3
  MaxLevel = 1
  MaxRunsDesired = 2
  MaxRequests = 3
  Moments = {"drained", "idle", "picked"}
  Resubmit = FALSE
INVARIANTS CountersAgree CommitsSettled NothingStale
PROPERTIES TestsStartInOrder NoWantedRunCanceled AllSettles
CHECK_DEADLOCK FALSE
