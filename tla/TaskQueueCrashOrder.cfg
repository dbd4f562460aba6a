SPECIFICATION CrashSpec
CONSTANTS
    t1 = t1  t2 = t2  t3 = t3  t4 = t4
    commit1 = commit1  commit2 = commit2  test1 = test1
    refreshBranches = refreshBranches
    NoTask = NoTask
    NoJob = NoJob
    TaskIds <- MCTaskIds3
    CommitJobs <- MCCommitJobs
    TestJobs <- MCTestJobs
    OtherJobs <- MCOtherJobs
    OtherLevels <- MCOtherLevels
    MaxPriorCt = 3
    FlushCount = 2
    MaxCrashes = 1
SYMMETRY Symmetry3
PROPERTIES CommitUpdatesFirst
