SPECIFICATION MCSpec
CONSTANTS
    t1 = t1  t2 = t2  t3 = t3  t4 = t4
    commit1 = commit1  commit2 = commit2  test1 = test1
    refreshBranches = refreshBranches
    NoTask = NoTask
    NoJob = NoJob
    TaskIds <- MCTaskIds
    CommitJobs <- MCCommitJobs
    TestJobs <- MCTestJobs
    OtherJobs <- MCOtherJobs
    OtherLevels <- MCOtherLevels
    MaxPriorCt = 3
    FlushCount = 1
    MaxCrashes = 0
INVARIANTS NothingStranded OnlyCurrentRuns StackShape OneTaskPerUpdate KilledQueueSound
PROPERTIES CommitUpdatesFirst ImplementsWorkQueue
