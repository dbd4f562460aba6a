----------------------------- MODULE MCTaskQueue -----------------------------
(* Model checking of TaskQueue: two commit updates, one test update and    *)
(* the task kind that is queued with two different statuses.               *)
EXTENDS TaskQueue, TLC

CONSTANTS t1, t2, t3, t4, commit1, commit2, test1, refreshBranches

MCTaskIds == {t1, t2, t3, t4}
MCTaskIds3 == {t1, t2, t3}
MCCommitJobs == {commit1, commit2}
MCTestJobs == {test1}
MCOtherJobs == {refreshBranches}
MCOtherLevels == [j \in MCOtherJobs |-> {PendingVeryHigh, PendingVeryLow}]

Symmetry == Permutations(MCTaskIds) \cup Permutations(MCCommitJobs)
Symmetry3 == Permutations(MCTaskIds3) \cup Permutations(MCCommitJobs)
==============================================================================
