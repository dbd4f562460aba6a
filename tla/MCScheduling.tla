---------------------------- MODULE MCScheduling ----------------------------
(* Four instances of TestScheduling, of which a behaviour follows one:      *)
(*   "queue"     a build and a test in two commits, requests between any     *)
(*               two transactions of the worker (the constants of the cfg)   *)
(*   "retry"     a build that is tried twice, and a test that needs it       *)
(*   "branches"  three commits and two branches that move                   *)
(*   "fair"      as "retry" in two categories of machines, with fairness     *)
(* The last three share variables of their own; the variables that a part    *)
(* does not use stay as they are at the start.                              *)
EXTENDS MCTestScheduling

VARIABLES part, db2, agent2, phase2, task2, requests2

vars2 == <<db2, agent2, phase2, task2, requests2>>

OnlyTest == {test}

Retry == INSTANCE TestScheduling WITH
    Staged <- {}, MaxRetries <- TwoTries, TestsOf <- BothInFirst, MaxRuns <- 4,
    MaxRunsDesired <- 1, Moments <- {"drained"},
    db <- db2, agent <- agent2, phase <- phase2, task <- task2, requests <- requests2

Moving == INSTANCE TestScheduling WITH
    Commits <- ThreeCommits, Parents <- Line, Branches <- TwoBranches,
    InitHead <- (1 :> NoCommit @@ 2 :> c2), Tests <- OnlyTest, Staged <- {},
    Kind <- [t \in OnlyTest |-> "Test"], Artifacts <- [t \in OnlyTest |-> 0],
    MaxRetries <- [t \in OnlyTest |-> 0], TestsOf <- [c \in ThreeCommits |-> OnlyTest],
    Deps <- {}, CategoryOf <- [t \in OnlyTest |-> "linux"], MaxRuns <- 2, MaxLevel <- 2,
    MaxRunsDesired <- 2, Moments <- {"drained", "idle"}, Resubmit <- TRUE,
    db <- db2, agent <- agent2, phase <- phase2, task <- task2, requests <- requests2

Fair == INSTANCE TestScheduling WITH
    Staged <- {}, MaxRetries <- TwoTries, TestsOf <- BothInFirst,
    Categories <- {"linux", "windows"}, CategoryOf <- OwnCategories, MaxRuns <- 5,
    MaxRunsDesired <- 1, MaxRequests <- 2,
    db <- db2, agent <- agent2, phase <- phase2, task <- task2, requests <- requests2

MCInit ==
    /\ Init
    /\ \/ part \in {"queue", "retry"} /\ Retry!Init
       \/ part = "branches" /\ Moving!Init
       \/ part = "fair" /\ Fair!Init

MCNext ==
    /\ UNCHANGED part
    /\ \/ part = "queue" /\ Next /\ UNCHANGED vars2
       \/ part = "retry" /\ Retry!Next /\ UNCHANGED vars
       \/ part = "branches" /\ Moving!Next /\ UNCHANGED vars
       \/ part = "fair" /\ Fair!Next /\ UNCHANGED vars

(* Fair!Fairness, for the behaviours of "fair". *)
FairPart == part = "fair"
MCFairness ==
    /\ []<>(FairPart => Fair!WorkerRests) \/ []<><<FairPart /\ Fair!Background>>_vars2
    /\ []<>(FairPart => ~Fair!SweepFindsWork)
          \/ []<><<FairPart /\ Fair!CheckRetryTests>>_vars2
    /\ WF_vars2(FairPart /\ \E t \in Tests : Fair!WaitPasses(t))
    /\ []<>(FairPart => ~Fair!MachinesCanStep)
          \/ []<><<FairPart /\ Fair!MachinesStep>>_vars2

MCSpec == MCInit /\ [][MCNext]_<<part, vars, vars2>> /\ MCFairness

---------------------------------------------------------------------------
(* When the queue is empty no test is stale (TestsSettled): updates that      *)
(* chase one another lose nothing.  A build that may still be retried is not *)
(* given up, and commits are not stale either after branches moved.          *)
NothingStale ==
    /\ part = "queue" => TestsSettled
    /\ part = "retry" => Retry!CommitsSettled /\ Retry!TestsSettled /\ Retry!RetryNotForgotten
    /\ part = "branches" => Moving!CommitsSettled
    /\ part = "fair" => Fair!CommitsSettled

(* A test starts only when the artifacts it needs are there.                *)
TestsStartInOrder == [][part = "retry" => Retry!StartsWithArtifacts]_vars2

(* Only a user's request cancels a run that a commit still asks for, as long *)
(* as no commit waits for its update; and the worker updates tests only then *)
(* if requests do not come between the picking of a task and its processing. *)
NoWantedRunCanceled ==
    [][/\ part = "queue" /\ db.queued \cap Commits = {} => CancelsUnwanted
       /\ part = "branches" /\ Moving!ProcessTest => Moving!CancelsUnwanted]_<<vars, vars2>>

(* Once users stop, updates stop and every test that is wanted has run, is   *)
(* blocked by a failed build or cannot be booted.                           *)
AllSettles == <>[](part = "fair" => Fair!Settled) /\ []<>(part = "fair" => db2.queued = {})
=============================================================================
