--------------------------- MODULE TestScheduling ---------------------------
(***************************************************************************)
(* How the TestManager decides what to run: priorities flow from commits   *)
(* to tests and between tests that depend on one another through           *)
(* background tasks (_updateCommitPriority, _updateTestPriority), while    *)
(* users, worker machines and the cleanup sweep start, report, cancel and  *)
(* clear test runs and move branches in transactions of their own.         *)
(*                                                                         *)
(* The object database is the record db; an operator that takes db and     *)
(* returns a new one is code that runs inside a transaction.  The task     *)
(* queue appears as WorkQueue describes it: db.queued is the set of        *)
(* commits and tests that have a DataTask, the one being worked on         *)
(* included until the third transaction of performBackgroundWork deletes   *)
(* it, and queueing something that is already there does nothing.          *)
(*                                                                         *)
(* Left out: the repositories, dependencies that cannot be resolved yet    *)
(* (every commit is parsed and every TestDependency is resolved), the      *)
(* individual results inside a run, and the Machine objects: a category    *)
(* always has a machine to ask for work, and canceling a run does not      *)
(* terminate it.  Tasks of one kind are picked in any order.               *)
(*                                                                         *)
(* Each transaction is a step.  Transactions of other threads can come     *)
(* before any transaction of the worker; Moments says which of these       *)
(* windows an instance has, so that a property that fails in one of them   *)
(* can still be checked in the others:                                     *)
(*   "drained"    the queue is empty                                       *)
(*   "idle"       between two tasks                                        *)
(*   "picked"     a task was picked and is not processed                   *)
(*   "processed"  it was processed and is not deleted                      *)
(***************************************************************************)
EXTENDS Integers, FiniteSets, FiniteSetsExt, SequencesExt

CONSTANTS
    Commits,
    Parents,        \* CommitRelationship: pairs <<child, parent>>
    Branches,       \* numbers, ordered as the branch names are
    InitHead,       \* Branch.head at the start
    Tests,
    Kind,           \* TestDefinitionSummary.type of each test
    Disabled,       \* tests that are disabled by default
    Artifacts,      \* how many artifacts each test produces
    Staged,         \* tests that upload artifacts before their last stage
    MaxRetries,     \* TestDefinitionSummary.max_retries of each test
    TestsOf,        \* CommitTestDependency: the tests of each commit
    Deps,           \* TestDependency: <<test, dependsOn, number of artifact>>
    Categories,     \* MachineCategory
    CategoryOf,     \* the category of each test
    MaxRuns,        \* bound on the TestRun objects
    MaxLevel,       \* bound on the user priorities of commits
    MaxRunsDesired, \* bound on Test.runsDesired
    MaxRequests,    \* bound on the requests of users
    Moments,        \* when transactions of other threads may run
    Resubmit,       \* whether a user may clear a run that was cleared
    NoCommit,
    NoBranch,
    NoTask

ASSUME SchedulingAssumption ==
    /\ Parents \subseteq Commits \X Commits
    /\ IsFiniteSet(Commits) /\ IsFiniteSet(Tests) /\ Branches \subseteq Nat
    /\ \E age \in [Commits -> 0 .. Cardinality(Commits)] :      \* no commit precedes itself
          \A e \in Parents : age[e[1]] < age[e[2]]
    /\ Commits \cap Tests = {} /\ NoCommit \notin Commits /\ NoBranch \notin Branches
    /\ InitHead \in [Branches -> Commits \cup {NoCommit}]
    /\ Kind \in [Tests -> {"Build", "Test", "Deployment"}]
    /\ TestsOf \in [Commits -> SUBSET Tests]
    /\ \A t \in Tests : \E c \in Commits : t \in TestsOf[c]
    /\ Artifacts \in [Tests -> Nat] /\ MaxRetries \in [Tests -> Nat]
    /\ Deps \subseteq Tests \X Tests \X Nat
    /\ \A d \in Deps : d[1] # d[2] /\ d[3] \in 1 .. Artifacts[d[2]]
    /\ CategoryOf \in [Tests -> Categories]
    /\ {MaxRuns, MaxLevel, MaxRunsDesired, MaxRequests} \subseteq Nat
    /\ Moments \subseteq {"drained", "idle", "picked", "processed"}
    /\ Resubmit \in BOOLEAN
    /\ NoTask \notin Tests

(* TestRun objects, in the order in which they are created *)
Runs == 1 .. MaxRuns

VARIABLES
    db,         \* the object database
    agent,      \* what the machine that has a run is doing about it
    phase,      \* where the background worker is in performBackgroundWork
    task,       \* the commit or test whose DataTask it holds
    requests    \* requests made by users

vars == <<db, agent, phase, task, requests>>

StartablePriorities == {"FirstBuild", "FirstTest", "WantsMoreTests"}
Priorities == StartablePriorities \cup
    {"NoMoreTests", "WaitingToRetry", "WaitingOnBuilds", "DependencyFailed",
     "HardwareComboUnbootable"}

(* The objects of the database.  The totals of a test are what the code    *)
(* adds up, not what it should.                                            *)
CommitObject == [user : 0 .. MaxLevel, calc : 0 .. MaxLevel, branch : Branches \cup {NoBranch}]
TestObject ==
    [calc : 0 .. MaxLevel, prio : Priorities, target : Nat,
     runsDesired : 0 .. MaxRunsDesired, activeRuns : Int, totalRuns : Int,
     successes : Int, waited : BOOLEAN]
RunObject ==
    [test : Tests \cup {NoTask}, artifacts : Nat, success : BOOLEAN,
     state : {"none", "running", "finished", "canceled", "cleared"}]
Database ==
    [commit : [Commits -> CommitObject],
     head : [Branches -> Commits \cup {NoCommit}],
     test : [Tests -> TestObject],
     run : [Runs -> RunObject],
     desired : [Categories -> Int],
     unbootable : SUBSET Categories,
     queued : SUBSET (Commits \cup Tests)]

TypeOK ==
    /\ db \in Database
    /\ agent \in [Runs -> {"none", "working", "passed", "failed", "done"}]
    /\ phase \in {"idle", "picked", "processed"}
    /\ task \in Commits \cup Tests \cup {NoTask}
    /\ requests \in 0 .. MaxRequests

(* _triggerCommitPriorityUpdate and _triggerTestPriorityUpdate *)
Trigger(d, what) == [d EXCEPT !.queued = @ \cup what]

-----------------------------------------------------------------------------
(* Commits and branches *)

(* A commit and the commits above it among those in S. *)
AncestorsIn(c, S) ==
    LET up[n \in 0 .. Cardinality(Commits)] ==
            IF n = 0 THEN {c} \cap S
            ELSE up[n - 1] \cup {p \in S : \E x \in up[n - 1] : <<x, p>> \in Parents}
    IN  up[Cardinality(Commits)]

Ancestors(c) == AncestorsIn(c, Commits)
ReachedBy(d, b) == IF d.head[b] = NoCommit THEN {} ELSE Ancestors(d.head[b])

(* _calcCommitAnybranch *)
CalcCommitAnybranch(d, c) ==
    LET children == {x \in Commits : <<x, c>> \in Parents}
        found == {b \in Branches : d.head[b] = c}
                     \cup ({d.commit[x].branch : x \in children} \ {NoBranch})
    IN  IF found = {} THEN NoBranch ELSE Min(found)

(* _updateCommitPriority *)
UpdateCommit(d, c) ==
    LET branch == CalcCommitAnybranch(d, c)
        calc == IF branch = NoBranch THEN 0 ELSE d.commit[c].user
        changed == branch # d.commit[c].branch \/ calc # d.commit[c].calc
        parents == {p \in Commits : <<c, p>> \in Parents}
        deps == {e[2] : e \in {x \in Deps : x[1] \in TestsOf[c]}}
        d1 == [d EXCEPT !.commit[c].branch = branch, !.commit[c].calc = calc]
    IN  IF changed THEN Trigger(d1, parents \cup deps \cup TestsOf[c]) ELSE d1

(* _updateBranchTopCommit once source control reports c as the top of b:   *)
(* commits that had no branch get this one at once.  Mutant: the commit    *)
(* the branch was on is not updated.                                       *)
SetHeadForgetsOld(d, b, c) ==
    LET orphans == AncestorsIn(c, {x \in Commits : d.commit[x].branch = NoBranch})
    IN  Trigger([d EXCEPT !.head[b] = c,
                          !.commit = [x \in Commits |->
                              IF x \in orphans THEN [@[x] EXCEPT !.branch = b] ELSE @[x]]],
                {c} \cup orphans)
SetHead(d, b, c) ==
    LET old == {d.head[b]} \ {NoCommit}
        orphans == AncestorsIn(c, {x \in Commits : d.commit[x].branch = NoBranch})
    IN  Trigger([d EXCEPT !.head[b] = c,
                          !.commit = [x \in Commits |->
                              IF x \in orphans THEN [@[x] EXCEPT !.branch = b] ELSE @[x]]],
                old \cup {c} \cup orphans)

(* _branchDeleted *)
DropHead(d, b) == Trigger([d EXCEPT !.head[b] = NoCommit], {d.head[b]} \ {NoCommit})

(* _setCommitUserPriority for each of a set of commits *)
SetPriorities(d, cs, p) ==
    Trigger([d EXCEPT !.commit = [c \in Commits |->
                          IF c \in cs THEN [@[c] EXCEPT !.user = p] ELSE @[c]]],
            {c \in cs : d.commit[c].user # p})

-----------------------------------------------------------------------------
(* Tests *)

Referencing(t) == {c \in Commits : t \in TestsOf[c]}
Dependents(t) == {e[1] : e \in {x \in Deps : x[2] = t}}
Dependencies(t) == {e[2] : e \in {x \in Deps : x[1] = t}}

RunsOf(d, t, states) == {r \in Runs : d.run[r].test = t /\ d.run[r].state \in states}

(* _testWantsRetries *)
WantsRetries(d, t) ==
    /\ d.test[t].calc # 0
    /\ Kind[t] = "Build"
    /\ d.test[t].successes = 0
    /\ d.test[t].totalRuns < MaxRetries[t]

(* _readyToRetryTest: "waited" stands for the comparison of timestamps. *)
ReadyToRetry(d, t) == d.test[t].totalRuns = 0 \/ d.test[t].waited

(* The runs that _updateTestTargetMachineCountAndReturnIsDone asks for. *)
Needed(d, t) ==
    CASE Kind[t] = "Deployment" -> 0
      [] Kind[t] = "Test"       -> Max({d.test[t].runsDesired, 1})
      [] Kind[t] = "Build"      ->
            IF ~WantsRetries(d, t) THEN 1
            ELSE d.test[t].totalRuns + (IF ReadyToRetry(d, t) THEN 1 ELSE 0)

(* _testHasArtifactAnywhere *)
HasArtifact(d, t, k) ==
    \E r \in RunsOf(d, t, {"running", "finished"}) : d.run[r].artifacts >= k

MissingDeps(d, t) == {e \in Deps : e[1] = t /\ ~HasArtifact(d, e[2], e[3])}

(* _testHasFailedDeps *)
HasFailedDeps(d, t) ==
    \E e \in MissingDeps(d, t) :
        \/ /\ d.test[e[2]].totalRuns > 0
           /\ d.test[e[2]].successes = 0
           /\ ~WantsRetries(d, e[2])
        \/ d.test[e[2]].prio = "DependencyFailed"

(* _testHasUnfinishedDeps.  Mutant: builds that will be retried are done.  *)
UnfinishedIgnoresRetries(d, t) == \E e \in MissingDeps(d, t) : d.test[e[2]].totalRuns = 0
HasUnfinishedDeps(d, t) ==
    \E e \in MissingDeps(d, t) : d.test[e[2]].totalRuns = 0 \/ WantsRetries(d, e[2])

(* _cancelTestRun for each of the runs S of t, which are running.          *)
(* Mutant: the test of the runs is not updated.                            *)
CancelSilently(d, t, S) ==
    [d EXCEPT !.run = [r \in Runs |-> IF r \in S THEN [d.run[r] EXCEPT !.state = "canceled"]
                                      ELSE d.run[r]],
              !.test[t].activeRuns = @ - Cardinality(S)]
Cancel(d, t, S) ==
    Trigger([d EXCEPT !.run = [r \in Runs |->
                          IF r \in S THEN [d.run[r] EXCEPT !.state = "canceled"] ELSE d.run[r]],
                      !.test[t].activeRuns = @ - Cardinality(S)],
            {d.run[r].test : r \in S})

(* The first lines of _updateTestPriority: the most any commit or any test *)
(* that depends on t wants it.                                             *)
Wanted(d, t) ==
    Max({d.commit[c].calc : c \in Referencing(t)} \cup {d.test[u].calc : u \in Dependents(t)})

(* The fields of t once nothing stands in its way. *)
Scheduled(d, t) ==
    LET x == d.test[t]
        needed == Needed(d, t)
        done == x.calc = 0 \/ x.totalRuns + x.activeRuns >= needed
        waiting == WantsRetries(d, t) /\ x.activeRuns = 0
        prio == IF done THEN IF waiting THEN "WaitingToRetry" ELSE "NoMoreTests"
                ELSE IF Kind[t] = "Build" THEN "FirstBuild"
                ELSE IF x.totalRuns + x.activeRuns = 0 THEN "FirstTest"
                ELSE "WantsMoreTests"
    IN  [x EXCEPT !.prio = prio,
                  !.target = IF x.calc = 0 THEN 0 ELSE Max({needed - x.totalRuns, 0})]

(* The cascade of _updateTestPriority, on a d that has the new calc of t.  *)
Decide(d, t) ==
    LET x == d.test[t]
        referenced == \E u \in Dependents(t) : d.test[u].calc > 0
    IN  IF CategoryOf[t] \in d.unbootable
        THEN [x EXCEPT !.prio = "HardwareComboUnbootable", !.target = 0, !.calc = 0]
        ELSE IF Kind[t] # "Deployment" /\ t \in Disabled /\ ~referenced
        THEN [x EXCEPT !.prio = "NoMoreTests", !.calc = 0]
        ELSE IF HasFailedDeps(d, t)
        THEN [x EXCEPT !.prio = "DependencyFailed", !.target = 0]
        ELSE IF HasUnfinishedDeps(d, t)
        THEN [x EXCEPT !.prio = "WaitingOnBuilds", !.target = 0]
        ELSE Scheduled(d, t)

(* Who is told of a change.  Mutant: only the tests that depend on t. *)
ToldDependents(t) == Dependents(t)
Told(t) == Dependencies(t) \cup Dependents(t)

(* MachineCategory.desired follows the target. *)
DesiredAfter(d, t, new) ==
    [d.desired EXCEPT ![CategoryOf[t]] = @ + new - d.test[t].target]

(* Whether they are told. *)
Changed(old, new) == new.prio # old.prio \/ new.calc # old.calc

(* _updateTestPriority *)
UpdateTest(d, t) ==
    LET old == d.test[t]
        d1 == [d EXCEPT !.test[t].calc = Wanted(d, t)]
        d2 == IF d1.test[t].calc # 0 THEN d1
              ELSE Cancel(d1, t, RunsOf(d1, t, {"running"}))
        new == Decide(d2, t)
        d3 == [d2 EXCEPT !.test[t] = new, !.desired = DesiredAfter(d2, t, new.target)]
    IN  IF Changed(old, new) THEN Trigger(d3, Told(t)) ELSE d3

(* _updateTestPriority of several tests, in the order the index has them. *)
UpdateTests(d, order) ==
    LET after[n \in 0 .. Len(order)] ==
            IF n = 0 THEN d ELSE UpdateTest(after[n - 1], order[n])
    IN  after[Len(order)]

-----------------------------------------------------------------------------
(* The database before anything was prioritized and before its tests were  *)
(* looked at.                                                              *)
Parsed ==
    [commit |-> [c \in Commits |->
         [user |-> 0, calc |-> 0,
          branch |-> LET on == {b \in Branches : InitHead[b] # NoCommit
                                                 /\ c \in Ancestors(InitHead[b])}
                     IN  IF on = {} THEN NoBranch ELSE Min(on)]],
     head |-> InitHead,
     test |-> [t \in Tests |->
         [calc |-> 0, prio |-> "NoMoreTests", target |-> 0, runsDesired |-> 0,
          activeRuns |-> 0, totalRuns |-> 0, successes |-> 0,
          waited |-> FALSE]],
     run |-> [r \in Runs |->
         [test |-> NoTask, state |-> "none", artifacts |-> 0, success |-> FALSE]],
     desired |-> [c \in Categories |-> 0],
     unbootable |-> {},
     queued |-> {}]

(* The updates that the creation of the tests triggered are done. *)
Init ==
    /\ db = [Parsed EXCEPT !.test = [t \in Tests |-> Decide(Parsed, t)]]
    /\ agent = [r \in Runs |-> "none"]
    /\ phase = "idle"
    /\ task = NoTask
    /\ requests = 0

(* The background worker: three transactions per task. *)

(* Mutant: tests are not held back until no commit is left. *)
AnyTask == db.queued
NextTasks == IF db.queued \cap Commits # {} THEN db.queued \cap Commits ELSE db.queued

Take(x) ==
    /\ phase = "idle"
    /\ x \in NextTasks
    /\ task' = x
    /\ phase' = "picked"
    /\ UNCHANGED <<db, agent, requests>>

ProcessCommit ==
    /\ phase = "picked"
    /\ task \in Commits
    /\ db' = UpdateCommit(db, task)
    /\ phase' = "processed"
    /\ UNCHANGED <<agent, task, requests>>

ProcessTest ==
    /\ phase = "picked"
    /\ task \in Tests
    /\ db' = UpdateTest(db, task)
    /\ phase' = "processed"
    /\ UNCHANGED <<agent, task, requests>>

Finish ==
    /\ phase = "processed"
    /\ db' = [db EXCEPT !.queued = @ \ {task}]
    /\ task' = NoTask
    /\ phase' = "idle"
    /\ UNCHANGED <<agent, requests>>

(* What else the worker thread does, between two tasks. *)

Moment == IF db.queued = {} THEN "drained" ELSE phase
WorkerThread == phase = "idle" /\ Moment \in Moments
OtherThread == Moment \in Moments
UserRequest == OtherThread /\ requests < MaxRequests /\ requests' = requests + 1

(* _updateBranchTopCommit, after a push. *)
UpdateBranchTopCommit(b, c) ==
    /\ WorkerThread
    /\ requests < MaxRequests
    /\ requests' = requests + 1
    /\ db.head[b] # c
    /\ db' = SetHead(db, b, c)
    /\ UNCHANGED <<agent, phase, task>>

BranchDeleted(b) ==
    /\ WorkerThread
    /\ requests < MaxRequests
    /\ requests' = requests + 1
    /\ db.head[b] # NoCommit
    /\ db' = DropHead(db, b)
    /\ UNCHANGED <<agent, phase, task>>

(* _boot raising UnbootableWorkerCombination; no machine of the category   *)
(* was ever booted.                                                        *)
BootFails(c) ==
    /\ WorkerThread
    /\ requests < MaxRequests
    /\ requests' = requests + 1
    /\ db.desired[c] > 0
    /\ \A r \in Runs : db.run[r].state # "none" => CategoryOf[db.run[r].test] # c
    /\ db' = Trigger([db EXCEPT !.unbootable = @ \cup {c}, !.desired[c] = 0],
                     {t \in Tests : CategoryOf[t] = c /\ db.test[t].prio \in StartablePriorities})
    /\ UNCHANGED <<agent, phase, task>>

(* retry_wait_seconds pass since the last run of t ended. *)
WaitPasses(t) ==
    /\ Kind[t] = "Build"
    /\ db.test[t].totalRuns > 0
    /\ ~db.test[t].waited
    /\ db' = [db EXCEPT !.test[t].waited = TRUE]
    /\ UNCHANGED <<agent, phase, task, requests>>

(* _checkRetryTests, at the end of performCleanupTasks. *)
CheckRetryTests ==
    /\ WorkerThread
    /\ LET retry == {t \in Tests : db.test[t].prio = "WaitingToRetry"}
       IN  retry # {} /\ db' = Trigger(db, retry)
    /\ UNCHANGED <<agent, phase, task, requests>>

(* Users, in HTTP threads *)

(* One commit, or a branch (prioritizeAllCommitsUnderBranch). *)
PrioritySets == {{c} : c \in Commits} \cup {ReachedBy(db, b) : b \in Branches}

SetCommitUserPriority(cs, p) ==
    /\ UserRequest
    /\ \E c \in cs : db.commit[c].user # p
    /\ db' = SetPriorities(db, cs, p)
    /\ UNCHANGED <<agent, phase, task>>

(* The action update_suite_runs of the commit page. *)
UpdateSuiteRuns(t, n) ==
    /\ UserRequest
    /\ db.test[t].runsDesired # n
    /\ db' = Trigger([db EXCEPT !.test[t].runsDesired = n], {t})
    /\ UNCHANGED <<agent, phase, task>>

(* cancelTestRun of the web page; a run that is finished fails its assert. *)
CancelTestRun(r) ==
    /\ UserRequest
    /\ db.run[r].state = "running"
    /\ db' = Cancel(db, db.run[r].test, {r})
    /\ UNCHANGED <<agent, phase, task>>

(* clearTestRun of a run that is not running.  The page offers the link    *)
(* only for runs that are not canceled; Resubmit lets a stale page send    *)
(* the request again.  Mutant: the totals are left alone.                  *)
ClearedKeepsTotals(d, r) ==
    Trigger([d EXCEPT !.run[r].state = "cleared"], {d.run[r].test})
Cleared(d, r) ==
    LET t == d.run[r].test
        run == [d.run[r] EXCEPT !.state = "cleared"]
        sums == [d.test[t] EXCEPT !.totalRuns = @ - 1,
                                  !.successes = @ - IF d.run[r].success THEN 1 ELSE 0]
    IN  Trigger([d EXCEPT !.run[r] = run, !.test[t] = sums], {t})

ClearTestRun(r) ==
    /\ UserRequest
    /\ \/ db.run[r].state = "running" /\ db' = Cancel(db, db.run[r].test, {r})
       \/ db.run[r].state = "finished" /\ db' = Cleared(db, r)
       \/ Resubmit /\ db.run[r].state = "cleared" /\ db' = Cleared(db, r)
    /\ UNCHANGED <<agent, phase, task>>

(* Worker machines, in the threads of their sessions *)

(* _lookupHighestPriorityTest for a machine of category c *)
HighestPriority(d, c) ==
    LET rank == [FirstBuild |-> 3, FirstTest |-> 2, WantsMoreTests |-> 1]
        offered == {t \in Tests : CategoryOf[t] = c /\ d.test[t].prio \in StartablePriorities}
        Before(t, u) == \/ rank[d.test[t].prio] > rank[d.test[u].prio]
                        \/ /\ rank[d.test[t].prio] = rank[d.test[u].prio]
                           /\ d.test[t].calc > d.test[u].calc
    IN  {t \in offered : \A u \in offered : ~Before(u, t)}

StartNewTest(t, r) ==
    /\ OtherThread
    /\ t \in HighestPriority(db, CategoryOf[t])
    /\ r = Min({x \in Runs : db.run[x].state = "none"} \cup {MaxRuns + 1})
    /\ r \in Runs
    /\ db' = UpdateTest([db EXCEPT !.test[t].activeRuns = @ + 1,
                                   !.run[r].test = t,
                                   !.run[r].state = "running"], t)
    /\ agent' = [agent EXCEPT ![r] = "working"]
    /\ UNCHANGED <<phase, task, requests>>

(* recordTestArtifactUploaded: the artifact is recorded for a canceled run *)
(* as well, and the tests that depend on the run's test are updated.       *)
RecordArtifacts(r, n) ==
    \E order \in SetToSeqs(Dependents(db.run[r].test)) :
        db' = UpdateTests([db EXCEPT !.run[r].artifacts = n], order)

ArtifactUploaded(r) ==
    /\ OtherThread
    /\ agent[r] = "working"
    /\ db.run[r].test \in Staged
    /\ db.run[r].artifacts < Artifacts[db.run[r].test]
    /\ RecordArtifacts(r, db.run[r].artifacts + 1)
    /\ UNCHANGED <<agent, phase, task, requests>>

(* recordTestResults, first transaction: the list of all artifacts, which  *)
(* is complete when the test succeeded.                                    *)
ReportResults(r, success) ==
    /\ OtherThread
    /\ agent[r] = "working"
    /\ \E n \in db.run[r].artifacts .. Artifacts[db.run[r].test] :
        /\ success => n = Artifacts[db.run[r].test]
        /\ ~success /\ db.run[r].test \notin Staged => n = 0
        /\ RecordArtifacts(r, n)
    /\ agent' = [agent EXCEPT ![r] = IF success THEN "passed" ELSE "failed"]
    /\ UNCHANGED <<phase, task, requests>>

(* Its second transaction. *)
ResultOf(d, r, success) ==
    LET t == d.run[r].test
        run == [d.run[r] EXCEPT !.state = "finished", !.success = success]
        sums == [d.test[t] EXCEPT !.activeRuns = @ - 1, !.totalRuns = @ + 1,
                                  !.successes = @ + IF success THEN 1 ELSE 0,
                                  !.waited = FALSE]
    IN  [d EXCEPT !.run[r] = run, !.test[t] = sums]

RecordTestResults(r) ==
    /\ OtherThread
    /\ agent[r] \in {"passed", "failed"}
    /\ IF db.run[r].state # "running" THEN db' = db
       ELSE LET t == db.run[r].test
            IN  \E order \in SetToSeqs(Dependents(t)) :
                    db' = UpdateTests(ResultOf(db, r, agent[r] = "passed"), order \o <<t>>)
    /\ agent' = [agent EXCEPT ![r] = "done"]
    /\ UNCHANGED <<phase, task, requests>>

(* testHeartbeat answers FALSE for a canceled run and the machine stops.   *)
Abandon(r) ==
    /\ agent[r] = "working"
    /\ db.run[r].state = "canceled"
    /\ agent' = [agent EXCEPT ![r] = "done"]
    /\ UNCHANGED <<db, phase, task, requests>>

Users ==
    \/ \E cs \in PrioritySets, p \in 0 .. MaxLevel : SetCommitUserPriority(cs, p)
    \/ \E t \in Tests, n \in 1 .. MaxRunsDesired : UpdateSuiteRuns(t, n)
    \/ \E r \in Runs : CancelTestRun(r) \/ ClearTestRun(r)

Machines ==
    \E r \in Runs :
        \/ \E t \in Tests : StartNewTest(t, r)
        \/ ArtifactUploaded(r)
        \/ \E success \in BOOLEAN : ReportResults(r, success)
        \/ RecordTestResults(r)
        \/ Abandon(r)

Background == (\E x \in Commits \cup Tests : Take(x)) \/ ProcessCommit \/ ProcessTest \/ Finish

Next ==
    \/ Background
    \/ \E b \in Branches : BranchDeleted(b) \/ \E c \in Commits : UpdateBranchTopCommit(b, c)
    \/ \E c \in Categories : BootFails(c)
    \/ \E t \in Tests : WaitPasses(t)
    \/ CheckRetryTests
    \/ Users
    \/ Machines

Spec == Init /\ [][Next]_vars

-----------------------------------------------------------------------------
(* Properties *)

(* Test.activeRuns is the number of the test's runs that are running.      *)
ActiveExact(d) ==
    \A t \in Tests : d.test[t].activeRuns = Cardinality(RunsOf(d, t, {"running"}))

(* Test.totalRuns and Test.successes are the numbers of its runs that      *)
(* finished and were not cleared, and of the successful ones among them.   *)
TotalsExact(d) ==
    \A t \in Tests :
        /\ d.test[t].totalRuns = Cardinality(RunsOf(d, t, {"finished"}))
        /\ d.test[t].successes =
               Cardinality({r \in RunsOf(d, t, {"finished"}) : d.run[r].success})

(* MachineCategory.desired is the number of machines its tests want, as    *)
(* long as the category was not found to be unbootable.                    *)
WantedSlots(d, S) == UNION {{t} \X (1 .. d.test[t].target) : t \in S}
DesiredExact(d) ==
    \A c \in Categories \ d.unbootable :
        d.desired[c] = Cardinality(WantedSlots(d, {t \in Tests : CategoryOf[t] = c}))

(* The counters of tests and of machine categories are what the runs and   *)
(* the targets of tests say, however starting, reporting, canceling (by a  *)
(* user or because the priority went to zero) and clearing are             *)
(* interleaved.  The totals are wrong once a stale page clears a run       *)
(* twice; the others are not.                                              *)
CountersAgree ==
    TypeOK /\ ActiveExact(db) /\ DesiredExact(db) /\ (Resubmit \/ TotalsExact(db))

(* A commit matters exactly if it is reachable from the head of a branch.  *)
Reachable(c) == \E b \in Branches : c \in ReachedBy(db, b)
Asked(c) == IF Reachable(c) THEN db.commit[c].user ELSE 0

(* When the queue is empty every commit has the priority its user asked    *)
(* for, or none if no branch reaches it, so that orphaned commits are      *)
(* always deprioritized.                                                   *)
CommitsSettled ==
    db.queued = {} => \A c \in Commits : db.commit[c].calc = Asked(c)

(* When the queue is empty no test is stale: to update it again would not  *)
(* change what is known of it.  Exempt are a test nobody wants, a build    *)
(* whose retry became due after it was last looked at and that the next    *)
(* sweep finds, and a test held back in a category found to be unbootable. *)
TestsSettled ==
    db.queued = {} =>
        \A t \in Tests :
            \/ UpdateTest(db, t).test[t] = db.test[t]
            \/ db.test[t].calc = 0 /\ Wanted(db, t) = 0
            \/ db.test[t].prio = "WaitingToRetry" /\ db.test[t].waited
            \/ CategoryOf[t] \in db.unbootable /\ db.test[t].prio \notin StartablePriorities

(* Only a user's request cancels a run of a test that a commit still asks  *)
(* for: a priority update that cancels has seen all commit updates first.  *)
CancelsUnwanted ==
    \A r \in Runs :
        /\ db.run[r].state = "running"
        /\ db'.run[r].state = "canceled"
        /\ ~CancelTestRun(r) /\ ~ClearTestRun(r)
        => \A c \in Referencing(db.run[r].test) : Asked(c) = 0
CancelsOnlyUnwanted == [][CancelsUnwanted]_vars

(* A test starts only when the artifacts of the builds it depends on are   *)
(* there.                                                                  *)
StartsWithArtifacts ==
    \A r \in Runs :
        db.run[r].state = "none" /\ db'.run[r].state = "running"
        => MissingDeps(db, db'.run[r].test) = {}
StartsInOrder == [][StartsWithArtifacts]_vars

(* A build that failed and may still be retried is never given up: when    *)
(* the queue is empty it is running, offered to machines, waiting for its  *)
(* retry, or held back for a reason that is still true.                    *)
RetriesPending(t) ==
    \/ db.test[t].activeRuns > 0
    \/ db.test[t].prio \in StartablePriorities \cup {"WaitingToRetry"}
    \/ MissingDeps(db, t) # {} \/ CategoryOf[t] \in db.unbootable
    \/ t \in Disabled
RetryNotForgotten ==
    db.queued = {} => \A t \in Tests : WantsRetries(db, t) => RetriesPending(t)

-----------------------------------------------------------------------------
(* Liveness.  The worker thread runs until the server stops and so does    *)
(* the sweep; time passes; machines that have a run report on it, and free *)
(* machines ask for work.  Each conjunct is weak fairness of an action,    *)
(* with the condition under which a step of it is possible written out.    *)
MachinesCanStep ==
    /\ OtherThread
    /\ \E r \in Runs : \/ agent[r] \in {"working", "passed", "failed"}
                       \/ /\ db.run[r].state = "none"
                          /\ \E t \in Tests : db.test[t].prio \in StartablePriorities
MachinesStep ==
    \E r \in Runs : \/ \E t \in Tests : StartNewTest(t, r)
                    \/ \E success \in BOOLEAN : ReportResults(r, success)
                    \/ RecordTestResults(r)
                   \/ Abandon(r)
SweepFindsWork ==
    WorkerThread /\ \E t \in Tests \ db.queued : db.test[t].prio = "WaitingToRetry"

WorkerRests == phase = "idle" /\ db.queued = {}

Fairness ==
    /\ []<>WorkerRests \/ []<><<Background>>_vars
    /\ []<>~SweepFindsWork \/ []<><<CheckRetryTests>>_vars
    /\ WF_vars(\E t \in Tests : WaitPasses(t))
    /\ []<>~MachinesCanStep \/ []<><<MachinesStep>>_vars
FairSpec == Spec /\ Fairness

(* Priority updates tell tests in both directions of a dependency; once    *)
(* users stop, the updates stop too and every test that is wanted has run, *)
(* is blocked by a failed build, or cannot be booted or waits on a build   *)
(* that cannot.  (Or the instance has no TestRun left.)                    *)
Concluded(t) ==
    \/ db.test[t].calc = 0
    \/ db.test[t].prio \in {"NoMoreTests", "DependencyFailed", "HardwareComboUnbootable"}
    \/ \E u \in Dependencies(t) : db.test[u].prio = "HardwareComboUnbootable"
Settled ==
    \/ \A t \in Tests : Concluded(t) /\ db.test[t].activeRuns = 0
    \/ \A r \in Runs : db.run[r].state # "none"
EverythingSettles == <>[]Settled

(* The updates that tests trigger in one another come to an end. *)
UpdatesEnd == []<>(db.queued = {})

=============================================================================
