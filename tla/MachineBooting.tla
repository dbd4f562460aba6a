--------------------------- MODULE MachineBooting ---------------------------
(***************************************************************************)
(* How the server gets the machines its tests and deployments want: the     *)
(* MachineCategory and Machine objects of the database, the check that       *)
(* boots machines and makes room for them, the sweep that shuts down idle    *)
(* ones, MachineManagement with its limits, and the cloud (external).       *)
(*                                                                         *)
(* Everything runs under the TestManager's lock, in one transaction. Only   *)
(* the boot check changes the cloud several times in a transaction, so it    *)
(* is split into steps: a crash in between throws away what the database     *)
(* was told and nothing else.                                               *)
(*                                                                         *)
(* What a test wants changes at once; its priority, its targetMachineBoot    *)
(* and the count of its category change when _updateTestPriority is called,   *)
(* which for most changes is a task in the queue of the database. That a task *)
(* is deleted after it was processed, in a transaction of its own, is in      *)
(* TestScheduling.                                                          *)
(*                                                                         *)
(* Abstracted: clocks. A machine is timed out if its instance is gone, or     *)
(* takes too long to start (which counts as a death); a machine without work *)
(* may look idle at any time; the images are looked up again at every check.  *)
(***************************************************************************)
EXTENDS Integers, FiniteSets

CONSTANTS
    Categories,       \* MachineCategory objects, one per hardware and os
    VMs,              \* those whose os needs an image made by a setup script
    Unsupported,      \* those for which boot_worker raises
    Cores,            \* cores of the hardware of a category
    Machines,         \* identities of instances
    Tests, Deploys,   \* what machines are wanted for
    CategoryOf,       \* the category of a test or deployment
    Nothing,
    MaxCores, MaxWorkers,   \* limits of the configuration
    TerminateMayFail, \* whether the cloud may refuse to end an instance
    MaxRequests,      \* bound on requests of users
    MaxTarget,        \* bound on the runs that a test wants
    MaxCrashes, MaxFaults   \* bounds on crashes of the server, faults of the cloud

ASSUME MachineAssumption ==
    /\ VMs \cup Unsupported \subseteq Categories /\ Cores \in [Categories -> Nat]
    /\ CategoryOf \in [Tests \cup Deploys -> Categories]
    /\ Machines \subseteq Nat
    /\ IsFiniteSet(Machines) /\ IsFiniteSet(Tests) /\ IsFiniteSet(Deploys)
    /\ Tests \cap Deploys = {} /\ Nothing \notin Tests \cup Deploys
    /\ {MaxCores, MaxWorkers, MaxRequests, MaxTarget, MaxCrashes, MaxFaults} \subseteq Nat
    /\ MaxTarget > 0

VARIABLES
    db,         \* the database objects. Of a test: the runs it should still have
                \* (wish; Unwanted: no commit asks for it), targetMachineBoot, whether
                \* its priority is one that gets it a machine, whether an
                \* UpdateTestPriority is queued. Not in the code: the tests that the
                \* last count of what is desired has missed.
    tx,         \* the boot check that holds the lock, with the database before it
    check,      \* a BootMachineCheck task is queued
    booked,     \* MachineManagement.runningMachines
    cores,      \* MachineManagement.cores_booted
    known,      \* what AwsMachineManagement believes of each image
    image,      \* the images of the cloud
    cloud,      \* the instances of the cloud
    asking,     \* machines between the two transactions of startNewTest
    up,         \* the server is up
    count       \* requests, crashes and faults so far

vars == <<db, tx, check, booked, cores, known, image, cloud, asking, up, count>>
management == <<booked, cores, known>>

Unwanted == -1
Free == [kind |-> "free"]
Unlocked == up /\ tx = Free

Init ==
    /\ db = [desired |-> [c \in Categories |-> 0], booted |-> [c \in Categories |-> 0],
             unbootable |-> {},
             machine |-> [m \in Machines |-> [alive |-> FALSE, cat |-> Nothing,
                                              doing |-> Nothing]],
             wish |-> [t \in Tests |-> Unwanted], target |-> [t \in Tests |-> 0],
             prioritized |-> {}, queued |-> {}, missed |-> {},
             deploy |-> [d \in Deploys |-> "none"]]
    /\ tx = Free /\ check = FALSE
    /\ booked = {} /\ cores = 0
    /\ known = [c \in VMs |-> "none"] /\ image = known
    /\ cloud = [m \in Machines |-> "none"]
    /\ asking = {} /\ up = TRUE
    /\ count = [requests |-> 0, crashes |-> 0, faults |-> 0]

Happens(what, max) == count[what] < max /\ count' = [count EXCEPT ![what] = @ + 1]

---------------------------------------------------------------------------
(* Looking things up *)

Alive(d) == {m \in Machines : d.machine[m].alive}
Doing(d, x) == {m \in Machines : d.machine[m].doing = x}
WantMore(d) == {c \in Categories : d.desired[c] > d.booted[c]}
WantLess(d) == {c \in Categories : d.desired[c] < d.booted[c]}

(* Machines of a category without a run or a deployment. *)
Unused(d, c) == {m \in Alive(d) : d.machine[m].cat = c /\ d.machine[m].doing = Nothing}

(* The cores of machines, each by its machine and its number. *)
CoreSlots(d, S) == UNION {{m} \X (1..Cores[d.machine[m].cat]) : m \in S}
CoresOf(d, S) == Cardinality(CoreSlots(d, S))

---------------------------------------------------------------------------
(* Ending machines *)

(* Runs are over. *)
Without(d, S) ==
    [d EXCEPT !.machine = [m \in Machines |->
                              IF m \in S THEN [@[m] EXCEPT !.doing = Nothing] ELSE @[m]]]

(* _cancelTestRun: what to do about the test is left to a task. *)
RunsCanceled(d, S) ==
    [Without(d, S) EXCEPT !.queued = @ \cup (Tests \cap {d.machine[m].doing : m \in S})]

(* What _machineTerminated makes of the database: runs on the machines are  *)
(* canceled, deployments are over.                                          *)
MachinesTerminated(d, S) ==
    LET dead == S \cap Alive(d)
        Of(c) == {m \in dead : d.machine[m].cat = c}
        Deployed(c) == {m \in Of(c) : d.machine[m].doing \in Deploys}
    IN  [d EXCEPT
          !.machine = [m \in Machines |-> IF m \in dead
                            THEN [@[m] EXCEPT !.alive = FALSE, !.doing = Nothing]
                            ELSE @[m]],
          !.booted = [c \in Categories |-> @[c] - Cardinality(Of(c))],
          !.desired = [c \in Categories |-> @[c] - Cardinality(Deployed(c))],
          !.deploy = [x \in Deploys |->
                            IF Doing(d, x) \cap dead # {} THEN "none" ELSE @[x]],
          !.queued = @ \cup (Tests \cap {d.machine[m].doing : m \in dead})]

(* terminate_worker, for each of the machines: one that is not in the books  *)
(* raises, and so may the cloud; _terminateMachine carries on.              *)
TerminateWorkers(d, S) ==
    \E done \in SUBSET (S \cap booked) :
        /\ TerminateMayFail \/ done = S \cap booked
        /\ cloud' = [m \in Machines |-> IF m \in done THEN "gone" ELSE cloud[m]]
        /\ booked' = booked \ done
        /\ cores' = cores - CoresOf(d, done)

(* _terminateMachine; a boot check is scheduled as well when what is desired *)
(* has changed.                                                             *)
Terminate(d, S) ==
    /\ TerminateWorkers(d, S)
    /\ db' = MachinesTerminated(d, S)
    /\ check' = (check \/ S \cap Alive(d) # {} \/ d.desired # db.desired)

(* Machines with an image of their own serve once. *)
OnVMs(d, S) == {m \in S : d.machine[m].cat \in VMs}

(* _updateTestPriority: the runs of a test that nobody wants any more are     *)
(* canceled, and its priority and its count follow what it wants.            *)
Stopped(d, t) == IF d.wish[t] = Unwanted THEN Doing(d, t) ELSE {}
Target(d, t) == IF CategoryOf[t] \in d.unbootable \/ d.wish[t] = Unwanted THEN 0 ELSE d.wish[t]
Updated(d, t) ==
    LET e == RunsCanceled(d, Stopped(d, t))
    IN  [e EXCEPT !.target[t] = Target(d, t),
                  !.desired[CategoryOf[t]] = @ + Target(d, t) - d.target[t],
                  !.prioritized = IF Target(d, t) > Cardinality(Doing(e, t))
                                  THEN @ \cup {t} ELSE @ \ {t}]

Rest == UNCHANGED <<tx, known, image, asking, up>>

---------------------------------------------------------------------------
(* Users and workers *)

(* Only the worker of a running instance talks to the server. *)
Talks(m) == Unlocked /\ cloud[m] = "running"

(* A test should have one more run: it comes with a commit, somebody asks     *)
(* for more runs or clears one.                                             *)
Want(t) ==
    /\ Unlocked /\ Happens("requests", MaxRequests) /\ db.wish[t] < MaxTarget
    /\ db' = [db EXCEPT !.wish[t] = IF @ = Unwanted THEN 1 ELSE @ + 1, !.queued = @ \cup {t}]
    /\ Rest /\ UNCHANGED <<check, booked, cores, cloud>>

(* The commits that ask for it lose their priority. *)
Unwant(t) ==
    /\ Unlocked /\ Happens("requests", MaxRequests) /\ db.wish[t] # Unwanted
    /\ db' = [db EXCEPT !.wish[t] = Unwanted, !.queued = @ \cup {t}]
    /\ Rest /\ UNCHANGED <<check, booked, cores, cloud>>

(* The task: what it queues itself goes with it. *)
UpdateTestPriority(t) ==
    /\ Unlocked /\ t \in db.queued
    /\ Terminate([Updated(db, t) EXCEPT !.queued = @ \ {t}], OnVMs(db, Stopped(db, t)))
    /\ Rest /\ UNCHANGED count

CreateDeployment(x) ==
    /\ Unlocked /\ db.deploy[x] = "none" /\ Happens("requests", MaxRequests)
    /\ CategoryOf[x] \notin db.unbootable
    /\ db' = [db EXCEPT !.deploy[x] = "pending", !.desired[CategoryOf[x]] = @ + 1]
    /\ check' = TRUE
    /\ Rest /\ UNCHANGED <<booked, cores, cloud>>

(* _cancelDeployment *)
DeploymentOver(x) ==
    LET over == [db EXCEPT !.deploy[x] = "none", !.desired[CategoryOf[x]] = @ - 1]
    IN  /\ Unlocked
        /\ Terminate(Without(over, Doing(db, x)), OnVMs(db, Doing(db, x)))
        /\ Rest

CancelDeployment(x) ==
    /\ db.deploy[x] # "none" /\ Happens("requests", MaxRequests)
    /\ DeploymentOver(x)

(* The worker reports that the command of the deployment has ended. *)
DeploymentExits(x) ==
    /\ \E m \in Doing(db, x) : Talks(m)
    /\ DeploymentOver(x) /\ UNCHANGED count

StartNewDeployment(m, x) ==
    /\ Talks(m) /\ m \notin asking /\ m \in Alive(db) /\ db.machine[m].doing = Nothing
    /\ db.deploy[x] = "pending" /\ CategoryOf[x] = db.machine[m].cat
    /\ db' = [db EXCEPT !.deploy[x] = "running", !.machine[m].doing = x]
    /\ Rest /\ UNCHANGED <<check, booked, cores, cloud, count>>

(* startNewTest, first transaction: the machine is alive. *)
AskForTest(m) ==
    /\ Talks(m) /\ m \in Alive(db) \ asking /\ db.machine[m].doing = Nothing
    /\ \E t \in db.prioritized : CategoryOf[t] = db.machine[m].cat
    /\ asking' = asking \cup {m}
    /\ UNCHANGED <<db, tx, check, management, image, cloud, up, count>>

(* startNewTest, second transaction, which does not look at that again. *)
StartNewTest(m) ==
    /\ Unlocked /\ m \in asking
    /\ asking' = asking \ {m}
    /\ LET fit == {t \in db.prioritized : CategoryOf[t] = db.machine[m].cat}
           Run(t) == [db EXCEPT !.machine[m].doing = t]
       IN  \/ fit = {} /\ UNCHANGED <<db, check, booked, cores, cloud>>
           \/ \E t \in fit : Terminate(Updated(Run(t), t), OnVMs(db, Stopped(Run(t), t)))
    /\ UNCHANGED <<tx, known, image, up, count>>

(* recordTestResults *)
RecordTestResults(m) ==
    /\ Talks(m) /\ db.machine[m].doing \in Tests
    /\ LET t == db.machine[m].doing
           over == [Without(db, {m}) EXCEPT !.wish[t] = IF @ > 0 THEN @ - 1 ELSE @]
       IN  Terminate(Updated(over, t), OnVMs(db, {m} \cup Stopped(over, t)))
    /\ Rest /\ UNCHANGED count

---------------------------------------------------------------------------
(* performCleanupTasks *)

(* A run without heartbeats, or with heartbeats from a machine that is dead  *)
(* to the database (testHeartbeat), is canceled.                            *)
(* Mutant: only the first.                                                  *)
CancelSilentRun(m) ==
    /\ Unlocked /\ db.machine[m].doing \in Tests
    /\ cloud[m] # "running" /\ m \in Alive(db)
    /\ Terminate(RunsCanceled(db, {m}), OnVMs(db, {m}))
    /\ Rest /\ UNCHANGED count
CancelTestRun(m) ==
    /\ Unlocked /\ db.machine[m].doing \in Tests
    /\ cloud[m] # "running" \/ m \notin Alive(db)
    /\ Terminate(RunsCanceled(db, {m}), OnVMs(db, {m}))
    /\ Rest /\ UNCHANGED count

TimeOutMachine(m) ==
    /\ Unlocked /\ m \in Alive(db)
    /\ \/ cloud[m] = "gone" /\ UNCHANGED count
       \/ cloud[m] = "pending" /\ Happens("faults", MaxFaults)
    /\ Terminate(db, {m})
    /\ Rest

(* _shutdownMachinesIfNecessary ends idle machines while a category has more *)
(* than it wants; _scheduleBootCheck.                                       *)
SurplusOf(c) == db.booted[c] - db.desired[c]

ShutdownMachines ==
    /\ Unlocked
    /\ \E idle \in SUBSET UNION {Unused(db, c) : c \in WantLess(db)} :
          /\ idle # {}
          /\ \A c \in Categories :
                LET gone == Cardinality({m \in idle : db.machine[m].cat = c})
                IN  gone > 0 => gone <= SurplusOf(c)
          /\ Terminate(db, idle)
    /\ Rest /\ UNCHANGED count

ScheduleBootCheck ==
    /\ Unlocked /\ ~check /\ check' = TRUE
    /\ UNCHANGED <<db, tx, management, image, cloud, asking, up, count>>

---------------------------------------------------------------------------
(* _bootMachinesIfNecessary *)

(* MachineManagement.canBoot; a limit of zero is none. *)
CanBoot(c) ==
    /\ c \in VMs => known[c] = "available"
    /\ MaxCores > 0 => cores + Cores[c] <= MaxCores
    /\ MaxWorkers > 0 => Cardinality(booked) + 1 <= MaxWorkers

WantsToSeeSetupScript(c) == c \in VMs /\ known[c] = "none"

(* _setupContentsForMachineCategory: some test that could run now has it. *)
HasSetupContents(c) == \E t \in db.prioritized : CategoryOf[t] = c

Checking == up /\ tx.kind = "boot"
AnyBootable == \E c \in tx.more : CanBoot(c)

(* One round: what it goes by is looked up at its beginning. *)
Round(d, saved) == [kind |-> "boot", more |-> WantMore(d), less |-> WantLess(d),
                    saved |-> saved]

BeginBootCheck ==
    /\ Unlocked /\ check /\ check' = FALSE
    /\ known' = image
    /\ tx' = Round(db, db)
    /\ UNCHANGED <<db, booked, cores, image, cloud, asking, up, count>>

(* canBoot comes past a category whose image must be made first. *)
EnsureOsConfigAvailable(c) ==
    /\ Checking /\ c \in tx.more /\ ~CanBoot(c)
    /\ WantsToSeeSetupScript(c) /\ HasSetupContents(c)
    /\ known' = [known EXCEPT ![c] = "creating"]
    /\ image' = [image EXCEPT ![c] = IF @ = "none" THEN "creating" ELSE @]
    /\ UNCHANGED <<db, tx, check, booked, cores, cloud, asking, up, count>>

(* ... or could not be made. *)
Invalid(c) == c \in VMs /\ known[c] = "invalid"
GivenUp(c) == c \in db.unbootable /\ db.desired[c] = 0
AmiCreationFailed(c) ==
    /\ Checking /\ c \in tx.more /\ ~CanBoot(c) /\ Invalid(c) /\ ~GivenUp(c)
    /\ db' = [db EXCEPT !.unbootable = @ \cup {c}, !.desired[c] = 0]
    /\ UNCHANGED <<tx, check, management, image, cloud, asking, up, count>>

(* A machine with nothing to do makes room, of a category that had too many  *)
(* when the round began.                                                    *)
(* Mutant: no machine makes room.                                           *)
MakeNoRoom(m) == FALSE /\ UNCHANGED vars
MakeRoom(m) ==
    /\ Checking /\ tx.more # {} /\ ~AnyBootable
    /\ \E c \in tx.less : m \in Unused(db, c)
    /\ Terminate(db, {m})
    /\ UNCHANGED <<tx, known, image, asking, up, count>>

(* Identities without a trace are used again, the first one first. *)
Fresh == {m \in Machines : /\ m \notin Alive(db) \cup booked \cup asking
                           /\ cloud[m] \in {"none", "gone"}
                           /\ db.machine[m].doing = Nothing}

(* _boot *)
Boot(c, m) ==
    /\ Checking /\ c \in tx.more /\ CanBoot(c) /\ c \notin Unsupported
    /\ m \in Fresh /\ \A n \in Fresh : m <= n
    /\ cloud' = [cloud EXCEPT ![m] = "pending"]
    /\ booked' = booked \cup {m}
    /\ cores' = cores + Cores[c]
    /\ db' = [db EXCEPT !.machine[m] = [alive |-> TRUE, cat |-> c, doing |-> Nothing],
                        !.booted[c] = @ + 1]
    /\ tx' = Round(db', tx.saved)
    /\ UNCHANGED <<check, known, image, asking, up, count>>

EndBootCheck == tx' = Free

BootUnsupported(c) ==
    /\ Checking /\ c \in tx.more /\ CanBoot(c) /\ c \in Unsupported
    /\ db' = [db EXCEPT !.unbootable = @ \cup {c}, !.desired[c] = 0,
                        !.queued = @ \cup {t \in db.prioritized : CategoryOf[t] = c}]
    /\ EndBootCheck
    /\ UNCHANGED <<check, management, image, cloud, asking, up, count>>

BootFails(c) ==
    /\ Checking /\ c \in tx.more /\ CanBoot(c) /\ c \notin Unsupported
    /\ Happens("faults", MaxFaults)
    /\ EndBootCheck
    /\ UNCHANGED <<db, check, management, image, cloud, asking, up>>

NothingToBoot ==
    /\ Checking /\ ~AnyBootable
    /\ tx.more = {} \/ \A c \in tx.less : Unused(db, c) = {}
    /\ \A c \in tx.more : Invalid(c) => GivenUp(c)
    /\ \A c \in tx.more : ~(WantsToSeeSetupScript(c) /\ HasSetupContents(c))
    /\ EndBootCheck
    /\ UNCHANGED <<db, check, management, image, cloud, asking, up, count>>

---------------------------------------------------------------------------
(* The cloud, and the life of the server *)

InstanceRuns(m) ==
    /\ cloud[m] = "pending" /\ cloud' = [cloud EXCEPT ![m] = "running"]
    /\ UNCHANGED <<db, tx, check, management, image, asking, up, count>>

InstanceDies(m) ==
    /\ cloud[m] = "running" /\ Happens("faults", MaxFaults)
    /\ cloud' = [cloud EXCEPT ![m] = "gone"]
    /\ UNCHANGED <<db, tx, check, management, image, asking, up>>

ImageMade(c) ==
    /\ image[c] = "creating"
    /\ \E made \in {"available", "invalid"} : image' = [image EXCEPT ![c] = made]
    /\ UNCHANGED <<db, tx, check, management, cloud, asking, up, count>>

(* What is in memory is lost, and the transaction under way. *)
Crash ==
    /\ up /\ Happens("crashes", MaxCrashes)
    /\ up' = FALSE
    /\ db' = IF tx = Free THEN db ELSE tx.saved
    /\ tx' = Free /\ booked' = {} /\ cores' = 0 /\ asking' = {}
    /\ known' = [c \in VMs |-> "none"]
    /\ UNCHANGED <<check, image, cloud>>

(* _checkMachineCategoryCounts: runs, tests with a priority, deployments. It  *)
(* comes before the tasks in the queue: a test whose run was canceled, and    *)
(* which has not been updated since, counts neither way.                     *)
(* Mutant: no deployments.                                                   *)
Runs(d, c) == {m \in Machines : /\ d.machine[m].doing \in Tests
                                /\ CategoryOf[d.machine[m].doing] = c}
Prioritized(d, c) == {t \in d.prioritized : CategoryOf[t] = c}
Missed(d) == {t \in d.queued : d.target[t] > 0 /\ t \notin d.prioritized /\ Doing(d, t) = {}}
RecountedTests(d) ==
    [d EXCEPT !.desired = [c \in Categories |-> Cardinality(Runs(d, c))
                                                + Cardinality(Prioritized(d, c))],
              !.missed = Missed(d)]
Recounted(d) ==
    LET Deployed(c) == {x \in Deploys : CategoryOf[x] = c /\ d.deploy[x] # "none"}
        Booted(c) == {m \in Alive(d) : d.machine[m].cat = c}
    IN  [d EXCEPT !.desired = [c \in Categories |-> Cardinality(Runs(d, c))
                                                    + Cardinality(Prioritized(d, c))
                                                    + Cardinality(Deployed(c))],
                  !.booted = [c \in Categories |-> Cardinality(Booted(c))],
                  !.missed = Missed(d)]

(* synchronize_workers: which instances are stray, and which machines seem   *)
(* to be dead. Instances that are still pending are not listed.             *)
Active == {m \in Machines : cloud[m] = "running"}
AppearDead == Alive(db) \ Active
ToKill == Active \ Alive(db)

(* pruneDeadWorkers, and what is there when the server starts. The            *)
(* checkAllTestPriorities that follows updates the tests that have a          *)
(* priority: those that are not in the queue are up to date, and for the      *)
(* others it is an UpdateTestPriority that comes early; missed ones it does   *)
(* not look at.                                                             *)
Restart ==
    /\ ~up /\ up' = TRUE
    /\ booked' = Alive(db) \cap Active
    /\ cores' = CoresOf(db, booked')
    /\ known' = image
    /\ \E failed \in SUBSET (IF TerminateMayFail THEN ToKill ELSE {}) :
          cloud' = [m \in Machines |-> IF m \in ToKill \ failed THEN "gone" ELSE cloud[m]]
    /\ db' = MachinesTerminated(Recounted(db), AppearDead)
    /\ check' = TRUE
    /\ UNCHANGED <<tx, image, asking, count>>

---------------------------------------------------------------------------
BootCheck ==
    \/ BeginBootCheck \/ NothingToBoot
    \/ \E m \in Machines : MakeRoom(m)
    \/ \E c \in Categories : \/ EnsureOsConfigAvailable(c) \/ AmiCreationFailed(c)
                             \/ BootUnsupported(c) \/ BootFails(c)
                             \/ \E m \in Machines : Boot(c, m)

(* What threads other than the manager's tasks do when they get the lock. *)
Progress ==
    \/ ShutdownMachines
    \/ \E m \in Machines :
          \/ CancelTestRun(m) \/ TimeOutMachine(m)
          \/ AskForTest(m) \/ StartNewTest(m) \/ RecordTestResults(m)
          \/ \E x \in Deploys : StartNewDeployment(m, x)
    \/ \E t \in Tests : UpdateTestPriority(t)

Users ==
    \/ \E t \in Tests : Want(t) \/ Unwant(t)
    \/ \E x \in Deploys : CreateDeployment(x) \/ CancelDeployment(x) \/ DeploymentExits(x)

Cloud == \/ \E m \in Machines : InstanceRuns(m) \/ InstanceDies(m)
         \/ \E c \in VMs : ImageMade(c)

Next ==
    \/ BootCheck \/ ScheduleBootCheck \/ Progress \/ Users
    \/ Cloud \/ Crash \/ Restart

(* The manager's thread alternates between tasks and sweeps, and every       *)
(* thread gets the lock now and then: workers ask for work, tests end, what  *)
(* is silent is timed out. The cloud starts instances and makes images.      *)
(* Deployments last for as long as their users want.                        *)
Fairness ==
    /\ WF_vars(BootCheck) /\ WF_vars(ScheduleBootCheck) /\ WF_vars(Restart)
    /\ SF_vars(Progress)
    /\ WF_vars(\E m \in Machines : InstanceRuns(m))
    /\ \A c \in VMs : WF_vars(ImageMade(c))

Spec == Init /\ [][Next]_vars
FairSpec == Spec /\ Fairness

---------------------------------------------------------------------------
(* Every variable has its type. *)
TypeOK ==
    /\ db.desired \in [Categories -> Int] /\ db.booted \in [Categories -> Nat]
    /\ db.machine \in [Machines -> [alive : BOOLEAN, cat : Categories \cup {Nothing},
                                    doing : Tests \cup Deploys \cup {Nothing}]]
    /\ db.wish \in [Tests -> Unwanted..MaxTarget] /\ db.target \in [Tests -> 0..MaxTarget]
    /\ db.prioritized \cup db.queued \cup db.missed \subseteq Tests
    /\ db.unbootable \subseteq Categories
    /\ db.deploy \in [Deploys -> {"none", "pending", "running"}]
    /\ cloud \in [Machines -> {"none", "pending", "running", "gone"}]
    /\ known \in [VMs -> {"none", "creating", "available", "invalid"}]
    /\ booked \cup asking \subseteq Machines /\ cores \in Int

(* The counter that decides whether to boot or to shut down is the number of *)
(* live machines, and never more than the configuration allows.             *)
BootedExact ==
    /\ \A c \in Categories :
          db.booted[c] = Cardinality({m \in Alive(db) : db.machine[m].cat = c})
    /\ cores = CoresOf(db, booked)
    /\ MaxCores > 0 => cores <= MaxCores
    /\ MaxWorkers > 0 => Cardinality(booked) <= MaxWorkers

(* MachineCategory.desired is what tests and deployments want, as far as      *)
(* _updateTestPriority knows, and as long as the category can be booted; but  *)
(* after a restart it is too low by one for each test whose run was canceled  *)
(* and whose update was still in the queue, and stays so until the next one.  *)
TestsOf(c) == {t \in Tests : CategoryOf[t] = c}
WantedRuns(d, c) == UNION {{t} \X (1..d.target[t]) : t \in TestsOf(c)}
WantedDeploys(d, c) == {x \in Deploys : CategoryOf[x] = c /\ d.deploy[x] # "none"}
DesiredExact ==
    \A c \in Categories \ db.unbootable :
        db.desired[c] = Cardinality(WantedRuns(db, c)) + Cardinality(WantedDeploys(db, c))
                        - Cardinality(db.missed \cap TestsOf(c))

(* What a test wants is known once its update has been made. *)
TargetsFollow == \A t \in Tests \ db.queued :
    CategoryOf[t] \notin db.unbootable => db.target[t] = Target(db, t)

(* Three sets of books agree through crashes, canceled runs and instances    *)
(* that die: the counters of categories are exact (BootedExact,              *)
(* DesiredExact), and between transactions MachineManagement counts exactly  *)
(* the machines that the database believes in, so that none holds a place    *)
(* that nobody uses.                                                        *)
BooksAgree ==
    /\ TypeOK /\ BootedExact /\ DesiredExact /\ TargetsFollow
    /\ Unlocked => booked = Alive(db)

(* Tests and deployments that could run get a machine, also if all places are *)
(* taken by machines of other categories, provided that users end their      *)
(* deployments (those keep a place for as long as they run): again and again  *)
(* none is waiting, but in a category for which too little is desired        *)
(* (DesiredExact). A deployment does not have the image of its category made. *)
Waiting(x) ==
    \/ x \in Tests /\ db.wish[x] > 0
    \/ x \in Deploys /\ db.deploy[x] = "pending" /\ CategoryOf[x] \notin VMs
CanBeServed(x) ==
    /\ CategoryOf[x] \notin db.unbootable
    /\ db.missed \cap TestsOf(CategoryOf[x]) = {}
UsersEndDeployments == \A x \in Deploys : []<>(db.deploy[x] # "running")
WorkIsServed ==
    UsersEndDeployments => []<>(\A x \in Tests \cup Deploys : Waiting(x) => ~CanBeServed(x))

(* A run that was given to a machine while it was shut down (startNewTest    *)
(* looks at isAlive in its first transaction only) does not stay: again and   *)
(* again no dead machine has a run.                                         *)
NoRunStaysOnDeadMachine ==
    []<>(\A m \in Machines : db.machine[m].doing # Nothing => db.machine[m].alive)
=============================================================================
