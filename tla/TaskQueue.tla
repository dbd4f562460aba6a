------------------------------ MODULE TaskQueue ------------------------------
(***************************************************************************)
(* The background task queue of the TestManager: DataTask objects in the   *)
(* object database, chained into stacks by their "prior" field, and the    *)
(* worker thread that consumes them (TestLooperServer.executeManagerWork   *)
(* calling TestManager.performBackgroundWork).                             *)
(*                                                                         *)
(* Every transaction runs under TestManager.writelock, so a transaction is *)
(* atomic; the variable lock makes the transactions that queue several     *)
(* tasks explicit.  The worker uses three transactions per task (pick,     *)
(* process, remove) and any other thread may run between two of them.      *)
(*                                                                         *)
(* The identities of a deleted DataTask may be reused here; the database   *)
(* never reuses one, and nothing refers to a deleted task.                 *)
(***************************************************************************)
EXTENDS Integers, FiniteSets

CONSTANTS
    TaskIds,        \* identities of DataTask objects (bounds the queue)
    CommitJobs,     \* UpdateCommitPriority(commit), one per commit
    TestJobs,       \* UpdateTestPriority(test), one per test
    OtherJobs,      \* all other BackgroundTasks
    OtherLevels,    \* the statuses each of them is queued with
    MaxPriorCt,     \* bound on DataTask.prior_ct, the depth of a stack
    FlushCount,     \* 'count' of performBackgroundWorkSynchronously
    MaxCrashes,     \* bound on the number of times the server is killed
    NoTask,         \* DataTask.Null
    NoJob           \* the task field of an object that does not exist

(* BackgroundTaskStatus, the most urgent first. *)
PendingVeryHigh == 1
PendingHigh     == 2
PendingMedium   == 3
PendingLow      == 4
PendingVeryLow  == 5
Running         == 6

Pending == PendingVeryHigh .. PendingVeryLow
Jobs == CommitJobs \cup TestJobs \cup OtherJobs

ASSUME QueueAssumption ==
    /\ NoTask \notin TaskIds
    /\ NoJob \notin Jobs
    /\ CommitJobs \cap TestJobs = {}
    /\ OtherJobs \cap (CommitJobs \cup TestJobs) = {}
    /\ OtherLevels \in [OtherJobs -> SUBSET Pending]
    /\ MaxPriorCt \in Nat
    /\ FlushCount \in Nat \ {0}
    /\ MaxCrashes \in Nat

(* Jobs looked up through an index before they are queued. *)
Deduped == CommitJobs \cup TestJobs

(* The statuses a job may be queued with. *)
LevelsOf == [j \in Jobs |-> IF j \in CommitJobs THEN {PendingMedium}
                            ELSE IF j \in TestJobs THEN {PendingLow}
                            ELSE OtherLevels[j]]

VARIABLES
    live,       \* the DataTask objects that exist
    job,        \* DataTask.task
    status,     \* DataTask.status
    prior,      \* DataTask.prior
    priorCt,    \* DataTask.prior_ct
    isHead,     \* DataTask.isHead
    lock,       \* who is inside a transaction that may queue several tasks
    phase,      \* where the worker thread is in performBackgroundWork
    cur,        \* the local variable 'task' of performBackgroundWork
    server,     \* the server process: up, down, or flushing before it is up
    flushed,    \* turns of the open transaction of performBackgroundWorkSynchronously
    crashes

taskVars == <<live, job, status, prior, priorCt, isHead>>
serverVars == <<server, flushed, crashes>>
vars == <<taskVars, lock, phase, cur, serverVars>>

TypeOK ==
    /\ live \subseteq TaskIds
    /\ job \in [TaskIds -> Jobs \cup {NoJob}]
    /\ status \in [TaskIds -> Pending \cup {Running}]
    /\ prior \in [TaskIds -> TaskIds \cup {NoTask}]
    /\ priorCt \in [TaskIds -> 0 .. MaxPriorCt]
    /\ isHead \in [TaskIds -> BOOLEAN]
    /\ lock \in {"free", "request", "worker"}
    /\ phase \in {"idle", "picked", "processed"}
    /\ cur \in TaskIds \cup {NoTask}
    /\ server \in {"up", "down", "flushing"}
    /\ flushed \in 0 .. FlushCount - 1
    /\ crashes \in 0 .. MaxCrashes

Init ==
    /\ live = {}
    /\ job = [t \in TaskIds |-> NoJob]
    /\ status = [t \in TaskIds |-> PendingVeryLow]
    /\ prior = [t \in TaskIds |-> NoTask]
    /\ priorCt = [t \in TaskIds |-> 0]
    /\ isHead = [t \in TaskIds |-> FALSE]
    /\ lock = "free"
    /\ phase = "idle"
    /\ cur = NoTask
    /\ server = "up"
    /\ flushed = 0
    /\ crashes = 0

(* DataTask.lookupAny(status=s): the index holds the heads only. *)
Heads(s) == {t \in live : isHead[t] /\ status[t] = s}

(* What performBackgroundWork may pick: any head of the most urgent status *)
(* that has one.                                                           *)
AnyHead == {t \in live : isHead[t] /\ status[t] # Running}    \* mutant
MostUrgentHeads ==
    UNION {Heads(s) : s \in {r \in Pending : \A q \in Pending : q < r => Heads(q) = {}}}

(* The index lookup in front of _queueTask in the two trigger functions.   *)
(* Mutants: the lookup sees only heads, or only pending tasks.             *)
HeadQueued(j) == j \in Deduped /\ \E u \in live : isHead[u] /\ job[u] = j
StillPending(j) == j \in Deduped /\ \E u \in live : status[u] # Running /\ job[u] = j
AlreadyQueued(j) == j \in Deduped /\ \E u \in live : job[u] = j

(* isHead after task t was stacked on task e.  Mutant: e stays a head.     *)
StackedKeepsHead(t, e) == [isHead EXCEPT ![t] = TRUE]
StackedOn(t, e) == [isHead EXCEPT ![t] = TRUE, ![e] = FALSE]

(* isHead after t was deleted.  Mutant: its predecessor is forgotten.      *)
UnstackedForgets(t) == [isHead EXCEPT ![t] = FALSE]
Unstacked(t) == [u \in TaskIds |-> u # t /\ (u = prior[t] \/ isHead[u])]

(* Whether the worker thread may start on a task.  Mutant: a second worker *)
(* thread that does not wait for the first.                                *)
WorkerAlways == server = "up"
WorkerFree == server = "up" /\ phase = "idle"

(* DataTask.New followed by _queueTask: the new task becomes the head of   *)
(* the stack whose head the index returns, or of a stack of its own.       *)
QueueTask(t, j, s) ==
    /\ lock # "free"
    /\ t \notin live
    /\ ~AlreadyQueued(j)
    /\ live' = live \cup {t}
    /\ job' = [job EXCEPT ![t] = j]
    /\ status' = [status EXCEPT ![t] = s]
    /\ \/ /\ Heads(s) = {}
          /\ isHead' = [isHead EXCEPT ![t] = TRUE]
          /\ UNCHANGED <<prior, priorCt>>
       \/ \E existing \in Heads(s) :
          /\ priorCt[existing] < MaxPriorCt
          /\ isHead' = StackedOn(t, existing)
          /\ prior' = [prior EXCEPT ![t] = existing]
          /\ priorCt' = [priorCt EXCEPT ![t] = priorCt[existing] + 1]
    /\ UNCHANGED <<lock, phase, cur, serverVars>>

(* A session, HTTP or startup thread enters and leaves a transaction.      *)
BeginRequest ==
    /\ server = "up" /\ lock = "free"
    /\ lock' = "request"
    /\ UNCHANGED <<taskVars, phase, cur, serverVars>>

EndRequest ==
    /\ lock = "request"
    /\ lock' = "free"
    /\ UNCHANGED <<taskVars, phase, cur, serverVars>>

(* First transaction: mark a head of the most urgent status running.       *)
Pick(t) ==
    /\ WorkerFree /\ lock = "free"
    /\ t \in MostUrgentHeads
    /\ status' = [status EXCEPT ![t] = Running]
    /\ phase' = "picked"
    /\ cur' = t
    /\ UNCHANGED <<live, job, prior, priorCt, isHead, lock, serverVars>>

(* Second transaction: _processTask, which may queue any number of tasks.  *)
BeginProcess ==
    /\ lock = "free" /\ phase = "picked"
    /\ lock' = "worker"
    /\ UNCHANGED <<taskVars, phase, cur, serverVars>>

EndProcess ==
    /\ lock = "worker"
    /\ lock' = "free"
    /\ phase' = "processed"
    /\ UNCHANGED <<taskVars, cur, serverVars>>

(* _processTask raises: the transaction is dropped, the error is logged.   *)
ProcessFails ==
    /\ lock = "free" /\ phase = "picked"
    /\ phase' = "processed"
    /\ UNCHANGED <<taskVars, lock, cur, serverVars>>

(* Delete task t and let its predecessor become a head again.              *)
Remove(t) ==
    /\ live' = live \ {t}
    /\ job' = [job EXCEPT ![t] = NoJob]
    /\ status' = [status EXCEPT ![t] = PendingVeryLow]
    /\ prior' = [prior EXCEPT ![t] = NoTask]
    /\ priorCt' = [priorCt EXCEPT ![t] = 0]
    /\ isHead' = Unstacked(t)

(* Third transaction, in the 'finally' clause. *)
Finish ==
    /\ lock = "free" /\ phase = "processed"
    /\ Remove(cur)
    /\ phase' = "idle"
    /\ cur' = NoTask
    /\ UNCHANGED <<lock, serverVars>>

Worker == (\E t \in TaskIds : Pick(t)) \/ BeginProcess \/ EndProcess \/ ProcessFails \/ Finish

Queueing == \E t \in TaskIds, j \in Jobs : \E s \in LevelsOf[j] : QueueTask(t, j, s)

Next == Worker \/ Queueing \/ BeginRequest \/ EndRequest

Spec == Init /\ [][Next]_vars

------------------------------------------------------------------------------
(* The server is stopped by os._exit(0) in handleStopSignal, at any point. *)
(* A transaction that was open is lost with its lock: killing the server   *)
(* inside one is killing it just before.  The tasks stay in the database.  *)
Crash ==
    /\ server # "down" /\ lock = "free" /\ flushed = 0 /\ crashes < MaxCrashes
    /\ server' = "down"
    /\ crashes' = crashes + 1
    /\ phase' = "idle"
    /\ cur' = NoTask
    /\ UNCHANGED <<taskVars, lock, flushed>>

(* Start the server, without or with --flush_tasks. *)
Start ==
    /\ server = "down"
    /\ server' = "up"
    /\ UNCHANGED <<taskVars, lock, phase, cur, flushed, crashes>>

StartFlushing ==
    /\ server = "down"
    /\ server' = "flushing"
    /\ flushed' = 0
    /\ UNCHANGED <<taskVars, lock, phase, cur, crashes>>

(* One turn of the loop of performBackgroundWorkSynchronously, which makes *)
(* FlushCount turns in one transaction.  The call _processTask(task,       *)
(* curTimestamp) lacks an argument, so it raises and the task is removed   *)
(* without having been processed.                                          *)
FlushTask(t) ==
    /\ server = "flushing"
    /\ t \in MostUrgentHeads
    /\ Remove(t)
    /\ flushed' = IF flushed + 1 = FlushCount THEN 0 ELSE flushed + 1
    /\ UNCHANGED <<lock, phase, cur, server, crashes>>

(* The function returns None, which ends the 'while' around it, when no    *)
(* head is left.                                                           *)
EndFlush ==
    /\ server = "flushing"
    /\ \A s \in Pending : Heads(s) = {}
    /\ server' = "up"
    /\ flushed' = 0
    /\ UNCHANGED <<taskVars, lock, phase, cur, crashes>>

CrashNext ==
    \/ Next
    \/ Crash \/ Start \/ StartFlushing \/ EndFlush
    \/ \E t \in TaskIds : FlushTask(t)

CrashSpec == Init /\ [][CrashNext]_vars

------------------------------------------------------------------------------
(* A task under another one is pending, has the status of the task above   *)
(* it (unless that one is running) and is no head.                         *)
UnderIsWaiting ==
    \A t \in live : prior[t] # NoTask =>
        /\ prior[t] \in live
        /\ ~isHead[prior[t]]
        /\ status[prior[t]] \in Pending
        /\ status[t] # Running => status[prior[t]] = status[t]
        /\ priorCt[t] = priorCt[prior[t]] + 1

(* A task lies under one task only. *)
UnderOneTask ==
    \A t, u \in live : prior[t] = prior[u] /\ prior[t] # NoTask => t = u

(* A task that is no head lies under some task. *)
CoveredUnlessHead ==
    \A t \in live : ~isHead[t] => \E u \in live : prior[u] = t

(* The shape of the stacks built by _queueTask and taken down by the       *)
(* worker, kept by every step, crashes and flushes included: every pending *)
(* task is reached from exactly one head, and no running task is covered.  *)
StackShape ==
    /\ UnderIsWaiting
    /\ UnderOneTask
    /\ CoveredUnlessHead
    /\ \A t \in live : status[t] = Running => isHead[t]

(* At most one task per commit priority update and per test priority       *)
(* update, whatever its status (the indices update_commit_priority and     *)
(* update_test_priority, looked up before queueing).                       *)
OneTaskPerUpdate ==
    \A t, u \in live : job[t] = job[u] /\ job[t] \in Deduped => t = u

(* While the server is not killed, the task marked running is the one the  *)
(* worker of performBackgroundWork holds, and there is no other.           *)
OnlyCurrentRuns ==
    /\ \A t \in live : status[t] = Running <=> phase # "idle" /\ t = cur
    /\ phase # "idle" => cur \in live

(* No task is stranded: when the worker looks for work, every status that  *)
(* has a pending task has a head that lookupAny can return.                *)
NothingStranded ==
    phase = "idle" => \A t \in live : Heads(status[t]) # {}

(* When a test priority update is picked no commit priority update waits:  *)
(* "test priority updates are always 'low' because we want to ensure that  *)
(* all commit updates have triggered first".                               *)
CommitUpdatesFirst ==
    [][\A t \in live :
         (phase = "idle" /\ phase' = "picked" /\ cur' = t /\ job[t] \in TestJobs) =>
            ~ \E u \in live : job[u] \in CommitJobs /\ status[u] # Running]_vars

(* The queue as its users see it: while the server is not killed, the      *)
(* stacks implement WorkQueue (no request is lost, skipped or taken twice, *)
(* and a most urgent one is taken first).                                  *)
PendingEntry(t) == [id |-> t, job |-> job[t], level |-> status[t]]
PendingEntries == {PendingEntry(t) : t \in {u \in live : status[u] # Running}}
ActiveEntry == IF phase = "idle" THEN {} ELSE {[id |-> cur, job |-> job[cur]]}

WQ == INSTANCE WorkQueue WITH pending <- PendingEntries, active <- ActiveEntry

ImplementsWorkQueue == WQ!Spec

==============================================================================
