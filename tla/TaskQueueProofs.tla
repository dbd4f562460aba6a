--------------------------- MODULE TaskQueueProofs ---------------------------
(* Proofs about TaskQueue, for every set of tasks and jobs and all bounds. *)
EXTENDS TaskQueue, WellFoundedInduction, TLAPS

(* What an induction over the steps needs besides the properties: objects  *)
(* that do not exist have no predecessor, and the worker's current task    *)
(* exists and is marked running.                                           *)
DeadIsBlank ==
    \A t \in TaskIds \ live : prior[t] = NoTask /\ priorCt[t] = 0

CurrentIsRunning ==
    /\ phase # "idle" => cur \in live /\ status[cur] = Running
    /\ lock = "worker" => phase = "picked"

(* A task waits with a status its job is queued with. *)
StatusOfJob ==
    \A t \in live : job[t] \in Jobs /\ (status[t] # Running => status[t] \in LevelsOf[job[t]])

CrashInv ==
    /\ TypeOK
    /\ StatusOfJob
    /\ StackShape
    /\ OneTaskPerUpdate
    /\ DeadIsBlank
    /\ CurrentIsRunning

(* A bounded function has a maximum. *)
LEMMA MaxExists ==
  ASSUME NEW T, T # {}, NEW B \in Nat, NEW f \in [T -> 0 .. B]
  PROVE  \E m \in T : \A u \in T : f[u] <= f[m]
<1> DEFINE S == {B - f[u] : u \in T}
<1> DEFINE R == OpToRel(<, Nat)
<1>1. S \subseteq Nat /\ S # {}
  OBVIOUS
<1>2. \E x \in S : \A y \in S : ~(<<y, x>> \in R)
  <2> HIDE DEF S, R
  <2>1. IsWellFoundedOn(R, Nat)
    BY NatLessThanWellFounded DEF R
  <2>2. QED BY <1>1, <2>1, WFMin
<1>3. PICK x \in S : \A y \in S : ~(y < x)
  BY <1>1, <1>2 DEF OpToRel
<1>4. PICK m \in T : x = B - f[m]
  OBVIOUS
<1>5. \A u \in T : ~(B - f[u] < B - f[m])
  BY <1>3, <1>4
<1>6. \A u \in T : f[u] \in Nat /\ f[m] \in Nat
  OBVIOUS
<1>7. QED
  <2> HIDE DEF S, R
  <2> QED BY <1>5, <1>6

(* Every status a task is queued with is a pending one. *)
LEMMA LevelsType ==
  \A j \in Jobs : LevelsOf[j] \subseteq Pending
BY QueueAssumption DEF LevelsOf, Jobs, Pending, PendingVeryHigh, PendingMedium,
   PendingLow, PendingVeryLow

(* QueueTask keeps the invariant. *)
LEMMA QueueTaskKeeps ==
  ASSUME CrashInv, NEW t \in TaskIds, NEW j \in Jobs, NEW s \in LevelsOf[j],
         QueueTask(t, j, s)
  PROVE  CrashInv'
<1> USE DEF CrashInv
<1>1. s \in Pending /\ s # Running
  BY LevelsType DEF Pending, Running, PendingVeryHigh, PendingVeryLow
<1>2. TypeOK'
  <2>1. /\ live' \subseteq TaskIds /\ job' \in [TaskIds -> Jobs \cup {NoJob}]
        /\ status' \in [TaskIds -> Pending \cup {Running}]
        /\ UNCHANGED <<lock, phase, cur, server, flushed, crashes>>
    BY <1>1 DEF QueueTask, TypeOK, serverVars
  <2>2. isHead' \in [TaskIds -> BOOLEAN] /\ prior' \in [TaskIds -> TaskIds \cup {NoTask}]
    <3>1. \/ isHead' = [isHead EXCEPT ![t] = TRUE] /\ prior' = prior
          \/ \E e \in live : /\ isHead' = [isHead EXCEPT ![t] = TRUE, ![e] = FALSE]
                             /\ prior' = [prior EXCEPT ![t] = e]
      BY DEF QueueTask, Heads, StackedOn
    <3>2. QED  BY <3>1 DEF TypeOK
  <2>3. \A e \in live : priorCt[e] < MaxPriorCt => priorCt[e] + 1 \in 0 .. MaxPriorCt
    BY QueueAssumption DEF TypeOK
  <2>4. priorCt' \in [TaskIds -> 0 .. MaxPriorCt]
    BY <2>3 DEF QueueTask, TypeOK, Heads
  <2>5. QED  BY <2>1, <2>2, <2>4 DEF TypeOK
<1>3. StackShape'
  <2>1. CASE /\ Heads(s) = {}
             /\ isHead' = [isHead EXCEPT ![t] = TRUE]
             /\ UNCHANGED <<prior, priorCt>>
    <3>1. /\ t \notin live /\ live' = live \cup {t} /\ prior[t] = NoTask
          /\ isHead'[t] /\ status'[t] # Running
          /\ \A u \in live : /\ isHead'[u] = isHead[u] /\ status'[u] = status[u]
                             /\ prior'[u] = prior[u] /\ priorCt'[u] = priorCt[u]
          /\ prior'[t] = NoTask
      BY <1>1, <2>1 DEF QueueTask, TypeOK, DeadIsBlank
    <3>2. \A u \in live : prior[u] # NoTask => prior[u] \in live
      BY DEF StackShape, UnderIsWaiting
    <3>3. UnderIsWaiting'
      BY <3>1, <3>2 DEF StackShape, UnderIsWaiting
    <3>4. UnderOneTask'
      BY <3>1 DEF StackShape, UnderOneTask
    <3>5. CoveredUnlessHead'
      BY <3>1 DEF StackShape, CoveredUnlessHead
    <3>6. QED  BY <3>1, <3>3, <3>4, <3>5 DEF StackShape
  <2>2. ASSUME NEW e \in Heads(s),
               isHead' = StackedOn(t, e),
               prior' = [prior EXCEPT ![t] = e],
               priorCt' = [priorCt EXCEPT ![t] = priorCt[e] + 1]
        PROVE  StackShape'
    <3>1. /\ t \notin live /\ live' = live \cup {t} /\ e \in live /\ e # t
          /\ isHead'[t] /\ ~isHead'[e] /\ isHead[e]
          /\ status'[t] = s /\ status'[e] = s
          /\ prior'[t] = e /\ priorCt'[t] = priorCt[e] + 1
          /\ \A u \in live : /\ status'[u] = status[u]
                             /\ prior'[u] = prior[u] /\ priorCt'[u] = priorCt[u]
                             /\ u # e => isHead'[u] = isHead[u]
      BY <1>1, <2>2 DEF QueueTask, TypeOK, Heads, StackedOn
    <3>2. \A u \in live : prior[u] # NoTask => prior[u] \in live /\ prior[u] # e
      BY <3>1 DEF StackShape, UnderIsWaiting
    <3>3. UnderIsWaiting'
      BY <1>1, <3>1, <3>2 DEF StackShape, UnderIsWaiting
    <3>4. UnderOneTask'
      BY <3>1, <3>2 DEF StackShape, UnderOneTask
    <3>5. CoveredUnlessHead'
      BY <3>1 DEF StackShape, CoveredUnlessHead
    <3>6. \A u \in live' : status'[u] = Running => isHead'[u]
      BY <1>1, <3>1 DEF StackShape
    <3>7. QED  BY <3>3, <3>4, <3>5, <3>6 DEF StackShape
  <2>3. QED  BY <2>1, <2>2 DEF QueueTask
<1>4. OneTaskPerUpdate'
  <2>1. /\ live' = live \cup {t} /\ t \notin live /\ job'[t] = j
        /\ \A u \in live : job'[u] = job[u]
    BY DEF QueueTask, TypeOK
  <2>2. j \in Deduped => \A u \in live : job[u] # j
    BY DEF QueueTask, AlreadyQueued
  <2>3. QED  BY <2>1, <2>2 DEF OneTaskPerUpdate
<1>5. DeadIsBlank'
  BY DEF QueueTask, DeadIsBlank, TypeOK, Heads
<1>6. CurrentIsRunning'
  BY DEF QueueTask, CurrentIsRunning, TypeOK
<1>7. StatusOfJob'
  BY DEF QueueTask, StatusOfJob, TypeOK
<1>8. QED  BY <1>2, <1>3, <1>4, <1>5, <1>6, <1>7

(* Removing a head that is not the current task of a busy worker, with the *)
(* flush and with the third transaction of the worker.                     *)
LEMMA RemoveKeeps ==
  ASSUME CrashInv, NEW t \in live, isHead[t], Remove(t)
  PROVE  StackShape' /\ OneTaskPerUpdate' /\ DeadIsBlank' /\ StatusOfJob'
<1> USE DEF CrashInv
<1>1. /\ live' = live \ {t} /\ t \in TaskIds
      /\ \A u \in live' : /\ job'[u] = job[u] /\ status'[u] = status[u]
                          /\ prior'[u] = prior[u] /\ priorCt'[u] = priorCt[u]
                          /\ u = prior[t] => isHead'[u]
                          /\ u # prior[t] => isHead'[u] = isHead[u]
  BY DEF Remove, Unstacked, TypeOK
<1>2. \A u \in live : prior[u] # t
  BY QueueAssumption DEF StackShape, UnderIsWaiting, TypeOK
<1>3. \A u \in live' : prior[u] # NoTask => prior[u] # prior[t]
  BY <1>1 DEF StackShape, UnderOneTask
<1>4. UnderIsWaiting'
  BY <1>1, <1>2, <1>3 DEF StackShape, UnderIsWaiting
<1>5. UnderOneTask'
  BY <1>1 DEF StackShape, UnderOneTask
<1>6. CoveredUnlessHead'
  BY <1>1 DEF StackShape, CoveredUnlessHead
<1>7. \A u \in live' : status'[u] = Running => isHead'[u]
  BY <1>1 DEF StackShape
<1>8. StackShape'
  BY <1>4, <1>5, <1>6, <1>7 DEF StackShape
<1>9. OneTaskPerUpdate'
  BY <1>1 DEF OneTaskPerUpdate
<1>10. DeadIsBlank'
  BY DEF DeadIsBlank, Remove, TypeOK
<1>11. StatusOfJob'
  BY <1>1 DEF StatusOfJob
<1>12. QED  BY <1>8, <1>9, <1>10, <1>11

(* Removing a task keeps the types of the task objects. *)
LEMMA RemoveTypes ==
  ASSUME TypeOK, NEW t \in live, Remove(t)
  PROVE  /\ live' \subseteq TaskIds
         /\ job' \in [TaskIds -> Jobs \cup {NoJob}]
         /\ status' \in [TaskIds -> Pending \cup {Running}]
         /\ prior' \in [TaskIds -> TaskIds \cup {NoTask}]
         /\ priorCt' \in [TaskIds -> 0 .. MaxPriorCt]
         /\ isHead' \in [TaskIds -> BOOLEAN]
<1>1. PendingVeryLow \in Pending /\ 0 \in 0 .. MaxPriorCt /\ t \in TaskIds
  BY QueueAssumption DEF Pending, PendingVeryHigh, PendingVeryLow, TypeOK
<1>2. isHead' \in [TaskIds -> BOOLEAN]
  BY DEF Remove, Unstacked, TypeOK
<1>3. status' \in [TaskIds -> Pending \cup {Running}]
  BY <1>1 DEF Remove, TypeOK
<1>4. priorCt' \in [TaskIds -> 0 .. MaxPriorCt]
  BY <1>1 DEF Remove, TypeOK
<1>5. QED  BY <1>1, <1>2, <1>3, <1>4 DEF Remove, TypeOK

(* The inductive step, one case per action. *)
LEMMA StepKeeps ==
  CrashInv /\ [CrashNext]_vars => CrashInv'
<1> SUFFICES ASSUME CrashInv, [CrashNext]_vars  PROVE CrashInv'
  OBVIOUS
<1> USE DEF CrashInv, taskVars, serverVars
<1>1. ASSUME NEW t \in TaskIds, Pick(t)  PROVE CrashInv'
  <2>1. /\ t \in live /\ isHead[t] /\ status[t] \in Pending /\ status'[t] = Running
        /\ \A u \in live : u # t => status'[u] = status[u]
        /\ UNCHANGED <<live, job, prior, priorCt, isHead>>
    BY <1>1 DEF Pick, MostUrgentHeads, Heads, TypeOK
  <2>2. TypeOK'
    BY <1>1, <2>1 DEF Pick, TypeOK
  <2>3. \A u \in live : prior[u] # t
    BY <2>1, QueueAssumption DEF StackShape, UnderIsWaiting, TypeOK
  <2>4. UnderIsWaiting'
    BY <2>1, <2>3 DEF StackShape, UnderIsWaiting, TypeOK
  <2>5. StackShape'
    BY <2>1, <2>4 DEF StackShape, UnderOneTask, CoveredUnlessHead
  <2>6. OneTaskPerUpdate' /\ DeadIsBlank' /\ StatusOfJob'
    BY <2>1 DEF OneTaskPerUpdate, DeadIsBlank, StatusOfJob
  <2>7. CurrentIsRunning'
    BY <1>1, <2>1 DEF Pick, CurrentIsRunning
  <2>8. QED  BY <2>2, <2>5, <2>6, <2>7
<1>2. ASSUME NEW t \in TaskIds, NEW j \in Jobs, NEW s \in LevelsOf[j], QueueTask(t, j, s)
      PROVE  CrashInv'
  BY <1>2, QueueTaskKeeps
<1>3. CASE Finish
  <2>1. cur \in live /\ isHead[cur] /\ Remove(cur)
    BY <1>3 DEF Finish, CurrentIsRunning, StackShape
  <2>2. StackShape' /\ OneTaskPerUpdate' /\ DeadIsBlank' /\ StatusOfJob'
    BY <2>1, RemoveKeeps
  <2>3. TypeOK'
    <3>1. TypeOK /\ UNCHANGED <<lock, server, flushed, crashes>> /\ phase' = "idle" /\ cur' = NoTask
      BY <1>3 DEF Finish
    <3>2. QED  BY <2>1, <3>1, RemoveTypes DEF TypeOK
  <2>4. CurrentIsRunning'
    BY <1>3 DEF Finish, CurrentIsRunning
  <2>5. QED  BY <2>2, <2>3, <2>4
<1>4. ASSUME NEW t \in TaskIds, FlushTask(t)  PROVE CrashInv'
  <2>1. t \in live /\ isHead[t] /\ status[t] # Running /\ Remove(t)
    BY <1>4 DEF FlushTask, MostUrgentHeads, Heads, Pending, Running, PendingVeryHigh, PendingVeryLow
  <2>2. StackShape' /\ OneTaskPerUpdate' /\ DeadIsBlank' /\ StatusOfJob'
    BY <2>1, RemoveKeeps
  <2>3. TypeOK'
    <3>1. TypeOK /\ UNCHANGED <<lock, phase, cur, server, crashes>>
      BY <1>4 DEF FlushTask
    <3>2. flushed' \in 0 .. FlushCount - 1
      BY <1>4, QueueAssumption DEF FlushTask, TypeOK
    <3>3. QED  BY <2>1, <3>1, <3>2, RemoveTypes DEF TypeOK
  <2>4. CurrentIsRunning'
    BY <1>4, <2>1 DEF FlushTask, Remove, CurrentIsRunning, TypeOK
  <2>5. QED  BY <2>2, <2>3, <2>4
<1>5. ASSUME UNCHANGED taskVars  PROVE StackShape' /\ OneTaskPerUpdate' /\ DeadIsBlank' /\ StatusOfJob'
  BY <1>5 DEF StatusOfJob, StackShape, UnderIsWaiting, UnderOneTask, CoveredUnlessHead,
     OneTaskPerUpdate, DeadIsBlank
<1>6. CASE BeginRequest \/ EndRequest \/ BeginProcess \/ EndProcess \/ ProcessFails
  <2>1. TypeOK' /\ CurrentIsRunning'
    BY <1>6 DEF BeginRequest, EndRequest, BeginProcess, EndProcess, ProcessFails,
       TypeOK, CurrentIsRunning
  <2>2. UNCHANGED taskVars
    BY <1>6 DEF BeginRequest, EndRequest, BeginProcess, EndProcess, ProcessFails
  <2>3. QED  BY <1>5, <2>1, <2>2
<1>7. CASE Crash \/ Start \/ StartFlushing \/ EndFlush
  <2>1. TypeOK' /\ CurrentIsRunning'
    BY <1>7, QueueAssumption DEF Crash, Start, StartFlushing, EndFlush,
       TypeOK, CurrentIsRunning
  <2>2. UNCHANGED taskVars
    BY <1>7 DEF Crash, Start, StartFlushing, EndFlush
  <2>3. QED  BY <1>5, <2>1, <2>2
<1>8. CASE UNCHANGED vars
  BY <1>5, <1>8 DEF vars, TypeOK, CurrentIsRunning
<1>9. QED
  BY <1>1, <1>2, <1>3, <1>4, <1>6, <1>7, <1>8 DEF CrashNext, Next, Worker, Queueing

(* An empty queue satisfies the invariant. *)
LEMMA InitHolds == Init => CrashInv
BY QueueAssumption DEF Init, CrashInv, TypeOK, StackShape, UnderIsWaiting, UnderOneTask,
   CoveredUnlessHead, OneTaskPerUpdate, DeadIsBlank, CurrentIsRunning, StatusOfJob, Pending,
   PendingVeryHigh, PendingVeryLow

(* Type correctness, kept across kills, restarts and flushes of the server *)
(* (CrashSpec), of the state _queueTask and performBackgroundWork keep.    *)
THEOREM TypeCorrect == CrashSpec => []TypeOK
<1>1. CrashSpec => []CrashInv
  BY InitHolds, StepKeeps, PTL DEF CrashSpec
<1>2. CrashInv => TypeOK
  BY DEF CrashInv
<1>3. QED  BY <1>1, <1>2, PTL

(* The stacks keep their shape, and an update of one commit or test is     *)
(* queued at most once, across kills, restarts and flushes.                *)
THEOREM ShapeHolds == CrashSpec => []StackShape
<1>1. CrashSpec => []CrashInv
  BY InitHolds, StepKeeps, PTL DEF CrashSpec
<1>2. CrashInv => StackShape
  BY DEF CrashInv
<1>3. QED  BY <1>1, <1>2, PTL

(* The two index lookups of the trigger functions are enough: there is at  *)
(* most one task per update, also after a kill.                            *)
THEOREM DedupHolds == CrashSpec => []OneTaskPerUpdate
<1>1. CrashSpec => []CrashInv
  BY InitHolds, StepKeeps, PTL DEF CrashSpec
<1>2. CrashInv => OneTaskPerUpdate
  BY DEF CrashInv
<1>3. QED  BY <1>1, <1>2, PTL

------------------------------------------------------------------------------
(* The rest is about a server that is not killed.                          *)
Inv == CrashInv /\ OnlyCurrentRuns

(* While nobody kills the server every step keeps the stronger invariant. *)
LEMMA InvStep == Inv /\ [Next]_vars => Inv'
<1> SUFFICES ASSUME Inv, [Next]_vars  PROVE OnlyCurrentRuns'
  BY StepKeeps DEF Inv, CrashNext
<1> USE DEF Inv, CrashInv, taskVars, serverVars
<1>1. ASSUME NEW t \in TaskIds, Pick(t)  PROVE OnlyCurrentRuns'
  <2>1. t \in live /\ \A u \in live : status[u] # Running
    BY <1>1 DEF Pick, WorkerFree, OnlyCurrentRuns, MostUrgentHeads, Heads
  <2>2. QED  BY <1>1, <2>1 DEF Pick, OnlyCurrentRuns, TypeOK
<1>2. ASSUME NEW t \in TaskIds, NEW j \in Jobs, NEW s \in LevelsOf[j], QueueTask(t, j, s)
      PROVE  OnlyCurrentRuns'
  <2>1. s # Running
    BY LevelsType DEF Pending, Running, PendingVeryHigh, PendingVeryLow
  <2>2. QED  BY <1>2, <2>1 DEF QueueTask, OnlyCurrentRuns, TypeOK
<1>3. CASE Finish
  BY <1>3 DEF Finish, Remove, OnlyCurrentRuns, TypeOK
<1>4. CASE BeginRequest \/ EndRequest \/ BeginProcess \/ EndProcess \/ ProcessFails
  BY <1>4 DEF BeginRequest, EndRequest, BeginProcess, EndProcess, ProcessFails,
     OnlyCurrentRuns, CurrentIsRunning
<1>5. CASE UNCHANGED vars
  BY <1>5 DEF vars, OnlyCurrentRuns
<1>6. QED
  BY <1>1, <1>2, <1>3, <1>4, <1>5 DEF Next, Worker, Queueing

(* The stronger invariant holds in every state of Spec. *)
LEMMA InvHolds == Spec => []Inv
<1>1. Init => Inv
  BY InitHolds DEF Inv, Init, OnlyCurrentRuns
<1>2. QED  BY <1>1, InvStep, PTL DEF Spec

(* While the server is not killed, the task that is marked running is the  *)
(* one performBackgroundWork holds between its transactions: none is left  *)
(* marked when the worker looks for the next one.                          *)
THEOREM RunningIsCurrent == Spec => []OnlyCurrentRuns
<1>1. Inv => OnlyCurrentRuns
  BY DEF Inv
<1>2. QED  BY <1>1, InvHolds, PTL

(* A deepest task of a status is a head when nothing is running: if it     *)
(* were covered, the task above it would be deeper.                        *)
LEMMA DeepestIsHead == Inv => NothingStranded
<1> SUFFICES ASSUME Inv, phase = "idle", NEW t \in live
             PROVE  Heads(status[t]) # {}
  BY DEF NothingStranded
<1> USE DEF Inv, CrashInv
<1> DEFINE T == {u \in live : status[u] = status[t]}
<1> DEFINE f == [u \in T |-> priorCt[u]]
<1>1. T # {} /\ f \in [T -> 0 .. MaxPriorCt] /\ MaxPriorCt \in Nat
  BY QueueAssumption DEF TypeOK
<1>2. PICK m \in T : \A u \in T : f[u] <= f[m]
  <2> HIDE DEF T, f
  <2> QED  BY <1>1, MaxExists
<1>3. \A u \in T : priorCt[u] <= priorCt[m]
  BY <1>2
<1>4. ASSUME ~isHead[m]  PROVE FALSE
  <2>1. PICK v \in live : prior[v] = m
    BY <1>4 DEF StackShape, CoveredUnlessHead
  <2>2. status[v] # Running /\ prior[v] # NoTask
    BY <2>1, QueueAssumption DEF OnlyCurrentRuns, TypeOK
  <2>3. v \in T /\ priorCt[v] = priorCt[m] + 1
    BY <2>1, <2>2 DEF StackShape, UnderIsWaiting
  <2>4. priorCt[m] \in Nat /\ priorCt[v] \in Nat
    BY QueueAssumption DEF TypeOK
  <2>5. QED  BY <1>3, <2>3, <2>4
<1>5. QED  BY <1>4 DEF Heads

(* While the server is not killed no pending task is stranded: whenever    *)
(* the worker looks, lookupAny finds a head for every status in use.       *)
THEOREM NoTaskStranded == Spec => []NothingStranded
BY InvHolds, DeepestIsHead, PTL

(* A pick takes a task no pending task is more urgent than, not only the   *)
(* most urgent head.                                                       *)
LEMMA PickIsMostUrgent ==
  ASSUME Inv, NEW t \in TaskIds, Pick(t), NEW u \in live
  PROVE  status[t] <= status[u]
<1> USE DEF Inv, CrashInv
<1>1. PICK s \in Pending : t \in Heads(s) /\ \A r \in Pending : r < s => Heads(r) = {}
  BY DEF Pick, MostUrgentHeads
<1>2. phase = "idle"
  BY DEF Pick, WorkerFree
<1>3. Heads(status[u]) # {}
  BY <1>2, DeepestIsHead DEF NothingStranded
<1>4. status[u] \in Pending
  BY <1>2 DEF OnlyCurrentRuns, TypeOK
<1>5. status[t] = s
  BY <1>1 DEF Heads
<1>6. QED  BY <1>1, <1>3, <1>4, <1>5 DEF Pending, PendingVeryHigh, PendingVeryLow

(* The comment of _triggerTestPriorityUpdate holds while the server is not *)
(* killed: when a test priority update is picked, every commit priority    *)
(* update queued before it has been processed.                             *)
THEOREM CommitUpdatesGoFirst == Spec => CommitUpdatesFirst
<1>1. Inv /\ [Next]_vars =>
        [\A t \in live :
           (phase = "idle" /\ phase' = "picked" /\ cur' = t /\ job[t] \in TestJobs) =>
              ~ \E u \in live : job[u] \in CommitJobs /\ status[u] # Running]_vars
  <2> SUFFICES ASSUME Inv, Next, NEW t \in live, phase = "idle", phase' = "picked", cur' = t,
                      job[t] \in TestJobs, NEW u \in live, job[u] \in CommitJobs,
                      status[u] # Running
               PROVE  FALSE
    OBVIOUS
  <2>1. t \in TaskIds /\ Pick(t)
    BY DEF Inv, CrashInv, TypeOK, Next, Worker, Queueing, Pick, BeginProcess, EndProcess,
       ProcessFails, Finish, QueueTask, BeginRequest, EndRequest
  <2>2. status[t] <= status[u]
    BY <2>1, PickIsMostUrgent
  <2>3. status[t] # Running
    BY <2>1 DEF Pick, MostUrgentHeads, Heads, Pending, Running, PendingVeryHigh, PendingVeryLow
  <2>4. status[t] = PendingLow /\ status[u] = PendingMedium
    BY <2>3, QueueAssumption DEF Inv, CrashInv, StatusOfJob, LevelsOf, Jobs
  <2>5. QED  BY <2>2, <2>4 DEF PendingLow, PendingMedium
<1>2. QED  BY <1>1, InvHolds, PTL DEF Spec, CommitUpdatesFirst

(* The stacks of DataTasks and the three transactions of the worker        *)
(* implement the abstract queue while the server is not killed.            *)
THEOREM RefinesWorkQueue == Spec => ImplementsWorkQueue
<1>1. Init => WQ!Init
  BY DEF Init, WQ!Init, PendingEntries, ActiveEntry
<1>2. Inv /\ [Next]_vars => [WQ!Next]_(WQ!workVars)
  <2> SUFFICES ASSUME Inv, [Next]_vars  PROVE [WQ!Next]_(WQ!workVars)
    OBVIOUS
  <2> USE DEF Inv, CrashInv, taskVars, serverVars
  <2>1. \A t \in live : PendingEntry(t) \in WQ!Entries \/ status[t] = Running
    <3> SUFFICES ASSUME NEW t \in live, status[t] # Running
                 PROVE  PendingEntry(t) \in WQ!Entries
      OBVIOUS
    <3>1. t \in TaskIds /\ job[t] \in Jobs /\ status[t] \in LevelsOf[job[t]]
      BY DEF StatusOfJob, TypeOK
    <3>2. PendingEntry(t) \in [id : TaskIds, job : {job[t]}, level : LevelsOf[job[t]]]
      BY <3>1 DEF PendingEntry
    <3>3. DOMAIN LevelsOf = Jobs
      BY DEF LevelsOf
    <3>4. QED  BY <3>1, <3>2, <3>3 DEF WQ!Entries
  <2>2. ASSUME NEW t \in TaskIds, Pick(t)  PROVE WQ!Next
    <3>1. /\ t \in live /\ phase = "idle" /\ phase' = "picked" /\ cur' = t
          /\ status[t] # Running /\ \A u \in live : status[u] # Running
          /\ live' = live /\ job' = job /\ status' = [status EXCEPT ![t] = Running]
      BY <2>2 DEF Pick, WorkerFree, MostUrgentHeads, Heads, OnlyCurrentRuns, Pending, Running,
         PendingVeryHigh, PendingVeryLow
    <3>2. PendingEntry(t) \in PendingEntries /\ PendingEntry(t) \in WQ!Entries
      BY <2>1, <3>1 DEF PendingEntries
    <3>3. \A f \in PendingEntries : PendingEntry(t).level <= f.level
      BY <2>2, PickIsMostUrgent DEF PendingEntries, PendingEntry
    <3>4. PendingEntries' = PendingEntries \ {PendingEntry(t)}
      BY <3>1 DEF PendingEntries, PendingEntry, TypeOK
    <3>5. ActiveEntry = {} /\ ActiveEntry' = {[id |-> PendingEntry(t).id, job |-> PendingEntry(t).job]}
      BY <3>1 DEF ActiveEntry, PendingEntry
    <3>6. WQ!Take(PendingEntry(t))
      BY <3>2, <3>3, <3>4, <3>5 DEF WQ!Take
    <3>7. QED  BY <3>2, <3>6 DEF WQ!Next
  <2>3. ASSUME NEW t \in TaskIds, NEW j \in Jobs, NEW s \in LevelsOf[j], QueueTask(t, j, s)
        PROVE  WQ!Next
    <3> DEFINE e == [id |-> t, job |-> j, level |-> s]
    <3>1. s # Running /\ e \in WQ!Entries
      BY LevelsType DEF WQ!Entries, LevelsOf, Pending, Running, PendingVeryHigh, PendingVeryLow
    <3>2. /\ live' = live \cup {t} /\ t \notin live /\ job'[t] = j /\ status'[t] = s
          /\ \A u \in live : job'[u] = job[u] /\ status'[u] = status[u]
          /\ UNCHANGED <<phase, cur>>
      BY <2>3 DEF QueueTask, TypeOK
    <3>3. PendingEntries' = PendingEntries \cup {e}
      BY <3>1, <3>2 DEF PendingEntries, PendingEntry
    <3>4. ActiveEntry' = ActiveEntry
      BY <3>2 DEF ActiveEntry, CurrentIsRunning
    <3>5. \A f \in PendingEntries \cup ActiveEntry : \E u \in live : f.id = u /\ f.job = job[u]
      BY DEF PendingEntries, PendingEntry, ActiveEntry, CurrentIsRunning
    <3>6. \A u \in live : u # t /\ (j \in Deduped => job[u] # j)
      BY <2>3 DEF QueueTask, AlreadyQueued
    <3>7. WQ!Request(e)
      BY <3>3, <3>4, <3>5, <3>6 DEF WQ!Request
    <3>8. QED  BY <3>1, <3>7 DEF WQ!Next
  <2>4. CASE Finish
    <3>1. /\ phase # "idle" /\ phase' = "idle" /\ cur \in live /\ status[cur] = Running
          /\ live' = live \ {cur}
          /\ \A u \in live' : job'[u] = job[u] /\ status'[u] = status[u]
      BY <2>4 DEF Finish, Remove, CurrentIsRunning, TypeOK
    <3>2. PendingEntries' = PendingEntries
      BY <3>1 DEF PendingEntries, PendingEntry
    <3>3. QED  BY <3>1, <3>2 DEF ActiveEntry, WQ!Complete, WQ!Next
  <2>5. CASE BeginRequest \/ EndRequest \/ BeginProcess \/ EndProcess \/ ProcessFails
             \/ UNCHANGED vars
    <3>1. UNCHANGED <<live, job, status, cur>> /\ (phase' = "idle" <=> phase = "idle")
      BY <2>5 DEF BeginRequest, EndRequest, BeginProcess, EndProcess, ProcessFails, vars,
         CurrentIsRunning
    <3>2. PendingEntries' = PendingEntries
      BY <3>1 DEF PendingEntries, PendingEntry
    <3>3. QED  BY <3>1, <3>2 DEF ActiveEntry, WQ!workVars
  <2>6. QED
    BY <2>2, <2>3, <2>4, <2>5 DEF Next, Worker, Queueing
<1>3. QED  BY <1>1, <1>2, InvHolds, PTL DEF Spec, ImplementsWorkQueue, WQ!Spec

==============================================================================
