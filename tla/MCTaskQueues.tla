---------------------------- MODULE MCTaskQueues ----------------------------
(* The task queue of a server that stays up, and beside it a smaller one of *)
(* a server that is killed twice. A behaviour is one or the other.          *)
EXTENDS MCTaskQueue

VARIABLES
    part,   \* "up" or "killed"
    kLive, kJob, kStatus, kPrior, kPriorCt, kIsHead, kLock, kPhase, kCur,
    kServer, kFlushed, kCrashes

kVars == <<kLive, kJob, kStatus, kPrior, kPriorCt, kIsHead, kLock, kPhase, kCur,
           kServer, kFlushed, kCrashes>>

Killed == INSTANCE TaskQueue WITH
    TaskIds <- MCTaskIds3, FlushCount <- 2, MaxCrashes <- 2,
    live <- kLive, job <- kJob, status <- kStatus, prior <- kPrior,
    priorCt <- kPriorCt, isHead <- kIsHead, lock <- kLock, phase <- kPhase,
    cur <- kCur, server <- kServer, flushed <- kFlushed, crashes <- kCrashes

MCInit == part \in {"up", "killed"} /\ Init /\ Killed!Init

MCNext ==
    /\ UNCHANGED part
    /\ \/ part = "up" /\ Next /\ UNCHANGED kVars
       \/ part = "killed" /\ Killed!CrashNext /\ UNCHANGED vars

MCSpec == MCInit /\ [][MCNext]_<<part, vars, kVars>>

(* After the server was killed, at any point and also while it flushed the  *)
(* queue as it started, stacks are well formed and no update of a commit or *)
(* test is queued twice.                                                    *)
KilledQueueSound == Killed!StackShape /\ Killed!OneTaskPerUpdate
=============================================================================
