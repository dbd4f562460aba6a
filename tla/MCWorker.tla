------------------------------ MODULE MCWorker ------------------------------
(* Parts of a worker, and the helpers it shares with the server, side by      *)
(* side. A behaviour is one of a single part; those other than the images     *)
(* that Windows workers boot from share the variables w1 ... w18, and keep    *)
(* the ones they have no use for.                                            *)
EXTENDS AmiCreation, Sequences, TLC

CONSTANTS None

(* Configurations of Windows have keys of their own. *)
OwnKeys == [c \in Configs |-> c]

VARIABLES part, w1, w2, w3, w4, w5, w6, w7, w8, w9, w10, w11, w12, w13, w14, w15, w16,
          w17, w18

from16 == <<w16, w17, w18>>
from15 == <<w15, from16>>
from11 == <<w11, w12, w13, w14, from15>>
from10 == <<w10, from11>>
from7 == <<w7, w8, w9, from10>>
slots == <<w1, w2, w3, w4, w5, w6, from7>>
all == <<part, vars, slots>>

From16 == w16 = 0 /\ w17 = 0 /\ w18 = 0
From15 == w15 = 0 /\ From16
From11 == w11 = 0 /\ w12 = 0 /\ w13 = 0 /\ w14 = 0 /\ From15
From10 == w10 = 0 /\ From11
From7 == w7 = 0 /\ w8 = 0 /\ w9 = 0 /\ From10
Slots == w1 = 0 /\ w2 = 0 /\ w3 = 0 /\ w4 = 0 /\ w5 = 0 /\ w6 = 0 /\ From7

---------------------------------------------------------------------------
(* Three workers and two permissions: the limit is compared with >. *)
Workers == 1..3
Locks == INSTANCE GitRepoLocks WITH
    Workers <- Workers, Ids <- {1, 2}, MaxGitConnections <- 1, Pulls <- 1, MaxFaults <- 1,
    worker <- w1, over <- w2, lock <- w3, request <- w4, answer <- w5, faults <- w6

(* A build, a test and a deployment of two stages that need a build and a      *)
(* source, in a cache that has room for one of them.                         *)
Execution == INSTANCE TestExecution WITH
    Deps <- {"b", "s"}, Source <- {"s"}, Tarball <- [d \in {"b", "s"} |-> <<d, ".tar.gz">>],
    Stages <- << <<"x">>, <<"y">> >>, Kinds <- {"Build", "Test", "Deployment"},
    Storages <- {"S3", "LocalDisk"}, Tries <- 3, Cores <- 2, MaxCached <- 1,
    MaxRuns <- 2, MaxFailures <- 2, MaxCrashes <- 1,
    storage <- w1, kind <- w2, store <- w3, cache <- w4, phase <- w5, thread <- w6,
    tries <- w7, inputs <- w8, image <- w9, stage <- w10, art <- w11, ok <- w12,
    ran <- w13, recorded <- w14, result <- w15, runs <- w16, failures <- w17, crashes <- w18

(* A command whose container makes two more, through the watcher or past it. *)
Docker == INSTANCE DockerWatcher WITH
    Root <- "r", Nested <- {"n1", "n2"}, None <- None, HasRepo <- TRUE, MaxFailures <- 1,
    image <- w1, container <- w2, parent <- w3, socketOf <- w4, mapped <- w5, booted <- w6,
    request <- w7, network <- w8, sockets <- w9, phase <- w10, toRemove <- w11,
    result <- w12, late <- w13, failures <- w14, named <- w15

Subprocess == INSTANCE SubprocessRunner WITH
    MaxLines <- 2,
    process <- w1, pipe <- w2, written <- w3, got <- w4, reader <- w5, line <- w6,
    isShuttingDown <- w7, caller <- w8, ended <- w9

(* Three clients and two downloaders. An answer is empty, fits into the pipe   *)
(* or takes it twice.                                                      *)
Clients == 1..3
Downloaders == 1..2
Downloads == INSTANCE OutOfProcessDownloader WITH
    Clients <- Clients, Downloaders <- Downloaders, None <- 0, Sizes <- {0, 1, 2}, MaxRequests <- 1,
    pool <- w1, client <- w2, has <- w3, asked <- w4, want <- w5, answer <- w6,
    requests <- w7, child <- w8, replies <- w9, long <- w10

(* Three uploads, now or later, and two threads. *)
Threads == 1..2
Items == 1..3
Timer == INSTANCE TimerQueue WITH
    Threads <- Threads, Delays <- {0, 2}, MaxItems <- 3, MaxTime <- 4,
    now <- w1, queue <- w2, unsorted <- w3, nextTime <- w4, thread <- w5, until <- w6,
    item <- w7, enqueued <- w8, began <- w9

---------------------------------------------------------------------------
MCInit ==
    /\ Init
    /\ \/ part = "images" /\ Slots
       \/ part = "locks" /\ Locks!Init /\ From7
       \/ part = "execution" /\ Execution!Init
       \/ part = "docker" /\ Docker!Init /\ From16
       \/ part = "subprocess" /\ Subprocess!Init /\ From10
       \/ part = "downloads" /\ Downloads!Init /\ From11
       \/ part = "timer" /\ Timer!Init /\ From10

MCNext ==
    /\ UNCHANGED part
    /\ \/ part = "images" /\ Next /\ UNCHANGED slots
       \/ /\ UNCHANGED vars
          /\ \/ part = "locks" /\ Locks!Next /\ UNCHANGED from7
             \/ part = "execution" /\ Execution!Next
             \/ part = "docker" /\ Docker!Next /\ UNCHANGED from16
             \/ part = "subprocess" /\ Subprocess!Next /\ UNCHANGED from10
             \/ part = "downloads" /\ Downloads!Next /\ UNCHANGED from11
             \/ part = "timer" /\ Timer!Next /\ UNCHANGED from10

(* Threads run and docker answers; a worker that has lost a message asks      *)
(* again after ten seconds. Nothing is assumed of commands, of users, of      *)
(* faults or of the network.                                                *)
LockSteps(w) ==
    LET fair(A) == part = "locks" /\ A /\ UNCHANGED <<part, vars, from7>>
    IN  /\ WF_all(fair(Locks!Serve(w))) /\ WF_all(fair(Locks!RequestPermission(w)))
        /\ WF_all(fair(Locks!RequestAgain(w) /\ ~Locks!Pending(w)))
        /\ WF_all(fair(Locks!Answered(w))) /\ WF_all(fair(Locks!Release(w)))
        /\ WF_all(fair(Locks!TestEnds(w)))
MCFairness ==
    /\ \A w \in Workers : LockSteps(w)
    /\ WF_all(part = "execution" /\ (Execution!Threads \/ Execution!Main) /\ UNCHANGED <<part, vars>>)
    /\ WF_all(part = "docker" /\ Docker!Worker /\ UNCHANGED <<part, vars, from16>>)
    /\ WF_all(part = "docker" /\ Docker!Handlers /\ UNCHANGED <<part, vars, from16>>)
    /\ WF_all(part = "subprocess" /\ Subprocess!Caller /\ UNCHANGED <<part, vars, from10>>)
    /\ \A s \in {"out", "err"} :
          WF_all(part = "subprocess" /\ Subprocess!Reader(s) /\ UNCHANGED <<part, vars, from10>>)
    /\ \A c \in Clients :
          WF_all(part = "downloads" /\ Downloads!Client(c) /\ UNCHANGED <<part, vars, from11>>)
    /\ \A d \in Downloaders :
          WF_all(part = "downloads" /\ Downloads!Child(d) /\ UNCHANGED <<part, vars, from11>>)
    /\ WF_all(part = "timer" /\ Timer!Tick /\ UNCHANGED <<part, vars, from10>>)
    /\ \A t \in Threads :
          WF_all(part = "timer" /\ Timer!Step(t) /\ UNCHANGED <<part, vars, from10>>)

MCSpec == MCInit /\ [][MCNext]_all /\ MCFairness

---------------------------------------------------------------------------
(* A worker that pulls holds a lock, and so the git server never sees more     *)
(* pulls than allowed (GitRepoLocks!PullsHaveLocks); and every test gets to    *)
(* it although answers get lost and a lock that was granted to a request       *)
(* nobody waits for stays until its test is over.                            *)
PullsAllowed == part = "locks" => Locks!PullsHaveLocks
NobodyStarves == \A w \in Workers :
    (part = "locks" /\ Locks!Asking(w)) ~> (part = "locks" /\ Locks!Served(w))
GitIsShared == []PullsAllowed /\ NobodyStarves

(* What is reported of a run is what happened in it, whatever failed in        *)
(* between and even after a crash (TestExecution!SuccessIsReal,               *)
(* ArtifactsThere, PullingTolerates); and every run comes to an end.          *)
RunsAreSound == part = "execution" => /\ Execution!SuccessIsReal /\ Execution!ArtifactsThere
                                      /\ Execution!PullingTolerates
RunsReportTruly ==
    [][RunsAreSound']_all /\ [](part = "execution" => <>(part = "execution" /\ w5 = "idle"))

(* What containers a command made, through sockets that serve it while it is   *)
(* being shut down, are removed (DockerWatcher!RunningAreNoted,               *)
(* NothingRunsOn); and every command ends, with a result.                    *)
ContainersNoted == part = "docker" => Docker!RunningAreNoted /\ Docker!NothingRunsOn
ContainersRemoved ==
    [][ContainersNoted']_all /\ [](part = "docker" => <>(part = "docker" /\ Docker!CommandEnded))

(* Callbacks get the output of a process without a gap and stop ends, with no   *)
(* thread blocked (SubprocessRunner!CallbacksGetPrefix, Stopped); and those    *)
(* who share the downloaders get an answer, all of them, and the whole one to  *)
(* their own request unless one before did not fit into the pipe              *)
(* (OutOfProcessDownloader!AnswersMatch, HasAnswers).                         *)
OutputsMatch ==
    /\ part = "subprocess" => Subprocess!CallbacksGetPrefix
    /\ part = "downloads" => Downloads!AnswersMatch
ChildrenServe ==
    /\ [][OutputsMatch']_all
    /\ [](part = "subprocess" => <>(part = "subprocess" /\ Subprocess!Stopped))
    /\ \A c \in Clients :
          (part = "downloads") ~> (part = "downloads" /\ Downloads!HasAnswers(c))

(* No upload runs before its time or twice (TimerQueue!NoneEarly), and all of   *)
(* them run: no thread misses its wake-up, so a batch is always answered.     *)
NoneEarly == part = "timer" => Timer!NoneEarly
UploadsRun ==
    /\ []NoneEarly
    /\ \A n \in Items : (part = "timer" /\ Timer!WasEnqueued(n)) ~> (part = "timer" /\ Timer!WasRun(n))
=============================================================================
