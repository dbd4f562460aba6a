---------------------------- MODULE GitRepoLocks ----------------------------
(***************************************************************************)
(* Permission to use the git server. A worker asks, asks again when it hears *)
(* nothing for ten seconds, pulls, and reports that it is done; the          *)
(* TestManager keeps an AllocatedGitRepoLocks object for each permission it  *)
(* gave. Messages are lost when a connection breaks. Every worker has one    *)
(* test (or deployment) in its hands, each of a different hash.              *)
(***************************************************************************)
EXTENDS Integers, Sequences, SequencesExt, FiniteSets

CONSTANTS
    Workers,
    Ids,                 \* unique identities of requests; unused ones come back
    MaxGitConnections,
    Pulls,               \* how often a test needs the git server
    MaxFaults            \* bound on lost messages and needless repetitions

VARIABLES
    worker,     \* the thread in scopedReadLockAroundGitRepo, and its test
    over,       \* workers whose test the server holds to be ended or canceled
    lock,       \* AllocatedGitRepoLocks: request and worker
    request,    \* messages to the server
    answer,     \* messages to the worker
    faults

vars == <<worker, over, lock, request, answer, faults>>

Init ==
    /\ worker = [w \in Workers |-> [pc |-> "idle", req |-> 0, left |-> Pulls]]
    /\ over = {} /\ lock = {}
    /\ request = [w \in Workers |-> <<>>] /\ answer = [w \in Workers |-> <<>>]
    /\ faults = 0

Fault == faults < MaxFaults /\ faults' = faults + 1

(* uuid4: nobody knows this identity. *)
InUse(w, id) ==
    \/ worker[w].req = id
    \/ \E l \in lock : l.worker = w /\ l.req = id
    \/ \E m \in Range(request[w]) \cup Range(answer[w]) : m.id = id
Unused(w) == {id \in Ids : ~InUse(w, id)}

Ask(w, id) == request' = [request EXCEPT ![w] = Append(@, [type |-> "Request", id |-> id])]

---------------------------------------------------------------------------
(* The worker *)

(* requestPermissionToHitGitRepo, at first or five seconds after a denial. *)
RequestPermission(w) ==
    /\ worker[w].pc \in {"idle", "denied"} /\ worker[w].left > 0
    /\ \E id \in Unused(w) :
          /\ \A other \in Unused(w) : id <= other
          /\ worker' = [worker EXCEPT ![w].pc = "asking", ![w].req = id]
          /\ Ask(w, id)
    /\ UNCHANGED <<over, lock, answer, faults>>

Pending(w) ==
    \E m \in Range(request[w]) \cup Range(answer[w]) : m.id = worker[w].req

(* A mistake: it goes on waiting. *)
WaitOn(w) == worker[w].pc = "asking" /\ UNCHANGED vars

(* Ten seconds without an answer. This is needed if a message was lost; if   *)
(* the server is only slow the request is made a second time.               *)
RequestAgain(w) ==
    /\ worker[w].pc = "asking"
    /\ IF Pending(w) THEN Fault ELSE UNCHANGED faults
    /\ Ask(w, worker[w].req)
    /\ UNCHANGED <<worker, over, lock, answer>>

(* The answer to some request; only the current one is waited for. *)
Answered(w) ==
    /\ answer[w] # <<>>
    /\ answer' = [answer EXCEPT ![w] = Tail(@)]
    /\ LET m == Head(answer[w]) IN
       worker' = IF worker[w].pc = "asking" /\ m.id = worker[w].req
                 THEN [worker EXCEPT ![w].pc = IF m.allowed THEN "pulling" ELSE "denied",
                                     ![w].req = IF m.allowed THEN @ ELSE 0]
                 ELSE worker
    /\ UNCHANGED <<over, lock, request, faults>>

(* The pull ends, releaseGitRepoLock. *)
Release(w) ==
    /\ worker[w].pc = "pulling"
    /\ worker' = [worker EXCEPT ![w].pc = "idle", ![w].left = @ - 1, ![w].req = 0]
    /\ request' = [request EXCEPT ![w] =
                      Append(@, [type |-> "Completed", id |-> worker[w].req])]
    /\ UNCHANGED <<over, lock, answer, faults>>

(* The test ends, or the worker hears that it was canceled; the worker takes *)
(* up another one.                                                          *)
TestEnds(w) ==
    /\ worker[w].pc = "idle" /\ worker[w].left = 0
    /\ worker' = [worker EXCEPT ![w].pc = "finished"]
    /\ over' = over \cup {w}
    /\ UNCHANGED <<lock, request, answer, faults>>

CanceledWhileAsking(w) ==
    /\ worker[w].pc = "asking" /\ w \in over
    /\ worker' = [worker EXCEPT ![w].pc = "finished"]
    /\ UNCHANGED <<over, lock, request, answer, faults>>

(* A user or a timeout cancels the test. *)
Cancel(w) ==
    /\ w \notin over /\ Fault
    /\ over' = over \cup {w}
    /\ UNCHANGED <<worker, lock, request, answer>>

---------------------------------------------------------------------------
(* The server *)

(* _cleanupGitRepoLocks *)
CleanedUp == {l \in lock : l.worker \notin over}

(* tryToAllocateGitRepoLock; the locks of a test are those of its hash. *)
Has(locks, w, id) == [req |-> id, worker |-> w] \in locks
Full(locks, w) ==
    \/ Cardinality(locks) > MaxGitConnections
    \/ Cardinality({l \in locks : l.worker = w}) > 1

TryToAllocate(w) ==
    /\ request[w] # <<>> /\ Head(request[w]).type = "Request"
    /\ LET id == Head(request[w]).id
           allowed == Has(CleanedUp, w, id) \/ ~Full(CleanedUp, w)
       IN  /\ lock' = IF allowed THEN CleanedUp \cup {[req |-> id, worker |-> w]}
                      ELSE CleanedUp
           /\ answer' = [answer EXCEPT ![w] = Append(@, [id |-> id, allowed |-> allowed])]
    /\ request' = [request EXCEPT ![w] = Tail(@)]
    /\ UNCHANGED <<worker, over, faults>>

GitRepoLockReleased(w) ==
    /\ request[w] # <<>> /\ Head(request[w]).type = "Completed"
    /\ lock' = {l \in lock : ~(l.worker = w /\ l.req = Head(request[w]).id)}
    /\ request' = [request EXCEPT ![w] = Tail(@)]
    /\ UNCHANGED <<worker, over, answer, faults>>

(* The connection breaks and what was under way is lost. *)
Break(w) ==
    /\ Fault
    /\ request[w] # <<>> \/ answer[w] # <<>>
    /\ \E i \in 0..Len(request[w]) :
          request' = [request EXCEPT ![w] = SubSeq(@, 1, i)]
    /\ answer' = [answer EXCEPT ![w] = <<>>]
    /\ UNCHANGED <<worker, over, lock>>

Serve(w) == TryToAllocate(w) \/ GitRepoLockReleased(w)
Work(w) == \/ RequestPermission(w) \/ RequestAgain(w) \/ Answered(w) \/ Release(w)
           \/ TestEnds(w) \/ CanceledWhileAsking(w)

Next == \E w \in Workers : Serve(w) \/ Work(w) \/ Cancel(w) \/ Break(w)

Spec == Init /\ [][Next]_vars

---------------------------------------------------------------------------
(* A worker that pulls has a lock, unless its test was canceled meanwhile,   *)
(* and so the git server never sees more than one pull above the limit       *)
(* (which is compared with >), whatever was repeated or lost.               *)
PullsHaveLocks ==
    /\ \A w \in Workers \ over :
          worker[w].pc = "pulling" => Has(lock, w, worker[w].req)
    /\ Cardinality({w \in Workers \ over : worker[w].pc = "pulling"})
          <= MaxGitConnections + 1

(* A test that asks for the git server, and one that has got it or needs it   *)
(* no more.                                                                 *)
Asking(w) == worker[w].pc = "asking"
Served(w) == worker[w].pc \in {"pulling", "finished"} \/ w \in over
=============================================================================
