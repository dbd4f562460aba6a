----------------------------- MODULE TimerQueue -----------------------------
(***************************************************************************)
(* The TimerQueue on which artifacts are uploaded: work items with a time     *)
(* after which they are to run, threads that wait for the next one, and      *)
(* uploadIndividualTestArtifacts, which enqueues a batch and waits for as     *)
(* many answers.                                                            *)
(***************************************************************************)
EXTENDS Integers, Sequences, SequencesExt, FiniteSets

CONSTANTS
    Threads,
    Delays,            \* executeAfterDelay
    MaxItems, MaxTime  \* bounds

Never == MaxTime + 10

VARIABLES
    now,
    queue,             \* queue_: items, records of their number and their time
    unsorted,          \* unsorted_
    nextTime,          \* nextTime_; Never for None
    thread,            \* what a thread does: "look", "wait" or "run"
    until,             \* when its wait ends; Never without a time
    item,              \* what it runs
    enqueued,          \* the items, in the order they came
    began              \* the items, in the order they began, and when

vars == <<now, queue, unsorted, nextTime, thread, until, item, enqueued, began>>

Init ==
    /\ now = 1 /\ queue = <<>> /\ unsorted = FALSE /\ nextTime = Never
    /\ thread = [t \in Threads |-> "look"] /\ until = [t \in Threads |-> Never]
    /\ item = [t \in Threads |-> 0] /\ enqueued = <<>> /\ began = <<>>

Wakened == [t \in Threads |-> IF thread[t] = "wait" THEN "look" ELSE thread[t]]

(* A mistake: a waiting thread is not told. *)
NotifiedNever(at) == thread

(* notifyAll, if the new item is the next one. *)
Notified(at) == IF nextTime = Never \/ at < nextTime THEN Wakened ELSE thread

(* enqueueWorkItem. Whether the queue is unsorted now is judged by its second  *)
(* item.                                                                    *)
Enqueue(delay) ==
    /\ Len(enqueued) < MaxItems /\ now + delay <= MaxTime
    /\ LET at == now + delay
           x == [id |-> Len(enqueued) + 1, at |-> at]
       IN  /\ queue' = Append(queue, x) /\ enqueued' = Append(enqueued, x)
           /\ unsorted' = (unsorted \/ (nextTime # Never /\ queue'[2].at > at))
           /\ nextTime' = IF nextTime = Never \/ at < nextTime THEN at ELSE nextTime
           /\ thread' = Notified(at)
    /\ UNCHANGED <<now, until, item, began>>

Sorted == IF unsorted THEN SortSeq(queue, LAMBDA x, y : x.at < y.at) ELSE queue

Ready(x) == x.at <= now

(* executeNextWorkItem, one round with the lock. *)
Look(t) ==
    /\ thread[t] = "look"
    /\ unsorted' = FALSE
    /\ LET q == Sorted
       IN  IF q # <<>> /\ Ready(Head(q))
           THEN /\ queue' = Tail(q)
                /\ nextTime' = IF Tail(q) = <<>> THEN Never ELSE Tail(q)[1].at
                /\ thread' = [thread EXCEPT ![t] = "run"]
                /\ item' = [item EXCEPT ![t] = Head(q).id]
                /\ began' = Append(began, [id |-> Head(q).id, at |-> now])
                /\ UNCHANGED until
           ELSE /\ queue' = q
                /\ thread' = [thread EXCEPT ![t] = "wait"]
                /\ until' = [until EXCEPT ![t] = IF q = <<>> THEN Never ELSE nextTime]
                /\ UNCHANGED <<nextTime, item, began>>
    /\ UNCHANGED <<now, enqueued>>

(* The item ends, or raises, which is logged. *)
Finish(t) ==
    /\ thread[t] = "run" /\ thread' = [thread EXCEPT ![t] = "look"]
    /\ item' = [item EXCEPT ![t] = 0]
    /\ UNCHANGED <<now, queue, unsorted, nextTime, until, enqueued, began>>

WaitOver(t) ==
    /\ thread[t] = "wait" /\ until[t] <= now
    /\ thread' = [thread EXCEPT ![t] = "look"]
    /\ UNCHANGED <<now, queue, unsorted, nextTime, until, item, enqueued, began>>

Tick ==
    /\ now < MaxTime /\ now' = now + 1
    /\ UNCHANGED <<queue, unsorted, nextTime, thread, until, item, enqueued, began>>

Step(t) == Look(t) \/ Finish(t) \/ WaitOver(t)
Next == \/ Tick \/ \E d \in Delays : Enqueue(d)
        \/ \E t \in Threads : Step(t)

Spec == Init /\ [][Next]_vars

---------------------------------------------------------------------------
(* No item runs before its time or twice, whatever the order of the queue.   *)
NoneEarly == \A i, j \in DOMAIN began :
    /\ began[i].at >= enqueued[began[i].id].at
    /\ i # j => began[i].id # began[j].id

(* The item with a number is in the queue, or was; and it was run. *)
WasEnqueued(n) == Len(enqueued) >= n
WasRun(n) == \E i \in DOMAIN began : began[i].id = n
=============================================================================
