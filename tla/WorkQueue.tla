------------------------------ MODULE WorkQueue ------------------------------
(***************************************************************************)
(* What the background work of the server promises its callers, with no    *)
(* mention of how the tasks are stored.  Anyone may request a job; one     *)
(* worker takes the requests one at a time, a most urgent one first, and   *)
(* every request it has taken is completed before it takes the next.       *)
(* Nothing else ever removes a request.                                    *)
(*                                                                         *)
(* TaskQueue is the implementation (DataTask objects of the database).     *)
(***************************************************************************)
EXTENDS Integers

CONSTANTS
    TaskIds,    \* names of requests
    Deduped,    \* jobs of which at most one request exists at a time
    LevelsOf    \* LevelsOf[j]: the urgencies job j may be requested with

VARIABLES
    pending,    \* requests not yet taken: [id, job, level], 1 the most urgent
    active      \* the request being worked on: {} or one [id, job]

workVars == <<pending, active>>

Entries == UNION {[id : TaskIds, job : {j}, level : LevelsOf[j]] :
                    j \in DOMAIN LevelsOf}

Init ==
    /\ pending = {}
    /\ active = {}

(* A new request.  A deduplicated job is not requested again while a       *)
(* request for it is pending or active.                                    *)
Request(e) ==
    /\ \A f \in pending \cup active :
          /\ f.id # e.id
          /\ e.job \in Deduped => f.job # e.job
    /\ pending' = pending \cup {e}
    /\ UNCHANGED active

Take(e) ==
    /\ active = {}
    /\ e \in pending
    /\ \A f \in pending : e.level <= f.level
    /\ pending' = pending \ {e}
    /\ active' = {[id |-> e.id, job |-> e.job]}

Complete ==
    /\ active # {}
    /\ active' = {}
    /\ UNCHANGED pending

Next ==
    \/ \E e \in Entries : Request(e)
    \/ \E e \in Entries : Take(e)
    \/ Complete

Spec == Init /\ [][Next]_workVars
==============================================================================
