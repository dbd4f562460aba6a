-------------------------- MODULE SubprocessRunner --------------------------
(***************************************************************************)
(* A SubprocessRunner: a process, a thread for each of its two output         *)
(* streams that calls back with every line, and the caller that starts it,   *)
(* waits for it with a timeout and stops it. The threads are blocked in the   *)
(* read of a line; stop wakes them with lines of its own.                    *)
(***************************************************************************)
EXTENDS Integers, Sequences

CONSTANTS MaxLines     \* bound on the lines that the process writes to a stream

Streams == {"out", "err"}

VARIABLES
    process,           \* "none", "running", "exited"
    pipe,              \* lines that are written and not yet read; 0 is stop's
    written,           \* number of lines that the process wrote
    got,               \* lines that the callbacks were given
    reader, line,      \* the threads, and what they have read
    isShuttingDown,
    caller,            \* where the caller is
    ended              \* how wait ended: the process did, or the time was up

vars == <<process, pipe, written, got, reader, line, isShuttingDown, caller, ended>>

Init ==
    /\ process = "none" /\ pipe = [s \in Streams |-> <<>>]
    /\ written = [s \in Streams |-> 0] /\ got = [s \in Streams |-> <<>>]
    /\ reader = [s \in Streams |-> "none"] /\ line = [s \in Streams |-> 0]
    /\ isShuttingDown = FALSE /\ caller = "start" /\ ended = FALSE

(* start: the threads first, then the process. *)
Start ==
    /\ caller = "start" /\ caller' = "wait"
    /\ reader' = [s \in Streams |-> "loop"] /\ process' = "running"
    /\ UNCHANGED <<pipe, written, got, line, isShuttingDown, ended>>

Write(s) ==
    /\ process = "running" /\ written[s] < MaxLines
    /\ written' = [written EXCEPT ![s] = @ + 1]
    /\ pipe' = [pipe EXCEPT ![s] = Append(@, written'[s])]
    /\ UNCHANGED <<process, got, reader, line, isShuttingDown, caller, ended>>

Exit ==
    /\ process = "running" /\ process' = "exited"
    /\ UNCHANGED <<pipe, written, got, reader, line, isShuttingDown, caller, ended>>

---------------------------------------------------------------------------
(* processOutputLoop *)
Loop(s) ==
    /\ reader[s] = "loop"
    /\ reader' = [reader EXCEPT ![s] = IF isShuttingDown THEN "closed" ELSE "read"]
    /\ UNCHANGED <<process, pipe, written, got, line, isShuttingDown, caller, ended>>

ReadLine(s) ==
    /\ reader[s] = "read" /\ pipe[s] # <<>>
    /\ line' = [line EXCEPT ![s] = Head(pipe[s])]
    /\ pipe' = [pipe EXCEPT ![s] = Tail(@)]
    /\ reader' = [reader EXCEPT ![s] = "call"]
    /\ UNCHANGED <<process, written, got, isShuttingDown, caller, ended>>

CallBack(s) ==
    /\ reader[s] = "call"
    /\ got' = IF isShuttingDown THEN got ELSE [got EXCEPT ![s] = Append(@, line[s])]
    /\ reader' = [reader EXCEPT ![s] = "loop"]
    /\ UNCHANGED <<process, pipe, written, line, isShuttingDown, caller, ended>>

---------------------------------------------------------------------------
(* wait, until the process or the time ends, then stop: terminate the         *)
(* process, wake up each thread and join it. To write to a thread that has    *)
(* closed its end raises; the flag is reset in any case.                     *)
Wait ==
    /\ caller = "wait" /\ caller' = "terminate"
    /\ ended' = (process = "exited")
    /\ UNCHANGED <<process, pipe, written, got, reader, line, isShuttingDown>>

Terminate ==
    /\ caller = "terminate" /\ caller' = "wake out"
    /\ process' = "exited" /\ isShuttingDown' = TRUE
    /\ UNCHANGED <<pipe, written, got, reader, line, ended>>

Raise == caller' = "raised" /\ isShuttingDown' = FALSE

Wake(s, at, next) ==
    /\ caller = at
    /\ IF reader[s] = "closed" THEN Raise /\ UNCHANGED pipe
       ELSE /\ pipe' = [pipe EXCEPT ![s] = Append(@, 0)]
            /\ caller' = next /\ UNCHANGED isShuttingDown
    /\ UNCHANGED <<process, written, got, reader, line, ended>>

JoinOut ==
    /\ caller = "join out" /\ reader["out"] = "closed" /\ caller' = "wake err"
    /\ UNCHANGED <<process, pipe, written, got, reader, line, isShuttingDown, ended>>

JoinErr ==
    /\ caller = "join err" /\ reader["err"] = "closed" /\ caller' = "stopped"
    /\ isShuttingDown' = FALSE
    /\ UNCHANGED <<process, pipe, written, got, reader, line, ended>>

Caller == \/ Start \/ Wait \/ Terminate \/ JoinOut \/ JoinErr
          \/ Wake("out", "wake out", "join out") \/ Wake("err", "wake err", "join err")
Reader(s) == Loop(s) \/ ReadLine(s) \/ CallBack(s)
Next == Caller \/ Exit \/ \E s \in Streams : Write(s) \/ Reader(s)

Spec == Init /\ [][Next]_vars

---------------------------------------------------------------------------
(* The callbacks get the lines of the process and nothing else, in order and  *)
(* without a gap: only an end of the output may be missing. stop's own lines  *)
(* are not given to them while the flag is set.                             *)
CallbacksGetPrefix == caller # "raised" =>
    \A s \in Streams : got[s] = [i \in 1..Len(got[s]) |-> i]

(* stop has come to an end. *)
Stopped == caller \in {"stopped", "raised"}
=============================================================================
