------------------------------ MODULE Streams ------------------------------
(***************************************************************************)
(* What a worker writes, on its way to the people who watch: the worker's    *)
(* _curOutputs, the connection and the session that reads it, the buffer of  *)
(* the server (MessageBuffer of a deployment, HeartbeatHandler.logs of a     *)
(* test) and its subscribers, who are told what is there already without     *)
(* the lock being held.                                                     *)
(*                                                                         *)
(* Output is a sequence of pieces 1, 2, ..., all equally long. What is not   *)
(* output has a number below 1: lines that the server adds to the stream of  *)
(* a deployment, the carriage returns that the client adds to what it sends  *)
(* but not to what it keeps, and the None of a heartbeat.                    *)
(***************************************************************************)
EXTENDS Integers, Sequences, SequencesExt

CONSTANTS
    Watchers,
    MaxLogged, MaxTyped,             \* bounds on the pieces of a test, of a deployment
    MaxNotes, MaxBreaks, MaxBeats,   \* other bounds
    MaxMessages,   \* MAX_LOG_MESSAGES_PER_TEST
    Oldest         \* how many messages a log that is too long loses

VARIABLES
    kind,       \* the log of a test or the terminal of a deployment
    outputs,    \* how many pieces _curOutputs holds
    wire,       \* on the connection in use
    old,        \* on the previous one, whose session may still read
    buffer,     \* _messages
    watcher,    \* subscriptions: where subscribe is, and what was received
    count,      \* breaks, notes and heartbeats so far
    damaged     \* pieces have come twice, or the server's count was off

vars == <<kind, outputs, wire, old, buffer, watcher, count, damaged>>

Note == 0
Return == -1
Silence == -2

NotYet == [pc |-> "no", copy |-> <<>>, got |-> <<>>]

Init ==
    /\ kind \in {"test", "deployment"}
    /\ outputs = 0 /\ wire = <<>> /\ old = <<>> /\ buffer = <<>>
    /\ watcher = [w \in Watchers |-> NotYet]
    /\ count = [breaks |-> 0, notes |-> 0, beats |-> 0]
    /\ damaged = FALSE

AllOutputs == [i \in 1..outputs |-> i]

(* heartbeat(msg) and terminalOutput. In a deployment heartbeat changes the  *)
(* line ends of what it sends.                                              *)
Output ==
    /\ outputs < IF kind = "test" THEN MaxLogged ELSE MaxTyped
    /\ outputs' = outputs + 1
    /\ \E changed \in {FALSE, kind = "deployment"} :
          wire' = Append(wire, [type |-> "piece",
                                data |-> IF changed THEN <<Return, outputs + 1>>
                                                    ELSE <<outputs + 1>>])
    /\ UNCHANGED <<old, buffer, watcher, count, damaged>>

(* addMessage, under the lock: tell everybody, forget those who fail. *)
Told(data, failing) ==
    [w \in Watchers |->
        IF watcher[w].pc # "on" THEN watcher[w]
        ELSE IF w \in failing THEN NotYet
        ELSE [watcher[w] EXCEPT !.got = @ \o data]]

(* testHeartbeat drops the oldest messages of a log that is too long. *)
Trimmed(log) ==
    IF kind = "test" /\ Len(log) > MaxMessages
    THEN SubSeq(log, Oldest + 1, Len(log)) ELSE log

AddMessage(data) ==
    /\ buffer' = Trimmed(buffer \o data)
    /\ \E failing \in SUBSET {w \in Watchers : watcher[w].pc = "on"} :
          watcher' = Told(data, failing)

TrimmedBy(data) == Trimmed(buffer \o data) # buffer \o data

(* setTotalMessages and testHeartbeatReinitialized: everything from the      *)
(* start, of which as much as is there already is left out. What is counted  *)
(* is everything in the buffer; of a None there is no length.               *)
Missing(all) == SubSeq(all, Len(buffer) + 1, Len(all))
Uncountable == kind = "deployment" /\ Silence \in Range(buffer)
OnlyOutput == \A i \in 1..Len(buffer) : buffer[i] > 0

(* The session reads a message. *)
Deliver ==
    /\ wire # <<>> /\ wire' = Tail(wire)
    /\ LET m == Head(wire)
           data == IF m.type = "all" THEN Missing(m.data) ELSE m.data
       IN  /\ m.type = "all" => ~Uncountable
           /\ AddMessage(data)
           /\ damaged' = (damaged \/ TrimmedBy(data) \/ (m.type = "all" /\ ~OnlyOutput))
    /\ UNCHANGED <<outputs, old, count>>

(* It cannot count what it has: the exception ends the session, and the      *)
(* worker connects again, with all it has written by then.                  *)
CatchUpFails ==
    /\ wire # <<>> /\ Head(wire).type = "all" /\ Uncountable
    /\ wire' = <<[type |-> "all", data |-> AllOutputs]>>
    /\ UNCHANGED <<outputs, old, buffer, watcher, count, damaged>>

(* So does a session whose connection is gone, with what had arrived. *)
Received(i) == {buffer[j] : j \in {k \in 1..i : buffer[k] > 0}}
DeliverLate ==
    /\ old # <<>> /\ old' = Tail(old)
    /\ LET data == Head(old).data IN
       /\ AddMessage(data)
       /\ damaged' = (damaged \/ TrimmedBy(data)
                              \/ Received(Len(buffer)) # 1..(data[Len(data)] - 1))
    /\ UNCHANGED <<outputs, wire, count>>

(* The connection breaks; pieces that were not read are lost, or left to the *)
(* old session. Over the new one the worker sends all it has written.        *)
Break ==
    /\ count.breaks < MaxBreaks /\ count' = [count EXCEPT !.breaks = @ + 1]
    /\ \A m \in Range(wire) : m.type = "piece"
    /\ old = <<>>
    /\ \E i \in 0..Len(wire) : old' = SubSeq(wire, 1, i)
    /\ wire' = <<[type |-> "all", data |-> AllOutputs]>>
    /\ UNCHANGED <<outputs, buffer, watcher, damaged>>

(* The old session ends without having read the rest. *)
OldSessionEnds ==
    /\ old # <<>> /\ old' = <<>>
    /\ UNCHANGED <<outputs, wire, buffer, watcher, count, damaged>>

(* The server adds a line to a deployment: createDeployment,                 *)
(* startNewDeployment, _cancelDeployment.                                   *)
AddNote ==
    /\ kind = "deployment" /\ count.notes < MaxNotes
    /\ count' = [count EXCEPT !.notes = @ + 1]
    /\ AddMessage(<<Note>>)
    /\ UNCHANGED <<outputs, wire, old, damaged>>

(* A session reads the heartbeat of a deployment, which has no output: None  *)
(* goes where output goes. Heartbeats come all the time, between any two     *)
(* pieces.                                                                  *)
DeliverHeartbeat ==
    /\ kind = "deployment" /\ count.beats < MaxBeats
    /\ (wire # <<>> => wire[1].type = "piece") \/ old # <<>>
    /\ count' = [count EXCEPT !.beats = @ + 1]
    /\ AddMessage(<<Silence>>)
    /\ UNCHANGED <<outputs, wire, old, damaged>>

(* The server starts again, with no buffers; the worker connects to it.      *)
Restart ==
    /\ count.breaks < MaxBreaks
    /\ count' = [count EXCEPT !.breaks = @ + 1, !.beats = 0]
    /\ wire' = <<[type |-> "all", data |-> AllOutputs]>>
    /\ old' = <<>> /\ buffer' = <<>> /\ damaged' = FALSE
    /\ watcher' = [w \in Watchers |-> NotYet]
    /\ UNCHANGED outputs

---------------------------------------------------------------------------
(* subscribe copies the messages under the lock ... *)
Subscribe(w) ==
    /\ kind = "deployment" /\ watcher[w].pc = "no"
    /\ watcher' = [watcher EXCEPT ![w] = [pc |-> "sending", copy |-> buffer, got |-> <<>>]]
    /\ UNCHANGED <<outputs, wire, old, buffer, count, damaged>>

(* ... sends them without it ... *)
SendCopy(w) ==
    /\ watcher[w].pc = "sending" /\ watcher[w].got # watcher[w].copy
    /\ watcher' = [watcher EXCEPT ![w].got = SubSeq(watcher[w].copy, 1, Len(@) + 1)]
    /\ UNCHANGED <<outputs, wire, old, buffer, count, damaged>>

(* ... and takes it again for what has come since. Mutant: it does not look  *)
(* again.                                                                   *)
CatchUpBlindly(w) ==
    /\ watcher[w].pc = "sending" /\ watcher[w].got = watcher[w].copy
    /\ watcher' = [watcher EXCEPT ![w] = [pc |-> "on", copy |-> <<>>, got |-> @.got]]
    /\ UNCHANGED <<outputs, wire, old, buffer, count, damaged>>
CatchUp(w) ==
    /\ watcher[w].pc = "sending" /\ watcher[w].got = watcher[w].copy
    /\ LET rest == SubSeq(buffer, Len(watcher[w].copy) + 1, Len(buffer)) IN
       watcher' = [watcher EXCEPT ![w] = [pc |-> "on", copy |-> <<>>, got |-> @.got \o rest]]
    /\ UNCHANGED <<outputs, wire, old, buffer, count, damaged>>

(* addListener, for the log of a test, in one go; it does nothing for a test *)
(* that was never heard of.                                                 *)
AddListener(w) ==
    /\ kind = "test" /\ watcher[w].pc = "no" /\ buffer # <<>>
    /\ watcher' = [watcher EXCEPT ![w] = [pc |-> "on", copy |-> <<>>, got |-> buffer]]
    /\ UNCHANGED <<outputs, wire, old, buffer, count, damaged>>

(* The watcher goes away: unsubscribe, or onMessage raises in subscribe. *)
Unsubscribe(w) ==
    /\ watcher[w].pc # "no"
    /\ watcher' = [watcher EXCEPT ![w] = NotYet]
    /\ UNCHANGED <<outputs, wire, old, buffer, count, damaged>>

Next ==
    /\ UNCHANGED kind
    /\ \/ Output \/ Deliver \/ DeliverLate \/ Break \/ OldSessionEnds \/ AddNote
       \/ CatchUpFails \/ DeliverHeartbeat \/ Restart
       \/ \E w \in Watchers : \/ Subscribe(w) \/ SendCopy(w) \/ CatchUp(w)
                              \/ AddListener(w) \/ Unsubscribe(w)

Spec == Init /\ [][Next]_vars

---------------------------------------------------------------------------
(* Everyone who watches has received everything that is in the buffer, in    *)
(* its order and once, although messages came while they were subscribed;    *)
(* who is not yet done has received a beginning of it.                      *)
WatchersSeeAll == \A w \in Watchers :
    /\ watcher[w].pc = "on" => IsSuffix(buffer, watcher[w].got)
    /\ kind = "deployment" => IsPrefix(watcher[w].got, buffer)

(* Through broken connections and restarts of the server the output in the   *)
(* log is what the worker wrote, in order, without gaps or repetitions,      *)
(* whatever else is between it. This holds as long as nothing was trimmed,   *)
(* no old session reads a piece that the new one has been told already, and  *)
(* a new session did not have to catch up with a log that holds other things *)
(* too: it then leaves out as much output as there is of those.              *)
LogIsOutput ==
    damaged \/ \A i \in 1..Len(buffer) :
        buffer[i] > 0 => buffer[i] <= outputs /\ Received(i - 1) = 1..(buffer[i] - 1)

(* Both: from the worker's output to everybody who watches. *)
OutputArrives == WatchersSeeAll /\ LogIsOutput
=============================================================================
