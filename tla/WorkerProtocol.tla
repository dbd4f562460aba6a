--------------------------- MODULE WorkerProtocol ---------------------------
(***************************************************************************)
(* The conversation between one worker machine and the server: the         *)
(* TestLooperClient with its two queues and its read and write threads, the *)
(* connections that it opens one after another, the Session that the server *)
(* runs in a thread of its own for each of them, and the part of the        *)
(* TestManager that sessions call.                                         *)
(*                                                                         *)
(* A connection that breaks loses a suffix of what was under way in each    *)
(* direction; its session goes on with what had already arrived, so that    *)
(* two sessions of one machine may be working at the same time. Messages    *)
(* that wait in the client's queue when a connection breaks are sent over   *)
(* the next one.                                                           *)
(*                                                                         *)
(* Abstracted: log text (Streams), permissions to use git (GitRepoLocks),   *)
(* the life of the machine (MachineBooting), what a test does while it runs *)
(* (TestExecution), and which test is chosen (TestScheduling).               *)
(***************************************************************************)
EXTENDS Integers, Sequences, SequencesExt, FiniteSets, FiniteSetsExt

CONSTANTS
    Runs,             \* identities of TestRun objects, taken in order
    Deploys,          \* identities of Deployment objects
    Conns,            \* connections; one that is dead may be used again
    Nobody,           \* no run, deployment or connection
    NArtifacts,       \* how many artifacts the test definition lists
    UploadsMayFail,   \* whether the upload of an artifact may fail
    MaxBreaks,        \* bound on broken connections
    QueueBound        \* bound on the length of every queue

ASSUME WorkerAssumption ==
    /\ Nobody \notin Runs \cup Deploys \cup Conns
    /\ Runs \subseteq Nat /\ Conns \subseteq Nat
    /\ Runs \cap Deploys = {}
    /\ NArtifacts \in Nat /\ MaxBreaks \in Nat /\ QueueBound \in Nat \ {0}
    /\ UploadsMayFail \in BOOLEAN

VARIABLES
    client,     \* fields of TestLooperClient and where the worker's main loop is
    sock,       \* _socket: the connection in use, or Nobody
    inbox,      \* _serverToClientMessageQueue
    outbox,     \* _clientToServerMessageQueue
    link,       \* what became of each connection
    toServer,   \* messages under way to the server, per connection
    toClient,   \* messages under way to the client, per connection
    sess,       \* Session objects: open, machineId known, current test, deployment
    run,        \* TestRun objects: state, artifacts, times counted
    deployment, \* state of Deployment objects
    activeRuns, \* Test.activeRuns
    silent,     \* deployments whose buffer of messages (Streams) holds a None
    breaks      \* connections broken so far

vars == <<client, sock, inbox, outbox, link, toServer, toClient, sess, run,
          deployment, activeRuns, silent, breaks>>
clientVars == <<client, sock, inbox, outbox>>
serverVars == <<sess, run, deployment, activeRuns, silent>>

(* The artifacts of the definition, in the order of its stages. *)
Expected == [i \in 1..NArtifacts |-> i]

(* New identities are taken in order, since they do not matter. *)
IsFirst(x, unused) == x \in unused /\ \A y \in unused : x <= y

IdleClient == [pc |-> "checkout", begun |-> FALSE, test |-> Nobody,
               deploy |-> Nobody, result |-> "none", artifacts |-> <<>>,
               tried |-> 0, doing |-> "nothing"]

NoSession == [open |-> FALSE, known |-> FALSE, test |-> Nobody, deploy |-> Nobody]

Init ==
    /\ client = IdleClient
    /\ sock = Nobody
    /\ inbox = <<>> /\ outbox = <<>>
    /\ link = [c \in Conns |-> "free"]
    /\ toServer = [c \in Conns |-> <<>>]
    /\ toClient = [c \in Conns |-> <<>>]
    /\ sess = [c \in Conns |-> NoSession]
    /\ run = [r \in Runs |-> [state |-> "none", artifacts |-> <<>>,
                              counted |-> 0]]
    /\ deployment = [d \in Deploys |-> "none"]
    /\ activeRuns = 0 /\ silent = {}
    /\ breaks = 0

---------------------------------------------------------------------------
(* Messages *)

Msg(type, id) == [type |-> type, id |-> id]
Report(type, id, success, artifacts) ==
    [type |-> type, id |-> id, success |-> success, artifacts |-> artifacts]

RoomToSend == Len(outbox) < QueueBound

(* One heartbeat under way stands for any number of them. *)
Heartbeats == {"WaitingHeartbeat", "TestHeartbeat", "DeploymentHeartbeat"}
HeartbeatDue ==
    /\ RoomToSend
    /\ \A m \in Range(outbox) : m.type \notin Heartbeats
    /\ sock # Nobody => \A m \in Range(toServer[sock]) : m.type \notin Heartbeats
Send(m) == outbox' = Append(outbox, m)

---------------------------------------------------------------------------
(* Connections *)

(* The read thread connects; the server accepts and the new session asks    *)
(* what the worker is doing.                                                *)
Connect(c) ==
    /\ client.pc # "down" /\ sock = Nobody /\ IsFirst(c, {k \in Conns : link[k] = "free"})
    /\ sock' = c
    /\ client' = [client EXCEPT !.begun = TRUE]
    /\ link' = [link EXCEPT ![c] = "up"]
    /\ sess' = [sess EXCEPT ![c] = [NoSession EXCEPT !.open = TRUE]]
    /\ toClient' = [toClient EXCEPT ![c] = <<Msg("IdentifyCurrentState", Nobody)>>]
    /\ UNCHANGED <<inbox, outbox, toServer, run, deployment, activeRuns, silent, breaks>>

(* The network fails, or the server clears a socket that was silent         *)
(* (stillLooksAlive).                                                       *)
Break(c) ==
    /\ link[c] = "up" /\ breaks < MaxBreaks
    /\ breaks' = breaks + 1
    /\ link' = [link EXCEPT ![c] = "broken"]
    /\ \E i \in 0..Len(toServer[c]) :
          toServer' = [toServer EXCEPT ![c] = SubSeq(@, 1, i)]
    /\ \E i \in 0..Len(toClient[c]) :
          toClient' = [toClient EXCEPT ![c] = SubSeq(@, 1, i)]
    /\ UNCHANGED <<clientVars, serverVars>>

(* _readLoop: the next message goes to the queue of the main loop. *)
ReadLoop ==
    /\ sock # Nobody /\ toClient[sock] # <<>> /\ Len(inbox) < QueueBound
    /\ inbox' = Append(inbox, Head(toClient[sock]))
    /\ toClient' = [toClient EXCEPT ![sock] = Tail(@)]
    /\ UNCHANGED <<client, sock, outbox, link, toServer, serverVars, breaks>>

(* _readString: reading fails and the socket is forgotten. *)
ReadFails ==
    /\ sock # Nobody /\ toClient[sock] = <<>> /\ link[sock] = "broken"
    /\ sock' = Nobody
    /\ UNCHANGED <<client, inbox, outbox, link, toServer, toClient, serverVars, breaks>>

(* _writeLoop: waits for the first connection; afterwards a message that    *)
(* cannot be written is dropped.                                            *)
WriteLoop ==
    /\ client.begun /\ outbox # <<>>
    /\ outbox' = Tail(outbox)
    /\ IF sock # Nobody /\ link[sock] = "up"
       THEN /\ Len(toServer[sock]) < QueueBound
            /\ toServer' = [toServer EXCEPT ![sock] = Append(@, Head(outbox))]
       ELSE UNCHANGED toServer
    /\ UNCHANGED <<client, sock, inbox, link, toClient, serverVars, breaks>>

(* The session's thread ends once its connection is gone, whether or not it *)
(* has read everything.                                                     *)
SessionEnds(c) ==
    /\ sess[c].open /\ link[c] = "broken"
    /\ sess' = [sess EXCEPT ![c] = NoSession]
    /\ toServer' = [toServer EXCEPT ![c] = <<>>]
    /\ UNCHANGED <<clientVars, link, toClient, run, deployment, activeRuns, silent, breaks>>

(* Both ends have let go of a connection. *)
Forget(c) ==
    /\ link[c] = "broken" /\ ~sess[c].open /\ sock # c
    /\ link' = [link EXCEPT ![c] = "free"]
    /\ toClient' = [toClient EXCEPT ![c] = <<>>]
    /\ UNCHANGED <<clientVars, toServer, serverVars, breaks>>

---------------------------------------------------------------------------
(* The worker's main loop *)

(* checkoutWork, in between two messages. *)
SendWaiting ==
    /\ client.pc = "checkout" /\ HeartbeatDue
    /\ Send(Msg("WaitingHeartbeat", Nobody))
    /\ UNCHANGED <<client, sock, inbox, link, toServer, toClient, serverVars, breaks>>

(* checkoutWork takes a message; only three kinds mean anything to it. *)
CheckoutReceive ==
    /\ client.pc = "checkout" /\ inbox # <<>> /\ RoomToSend
    /\ inbox' = Tail(inbox)
    /\ LET m == Head(inbox) IN
       \/ /\ m.type = "IdentifyCurrentState"
          /\ Send(Report("CurrentState", Nobody, FALSE, <<>>))
          /\ UNCHANGED client
       \/ /\ m.type = "TestAssignment"
          /\ client' = [client EXCEPT !.pc = "working", !.doing = "test", !.test = m.id,
                                      !.artifacts = <<>>, !.tried = 0]
          /\ UNCHANGED outbox
       \/ /\ m.type = "DeploymentAssignment"
          /\ client' = [client EXCEPT !.pc = "working", !.doing = "deployment",
                                      !.deploy = m.id, !.artifacts = <<>>]
          /\ UNCHANGED outbox
       \/ /\ m.type \in {"CancelTest", "AcknowledgeFinishedTest", "ShutdownDeployment"}
          /\ UNCHANGED <<client, outbox>>
    /\ UNCHANGED <<sock, link, toServer, toClient, serverVars, breaks>>

(* What consumeMessages answers to IdentifyCurrentState. *)
CurrentState ==
    CASE client.test # Nobody /\ client.result # "none" ->
            Report("CurrentState/TestFinished", client.test,
                   client.result = "success", client.artifacts)
      [] client.test # Nobody /\ client.result = "none" ->
            Report("CurrentState/WorkingOnTest", client.test, FALSE, client.artifacts)
      [] client.test = Nobody /\ client.deploy # Nobody ->
            Report("CurrentState/WorkingOnDeployment", client.deploy, FALSE, <<>>)
      [] OTHER -> Report("CurrentState", Nobody, FALSE, <<>>)

TestForgotten ==
    [client EXCEPT !.test = Nobody, !.artifacts = <<>>, !.result = "none"]

(* consumeMessages, one message. *)
Consume ==
    /\ client.pc \in {"working", "publishing"} /\ inbox # <<>> /\ RoomToSend
    /\ inbox' = Tail(inbox)
    /\ LET m == Head(inbox) IN
       /\ IF m.type = "IdentifyCurrentState" THEN Send(CurrentState)
                                             ELSE UNCHANGED outbox
       /\ client' =
            IF m.type \in {"AcknowledgeFinishedTest", "CancelTest"} /\ m.id = client.test
            THEN TestForgotten
            ELSE IF m.type = "ShutdownDeployment" /\ m.id = client.deploy
            THEN [client EXCEPT !.deploy = Nobody, !.artifacts = <<>>]
            ELSE client
    /\ UNCHANGED <<sock, link, toServer, toClient, serverVars, breaks>>

(* heartbeat while there is something to report about. *)
Heartbeat ==
    /\ client.pc = "working" /\ HeartbeatDue
    /\ \/ /\ client.test # Nobody
          /\ Send(Msg("TestHeartbeat", client.test))
       \/ /\ client.test = Nobody /\ client.deploy # Nobody
          /\ Send(Msg("DeploymentHeartbeat", client.deploy))
    /\ UNCHANGED <<client, sock, inbox, link, toServer, toClient, serverVars, breaks>>

(* recordArtifactUploaded, called by _runStage after each upload; a failed  *)
(* upload does not keep _runStage from going on with the next one.          *)
UploadArtifact ==
    /\ client.pc = "working" /\ client.test # Nobody
    /\ client.tried < NArtifacts /\ RoomToSend
    /\ \/ /\ client' = [client EXCEPT !.tried = @ + 1,
                                      !.artifacts = Append(@, client.tried + 1)]
          /\ Send([type |-> "ArtifactUploaded", id |-> client.test,
                   artifact |-> client.tried + 1])
       \/ /\ UploadsMayFail
          /\ client' = [client EXCEPT !.tried = @ + 1]
          /\ UNCHANGED outbox
    /\ UNCHANGED <<sock, inbox, link, toServer, toClient, serverVars, breaks>>

(* publishTestResult: a success needs every upload (_runStage). *)
PublishTestResult ==
    /\ client.pc = "working" /\ client.test # Nobody /\ RoomToSend
    /\ \E success \in {client.artifacts = Expected, FALSE} :
          /\ client' = [client EXCEPT !.pc = "publishing",
                            !.result = IF success THEN "success" ELSE "failure"]
          /\ Send(Report("TestFinished", client.test, success, client.artifacts))
    /\ UNCHANGED <<sock, inbox, link, toServer, toClient, serverVars, breaks>>

(* ... which returns when consumeMessages has cleared the test. Mutant: it  *)
(* does not wait for that.                                                  *)
PublishedAtOnce ==
    /\ client.pc = "publishing"
    /\ client' = [TestForgotten EXCEPT !.pc = "checkout", !.doing = "nothing"]
    /\ UNCHANGED <<sock, inbox, outbox, link, toServer, toClient, serverVars, breaks>>
Published ==
    /\ client.pc = "publishing" /\ client.test = Nobody
    /\ client' = [client EXCEPT !.pc = "checkout", !.doing = "nothing"]
    /\ UNCHANGED <<sock, inbox, outbox, link, toServer, toClient, serverVars, breaks>>

(* The command of a deployment ends: deploymentExitedEarly, which keeps     *)
(* _curDeploymentId.                                                       *)
DeploymentExitedEarly ==
    /\ client.doing = "deployment" /\ client.deploy # Nobody /\ RoomToSend
    /\ client' = [client EXCEPT !.pc = "checkout", !.doing = "nothing"]
    /\ Send(Msg("DeploymentExited", client.deploy))
    /\ UNCHANGED <<sock, inbox, link, toServer, toClient, serverVars, breaks>>

(* When what the worker does was canceled, heartbeat and                    *)
(* recordArtifactUploaded raise, and so does the handler that reports the   *)
(* failure; at the latest the assertions of publishTestResult and           *)
(* deploymentExitedEarly fail. _mainTestLoop then kills the process and     *)
(* with it the connection.                                                  *)
WorkerExits ==
    /\ client.pc = "working"
    /\ IF client.doing = "test" THEN client.test = Nobody ELSE client.deploy = Nobody
    /\ client' = [IdleClient EXCEPT !.pc = "down"]
    /\ sock' = Nobody /\ inbox' = <<>> /\ outbox' = <<>>
    /\ link' = [c \in Conns |-> IF c = sock /\ link[c] = "up" THEN "broken" ELSE link[c]]
    /\ UNCHANGED <<toServer, toClient, serverVars, breaks>>

(* The bootstrap script starts it again. *)
WorkerRestarts ==
    /\ client.pc = "down"
    /\ client' = IdleClient
    /\ UNCHANGED <<sock, inbox, outbox, link, toServer, toClient, serverVars, breaks>>

---------------------------------------------------------------------------
(* The TestManager, as sessions use it *)

IsRun(r) == r \in Runs /\ run[r].state # "none"

(* recordTestArtifactUploaded(isCumulative=True) raises. *)
CumulativeRejected(r, artifacts) ==
    IsRun(r) /\ ~(IsPrefix(run[r].artifacts, artifacts) /\ IsPrefix(artifacts, Expected))

WithArtifacts(r, artifacts) == [run EXCEPT ![r].artifacts = artifacts]

(* recordTestResults raises. *)
ResultsRejected(r, success, artifacts) ==
    \/ CumulativeRejected(r, artifacts)
    \/ run[r].state # "canceled" /\ success /\ artifacts # Expected

(* recordTestResults: a run that was canceled is left alone. *)
RecordTestResults(r, artifacts) ==
    IF run[r].state = "canceled"
    THEN run' = WithArtifacts(r, artifacts) /\ UNCHANGED activeRuns
    ELSE /\ run' = [WithArtifacts(r, artifacts) EXCEPT ![r].state = "ended",
                                                       ![r].counted = @ + 1]
         /\ activeRuns' = activeRuns - 1

(* testHeartbeat answers that the worker should stop. The database is looked *)
(* at (checked) only if the last heartbeat is more than five seconds old.    *)
HeartbeatRefused(r, checked) == checked /\ run[r].state = "canceled"

(* handleMessageFromDeployment answers that the worker should stop. *)
DeploymentRefused(d) == deployment[d] # "running"

(* The deployments that startNewDeployment looks through. *)
PendingDeployments == {d \in Deploys : deployment[d] = "pending"}

(* startNewTest: the run that it creates. *)
StartNewTest(r) ==
    /\ IsFirst(r, {q \in Runs : run[q].state = "none"})
    /\ run' = [run EXCEPT ![r].state = "running"]
    /\ activeRuns' = activeRuns + 1

(* _cancelTestRun: a user cancels the run, nobody wants it any more, or      *)
(* performCleanupTasks has seen no heartbeat for a minute. Mutant: only runs *)
(* that a session knows of.                                                 *)
CancelKnownRun(r) ==
    /\ run[r].state = "running" /\ \E c \in Conns : sess[c].test = r
    /\ run' = [run EXCEPT ![r].state = "canceled"]
    /\ activeRuns' = activeRuns - 1
    /\ UNCHANGED <<clientVars, link, toServer, toClient, sess, deployment, silent, breaks>>
CancelTestRun(r) ==
    /\ run[r].state = "running"
    /\ run' = [run EXCEPT ![r].state = "canceled"]
    /\ activeRuns' = activeRuns - 1
    /\ UNCHANGED <<clientVars, link, toServer, toClient, sess, deployment, silent, breaks>>

CreateDeployment(d) ==
    /\ deployment[d] = "none"
    /\ deployment' = [deployment EXCEPT ![d] = "pending"]
    /\ UNCHANGED <<clientVars, link, toServer, toClient, sess, run, activeRuns, silent, breaks>>

(* A user ends a deployment: shutdownDeployment. *)
ShutdownDeployment(d) ==
    /\ deployment[d] \in {"pending", "running"}
    /\ deployment' = [deployment EXCEPT ![d] = "dead"]
    /\ UNCHANGED <<clientVars, link, toServer, toClient, sess, run, activeRuns, silent, breaks>>

---------------------------------------------------------------------------
(* Session.processMsg *)

Reply(c, m) ==
    toClient' = [toClient EXCEPT ![c] = IF link[c] = "up" THEN Append(@, m) ELSE @]

(* An exception in processMsg ends the session and closes the socket. *)
SessionFails(c) ==
    /\ sess' = [sess EXCEPT ![c] = NoSession]
    /\ link' = [link EXCEPT ![c] = "broken"]
    /\ toServer' = [toServer EXCEPT ![c] = <<>>]
    /\ UNCHANGED <<toClient, run, deployment, activeRuns, silent>>

Received(c, m) ==
    /\ sess[c].open /\ toServer[c] # <<>> /\ m = Head(toServer[c])
    /\ Len(toClient[c]) < QueueBound
    /\ UNCHANGED <<clientVars, breaks>>

Goes(c) == toServer' = [toServer EXCEPT ![c] = Tail(@)] /\ UNCHANGED link

OnCurrentStateWaiting(c, m) ==
    /\ Received(c, m) /\ m.type = "CurrentState"
    /\ Goes(c)
    /\ sess' = [sess EXCEPT ![c].known = TRUE]
    /\ UNCHANGED <<toClient, run, deployment, activeRuns, silent>>

(* handleDeploymentConnectionReinitialized, which first takes up all that    *)
(* the deployment has written (setTotalMessages): it cannot, once the buffer *)
(* holds a None.                                                            *)
OnCurrentStateDeployment(c, m) ==
    /\ Received(c, m) /\ m.type = "CurrentState/WorkingOnDeployment"
    /\ \/ /\ m.id \in silent
          /\ SessionFails(c)
       \/ /\ m.id \notin silent
          /\ Goes(c)
          /\ IF DeploymentRefused(m.id)
             THEN /\ sess' = [sess EXCEPT ![c].known = TRUE]
                  /\ Reply(c, Msg("ShutdownDeployment", m.id))
             ELSE /\ sess' = [sess EXCEPT ![c].known = TRUE, ![c].deploy = m.id]
                  /\ UNCHANGED toClient
          /\ UNCHANGED <<run, deployment, activeRuns, silent>>

(* handleTestConnectionReinitialized *)
OnCurrentStateWorking(c, m) ==
    /\ Received(c, m) /\ m.type = "CurrentState/WorkingOnTest"
    /\ \/ /\ CumulativeRejected(m.id, m.artifacts)
          /\ SessionFails(c)
       \/ /\ ~CumulativeRejected(m.id, m.artifacts)
          /\ Goes(c)
          /\ \E checked \in BOOLEAN :
                IF HeartbeatRefused(m.id, checked)
                THEN /\ sess' = [sess EXCEPT ![c].known = TRUE]
                     /\ Reply(c, Msg("CancelTest", m.id))
                ELSE /\ sess' = [sess EXCEPT ![c].known = TRUE, ![c].test = m.id]
                     /\ UNCHANGED toClient
          /\ run' = WithArtifacts(m.id, m.artifacts)
          /\ UNCHANGED <<deployment, activeRuns, silent>>

(* Results arrive when the test ends, and again in answer to                *)
(* IdentifyCurrentState until they are acknowledged.                        *)
OnTestFinished(c, m) ==
    /\ Received(c, m) /\ m.type \in {"TestFinished", "CurrentState/TestFinished"}
    /\ \/ /\ ResultsRejected(m.id, m.success, m.artifacts)
          /\ SessionFails(c)
       \/ /\ ~ResultsRejected(m.id, m.success, m.artifacts)
          /\ Goes(c)
          /\ RecordTestResults(m.id, m.artifacts)
          /\ sess' = IF m.type = "TestFinished" THEN [sess EXCEPT ![c].test = Nobody]
                                                ELSE [sess EXCEPT ![c].known = TRUE]
          /\ Reply(c, Msg("AcknowledgeFinishedTest", m.id))
          /\ UNCHANGED <<deployment, silent>>

(* WaitingHeartbeat: a pending deployment first, then a test. *)
OnWaitingHeartbeat(c, m) ==
    /\ Received(c, m) /\ m.type = "WaitingHeartbeat"
    /\ Goes(c)
    /\ LET idle == sess[c].known /\ sess[c].test = Nobody /\ sess[c].deploy = Nobody
       IN  \/ \E d \in PendingDeployments :
                /\ idle
                /\ deployment' = [deployment EXCEPT ![d] = "running"]
                /\ sess' = [sess EXCEPT ![c].deploy = d]
                /\ Reply(c, Msg("DeploymentAssignment", d))
                /\ UNCHANGED <<run, activeRuns, silent>>
           \/ \E r \in Runs :
                /\ idle /\ PendingDeployments = {}
                /\ StartNewTest(r)
                /\ sess' = [sess EXCEPT ![c].test = r]
                /\ Reply(c, Msg("TestAssignment", r))
                /\ UNCHANGED <<deployment, silent>>
           \/ /\ idle => PendingDeployments = {}
              /\ UNCHANGED <<sess, toClient, run, deployment, activeRuns, silent>>

OnArtifactUploaded(c, m) ==
    /\ Received(c, m) /\ m.type = "ArtifactUploaded"
    /\ LET ix == Len(run[m.id].artifacts) + 1
           ok == ix <= NArtifacts /\ m.artifact = ix
       IN  \/ /\ m.id = sess[c].test /\ ~ok
              /\ SessionFails(c)
           \/ /\ m.id = sess[c].test /\ ok
              /\ Goes(c)
              /\ run' = WithArtifacts(m.id, Append(run[m.id].artifacts, m.artifact))
              /\ UNCHANGED <<sess, toClient, deployment, activeRuns, silent>>
           \/ /\ m.id # sess[c].test
              /\ Goes(c)
              /\ UNCHANGED <<sess, toClient, run, deployment, activeRuns, silent>>

(* Mutant: the session forgets the canceled test without telling the worker. *)
ForgetOnHeartbeat(c, m) ==
    /\ Received(c, m) /\ m.type = "TestHeartbeat"
    /\ Goes(c)
    /\ sess' = IF run[m.id].state = "canceled" THEN [sess EXCEPT ![c].test = Nobody]
                                               ELSE sess
    /\ UNCHANGED <<toClient, run, deployment, activeRuns, silent>>
OnTestHeartbeat(c, m) ==
    /\ Received(c, m) /\ m.type = "TestHeartbeat"
    /\ Goes(c)
    /\ \E checked \in BOOLEAN :
          IF m.id = sess[c].test /\ HeartbeatRefused(m.id, checked)
          THEN /\ sess' = [sess EXCEPT ![c].test = Nobody]
               /\ Reply(c, Msg("CancelTest", m.id))
          ELSE UNCHANGED <<sess, toClient>>
    /\ UNCHANGED <<run, deployment, activeRuns, silent>>

(* A heartbeat has no output: None is added to what the deployment wrote. *)
OnDeploymentMessage(c, m) ==
    /\ Received(c, m) /\ m.type \in {"DeploymentExited", "DeploymentHeartbeat"}
    /\ Goes(c)
    /\ LET over == m.type = "DeploymentExited" \/ DeploymentRefused(m.id)
       IN  \/ /\ m.id = sess[c].deploy /\ over
              /\ deployment' = [deployment EXCEPT ![m.id] = "dead"]
              /\ sess' = [sess EXCEPT ![c].deploy = Nobody]
              /\ Reply(c, Msg("ShutdownDeployment", m.id))
              /\ UNCHANGED silent
           \/ /\ m.id = sess[c].deploy /\ ~over
              /\ silent' = silent \cup {m.id}
              /\ UNCHANGED <<deployment, sess, toClient>>
           \/ /\ m.id # sess[c].deploy
              /\ UNCHANGED <<deployment, sess, toClient, silent>>
    /\ UNCHANGED <<run, activeRuns>>

ProcessMsg(c) ==
    /\ toServer[c] # <<>>
    /\ LET m == Head(toServer[c]) IN
       \/ OnCurrentStateWaiting(c, m) \/ OnCurrentStateDeployment(c, m)
       \/ OnCurrentStateWorking(c, m) \/ OnTestFinished(c, m)
       \/ OnWaitingHeartbeat(c, m)    \/ OnArtifactUploaded(c, m)
       \/ OnTestHeartbeat(c, m)       \/ OnDeploymentMessage(c, m)

---------------------------------------------------------------------------
Client ==
    \/ ReadLoop \/ ReadFails \/ WriteLoop \/ SendWaiting \/ CheckoutReceive
    \/ Consume \/ Heartbeat \/ UploadArtifact \/ PublishTestResult \/ Published
    \/ DeploymentExitedEarly \/ WorkerExits \/ WorkerRestarts

Next ==
    \/ Client
    \/ \E c \in Conns :
          Connect(c) \/ Break(c) \/ SessionEnds(c) \/ Forget(c) \/ ProcessMsg(c)
    \/ \E r \in Runs : CancelTestRun(r)
    \/ \E d \in Deploys : CreateDeployment(d) \/ ShutdownDeployment(d)

(* Threads run, heartbeats are sent, the command of a test ends (it has a   *)
(* timeout), the sweep comes round and finds the runs that nobody works on. *)
(* Users, who may keep a deployment, and the network are not fair.          *)
Fairness ==
    /\ WF_vars(ReadLoop) /\ WF_vars(ReadFails) /\ WF_vars(WriteLoop)
    /\ WF_vars(SendWaiting) /\ WF_vars(CheckoutReceive) /\ WF_vars(Consume)
    /\ WF_vars(PublishTestResult) /\ WF_vars(Published)
    /\ WF_vars(WorkerExits) /\ WF_vars(WorkerRestarts) /\ WF_vars(Heartbeat)
    /\ WF_vars(\E c \in Conns : Connect(c))
    /\ \A c \in Conns :
          WF_vars(SessionEnds(c)) /\ WF_vars(Forget(c)) /\ WF_vars(ProcessMsg(c))
    /\ \A r \in Runs : WF_vars(CancelTestRun(r) /\ client.test # r)

Spec == Init /\ [][Next]_vars

FairSpec == Spec /\ Fairness

---------------------------------------------------------------------------
(* Every variable has its type: in particular what the worker is doing, and *)
(* the states of connections, runs and deployments.                         *)
TypeOK ==
    /\ client \in [pc : {"checkout", "working", "publishing", "down"},
                    doing : {"nothing", "test", "deployment"}, begun : BOOLEAN,
                    test : Runs \cup {Nobody}, deploy : Deploys \cup {Nobody},
                    result : {"none", "success", "failure"},
                    artifacts : Seq(1..NArtifacts), tried : 0..NArtifacts]
    /\ sock \in Conns \cup {Nobody}
    /\ link \in [Conns -> {"free", "up", "broken"}]
    /\ sess \in [Conns -> [open : BOOLEAN, known : BOOLEAN,
                            test : Runs \cup {Nobody}, deploy : Deploys \cup {Nobody}]]
    /\ run \in [Runs -> [state : {"none", "running", "ended", "canceled"},
                          artifacts : Seq(1..NArtifacts), counted : Nat]]
    /\ deployment \in [Deploys -> {"none", "pending", "running", "dead"}]
    /\ activeRuns \in Int /\ silent \subseteq Deploys /\ breaks \in 0..MaxBreaks

(* When nothing is under way on a connection that works and the worker has   *)
(* said what it does, the session and the client mean the same test. This    *)
(* takes that only one connection broke: what the worker had to say to an    *)
(* earlier connection goes to the next one, so that after a second break an  *)
(* old CurrentState and an old WaitingHeartbeat get a worker assigned a test *)
(* in the middle of its deployment.                                         *)
QuietMeansAgreed ==
    breaks <= 1 => \A c \in Conns :
        /\ sock = c /\ link[c] = "up" /\ sess[c].known
        /\ toServer[c] = <<>> /\ toClient[c] = <<>> /\ inbox = <<>> /\ outbox = <<>>
        => sess[c].test = client.test

(* The server never drops a connection that works because of what the       *)
(* worker said on it: artifacts that are reported twice, by a message that   *)
(* the previous session reads late and by the worker's current state, can    *)
(* only upset the session whose connection is already gone. This, too, takes *)
(* that only one connection broke: a deployment that is shut down in the     *)
(* middle of a test (see above) empties the list of the test's artifacts.    *)
(* The one message that ends a session is that of a worker with a deployment *)
(* the server had a heartbeat from: it cannot take up its output again.      *)
CannotTakeUp(c) ==
    /\ toServer[c] # <<>> /\ toServer[c][1].type = "CurrentState/WorkingOnDeployment"
    /\ toServer[c][1].id \in silent
SessionsSurvive ==
    breaks <= 1 => \A c \in Conns : sess[c].open /\ ~sess'[c].open =>
        link[c] = "broken" \/ client'.pc = "down" \/ CannotTakeUp(c)

(* Results that are reported again over a new connection are counted again   *)
(* (recordTestResults looks only for runs that were canceled), so that       *)
(* Test.activeRuns falls below the runs that are active, by one for each     *)
(* time that a result was counted too often and for no other reason; and     *)
(* none is without a broken connection.                                     *)
CountedAgain == UNION {{r} \X (2..run[r].counted) : r \in Runs}
Running == {r \in Runs : run[r].state = "running"}
MiscountExplained == activeRuns = Cardinality(Running) - Cardinality(CountedAgain)
MiscountNeedsBreak == breaks <= 1 => Cardinality(CountedAgain) <= breaks

(* As long as only one connection broke, the two sides mean the same test,    *)
(* no session that could go on is ended, and a result is counted twice at    *)
(* most (QuietMeansAgreed, MiscountNeedsBreak, SessionsSurvive).             *)
SidesAgree ==
    /\ [](QuietMeansAgreed /\ MiscountNeedsBreak)
    /\ [][SessionsSurvive]_vars

(* A worker gives up the result of a test only when the server has recorded  *)
(* it or canceled the run, whatever connection the acknowledgement came on. *)
ResultKept ==
    client.pc = "publishing" /\ client.test # Nobody /\ client'.test = Nobody
        => run[client.test].state \in {"ended", "canceled"}

(* However often connections break, no result is given up (ResultKept), and  *)
(* the number of active runs is off by nothing but repeated results          *)
(* (MiscountExplained).                                                     *)
NothingLost == [](TypeOK /\ MiscountExplained) /\ [][ResultKept]_vars

(* A run that was started is over some day, even if the worker never heard   *)
(* of it because its assignment was lost; and a worker that takes up         *)
(* something comes back for more, even when the connection breaks, its test  *)
(* is canceled or its deployment is shut down. Only a deployment that nobody *)
(* ends may keep it, and one that lost its connection after a heartbeat: no  *)
(* session takes it up again, so that nobody can tell the worker to end it.  *)
EveryRunEnds == \A r \in Runs : run[r].state = "running" ~> run[r].state # "running"
Deployed ==
    client.doing = "deployment" /\ \E d \in Deploys : client.deploy = d /\ deployment[d] = "running"
Stranded ==
    /\ client.doing = "deployment" /\ client.deploy \in silent
    /\ \A c \in Conns : sock = c /\ link[c] = "up" => sess[c].deploy # client.deploy
WorkComesToAnEnd == EveryRunEnds /\ []<>(client.pc = "checkout" \/ Deployed \/ Stranded)
=============================================================================
