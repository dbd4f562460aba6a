------------------------ MODULE WorkerProtocolProofs ------------------------
(* Proofs about WorkerProtocol, for any number of runs, deployments,         *)
(* connections and breaks, and whether or not uploads fail.                  *)
EXTENDS WorkerProtocol, SequenceTheorems, FiniteSetTheorems, TLAPS

------------------------------------------------------------------------------
(* What is known of a message from what it is about: only runs that were     *)
(* started are spoken of, and only those that are over are acknowledged or   *)
(* canceled. S are the runs that were started, O those that are over.        *)

Started == {r \in Runs : run[r].state # "none"}
Over == {r \in Runs : run[r].state \in {"ended", "canceled"}}

Artifacts == Seq(1 .. NArtifacts)
AboutDeploy == {"DeploymentHeartbeat", "DeploymentExited"}

Up(S) ==
    [type : {"WaitingHeartbeat"}, id : {Nobody}]
    \cup [type : {"TestHeartbeat"}, id : S]
    \cup [type : AboutDeploy, id : Deploys]
    \cup [type : {"ArtifactUploaded"}, id : S, artifact : 1 .. NArtifacts]
    \cup [type : {"CurrentState"}, id : {Nobody}, success : BOOLEAN, artifacts : Artifacts]
    \cup [type : {"CurrentState/WorkingOnDeployment"}, id : Deploys, success : BOOLEAN,
          artifacts : Artifacts]
    \cup [type : {"TestFinished", "CurrentState/TestFinished", "CurrentState/WorkingOnTest"},
          id : S, success : BOOLEAN, artifacts : Artifacts]

Down(S, O) ==
    [type : {"IdentifyCurrentState"}, id : {Nobody}]
    \cup [type : {"TestAssignment"}, id : S]
    \cup [type : {"DeploymentAssignment", "ShutdownDeployment"}, id : Deploys]
    \cup [type : {"AcknowledgeFinishedTest", "CancelTest"}, id : O]

(* Messages keep their meaning as more runs are started and end. *)
LEMMA UpGrows ==
  ASSUME NEW S, NEW T, S \subseteq T
  PROVE  Up(S) \subseteq Up(T)
BY DEF Up

(* The same for what the server says. *)
LEMMA DownGrows ==
  ASSUME NEW S, NEW T, S \subseteq T, NEW O, NEW P, O \subseteq P
  PROVE  Down(S, O) \subseteq Down(T, P)
BY DEF Down

(* What a session can rely on. *)
LEMMA UpMeans ==
  ASSUME NEW S, NEW m \in Up(S)
  PROVE  /\ m.type \in {"TestHeartbeat", "ArtifactUploaded", "TestFinished",
                        "CurrentState/TestFinished", "CurrentState/WorkingOnTest"} => m.id \in S
         /\ m.type \in AboutDeploy \cup {"CurrentState/WorkingOnDeployment"} => m.id \in Deploys
         /\ m.type \in {"TestFinished", "CurrentState/TestFinished",
                        "CurrentState/WorkingOnTest"} => m.artifacts \in Artifacts
         /\ m.type = "ArtifactUploaded" => m.artifact \in 1 .. NArtifacts
BY DEF Up, AboutDeploy

(* What the client can rely on. *)
LEMMA DownMeans ==
  ASSUME NEW S, NEW O, NEW m \in Down(S, O)
  PROVE  /\ m.type = "TestAssignment" => m.id \in S
         /\ m.type \in {"DeploymentAssignment", "ShutdownDeployment"} => m.id \in Deploys
         /\ m.type \in {"AcknowledgeFinishedTest", "CancelTest"} => m.id \in O
BY DEF Down

(* Elements of a larger set. *)
LEMMA SeqGrows ==
  ASSUME NEW A, NEW B, A \subseteq B, NEW q \in Seq(A)
  PROVE  q \in Seq(B)
OBVIOUS

(* Queues: what is taken from the front, put at the end, and cut off. *)
LEMMA Queues ==
  ASSUME NEW A, NEW q \in Seq(A)
  PROVE  /\ q # <<>> => Tail(q) \in Seq(A) /\ Head(q) \in A
         /\ \A m \in A : Append(q, m) \in Seq(A)
         /\ \A i \in 0 .. Len(q) : SubSeq(q, 1, i) \in Seq(A)
OBVIOUS

------------------------------------------------------------------------------
(* The invariant *)

ClientType == [pc : {"checkout", "working", "publishing", "down"},
               doing : {"nothing", "test", "deployment"}, begun : BOOLEAN,
               test : Runs \cup {Nobody}, deploy : Deploys \cup {Nobody},
               result : {"none", "success", "failure"},
               artifacts : Artifacts, tried : 0 .. NArtifacts]
SessType == [open : BOOLEAN, known : BOOLEAN, test : Runs \cup {Nobody},
             deploy : Deploys \cup {Nobody}]
RunType == [state : {"none", "running", "ended", "canceled"}, artifacts : Artifacts,
            counted : Nat]

ClientInv ==
    /\ client \in ClientType /\ sock \in Conns \cup {Nobody}
    /\ client.test \in Started \cup {Nobody}

ServerInv ==
    /\ link \in [Conns -> {"free", "up", "broken"}] /\ sess \in [Conns -> SessType]
    /\ deployment \in [Deploys -> {"none", "pending", "running", "dead"}]
    /\ breaks \in 0 .. MaxBreaks

(* A run is counted when it ends and not before, and the counter misses the  *)
(* results that are counted again.                                          *)
RunInv ==
    /\ run \in [Runs -> RunType] /\ activeRuns \in Int
    /\ \A r \in Runs : run[r].counted = 0 <=> run[r].state # "ended"
    /\ IsFiniteSet(Running) /\ IsFiniteSet(CountedAgain)
    /\ MiscountExplained

UpNow == Up(Started)
DownNow == Down(Started, Over)

QueueInv ==
    /\ outbox \in Seq(UpNow) /\ inbox \in Seq(DownNow)
    /\ toServer \in [Conns -> Seq(UpNow)] /\ toClient \in [Conns -> Seq(DownNow)]

Inv == ClientInv /\ ServerInv /\ RunInv /\ QueueInv

------------------------------------------------------------------------------
(* What happens to runs *)

(* Runs that were started, and those that are over, remain so. *)
RunsGoOn == Started \subseteq Started' /\ Over \subseteq Over'

(* Messages that are under way keep their meaning. *)
LEMMA MessagesStand ==
  ASSUME RunsGoOn
  PROVE  /\ UpNow \subseteq UpNow' /\ DownNow \subseteq DownNow'
         /\ \A q \in Seq(UpNow) : q \in Seq(UpNow')
         /\ \A q \in Seq(DownNow) : q \in Seq(DownNow')
<1>1. UpNow' = Up(Started') /\ DownNow' = Down(Started', Over')
  BY DEF UpNow, DownNow, Up, Down
<1>2. UpNow \subseteq UpNow' /\ DownNow \subseteq DownNow'
  BY <1>1, UpGrows, DownGrows DEF RunsGoOn, UpNow, DownNow
<1>3. QED  BY <1>2, SeqGrows

(* Nothing happens to them. *)
LEMMA RunsStay ==
  ASSUME UNCHANGED <<run, activeRuns>>
  PROVE  /\ RunsGoOn /\ Started' = Started /\ Over' = Over
         /\ UpNow' = UpNow /\ DownNow' = DownNow
         /\ RunInv => RunInv'
<1>1. Started' = Started /\ Over' = Over
  BY DEF Started, Over
<1>2. UpNow' = UpNow /\ DownNow' = DownNow
  BY <1>1 DEF UpNow, DownNow, Up, Down
<1>3. RunInv => RunInv'
  BY DEF RunInv, Running, CountedAgain, MiscountExplained
<1>4. QED  BY <1>1, <1>2, <1>3 DEF RunsGoOn

(* Which results were counted again. *)
LEMMA CountedAgainIs ==
  ASSUME NEW x
  PROVE  x \in CountedAgain <=> \E r \in Runs : \E n \in 2 .. run[r].counted : x = <<r, n>>
BY DEF CountedAgain

(* The runs that are active and the results counted twice are the same. *)
LEMMA SameCounts ==
  ASSUME RunInv, activeRuns' = activeRuns,
         \A r \in Runs : /\ run'[r].counted = run[r].counted
                         /\ run'[r].state = run[r].state
  PROVE  /\ IsFiniteSet(Running)' /\ IsFiniteSet(CountedAgain)' /\ MiscountExplained'
         /\ RunsGoOn
<1>1. Running' = Running /\ CountedAgain' = CountedAgain
  BY DEF Running, CountedAgain
<1>2. QED  BY <1>1 DEF RunInv, MiscountExplained, RunsGoOn, Started, Over

(* recordTestArtifactUploaded *)
LEMMA ArtifactsStep ==
  ASSUME RunInv, NEW r \in Runs, NEW a \in Artifacts, run' = WithArtifacts(r, a),
         activeRuns' = activeRuns
  PROVE  RunInv' /\ RunsGoOn
<1>1. run \in [Runs -> RunType]
  BY DEF RunInv
<1>2. /\ run' \in [Runs -> RunType]
      /\ \A q \in Runs : run'[q].counted = run[q].counted /\ run'[q].state = run[q].state
  BY <1>1 DEF WithArtifacts, RunType
<1>3. QED  BY <1>2, SameCounts DEF RunInv

(* startNewTest *)
LEMMA StartNewTestStep ==
  ASSUME RunInv, NEW r \in Runs, StartNewTest(r)
  PROVE  RunInv' /\ RunsGoOn /\ r \in Started'
<1>1. /\ run \in [Runs -> RunType] /\ run[r].state = "none" /\ activeRuns \in Int
      /\ run' = [run EXCEPT ![r].state = "running"] /\ activeRuns' = activeRuns + 1
  BY DEF RunInv, StartNewTest, IsFirst
<1>2. /\ run' \in [Runs -> RunType] /\ run'[r].state = "running"
      /\ \A q \in Runs : /\ run'[q].counted = run[q].counted
                         /\ q # r => run'[q].state = run[q].state
  BY <1>1 DEF RunType
<1>3. CountedAgain' = CountedAgain
  BY <1>2 DEF CountedAgain
<1>4. Running' = Running \cup {r} /\ r \notin Running
  BY <1>1, <1>2 DEF Running
<1>5. IsFiniteSet(Running') /\ Cardinality(Running') = Cardinality(Running) + 1
  BY <1>4, FS_AddElement DEF RunInv
<1>6. Cardinality(Running) \in Nat /\ Cardinality(CountedAgain) \in Nat
  BY FS_CardinalityType DEF RunInv
<1>7. MiscountExplained'
  BY <1>1, <1>3, <1>5, <1>6 DEF RunInv, MiscountExplained
<1>8. \A q \in Runs : run'[q].counted = 0 <=> run'[q].state # "ended"
  BY <1>1, <1>2 DEF RunInv
<1>9. activeRuns' \in Int
  BY <1>1
<1>10. RunsGoOn /\ r \in Started'
  BY <1>1, <1>2 DEF RunsGoOn, Started, Over
<1>11. QED  BY <1>2, <1>3, <1>5, <1>7, <1>8, <1>9, <1>10 DEF RunInv

(* _cancelTestRun *)
LEMMA CancelStep ==
  ASSUME RunInv, NEW r \in Runs, run[r].state = "running",
         run' = [run EXCEPT ![r].state = "canceled"], activeRuns' = activeRuns - 1
  PROVE  RunInv' /\ RunsGoOn
<1>1. run \in [Runs -> RunType] /\ activeRuns \in Int
  BY DEF RunInv
<1>2. /\ run' \in [Runs -> RunType] /\ run'[r].state = "canceled"
      /\ \A q \in Runs : /\ run'[q].counted = run[q].counted
                         /\ q # r => run'[q].state = run[q].state
  BY <1>1 DEF RunType
<1>3. CountedAgain' = CountedAgain
  BY <1>2 DEF CountedAgain
<1>4. Running' = Running \ {r} /\ r \in Running
  BY <1>1, <1>2 DEF Running
<1>5. IsFiniteSet(Running') /\ Cardinality(Running') = Cardinality(Running) - 1
  BY <1>4, FS_RemoveElement DEF RunInv
<1>6. Cardinality(Running) \in Nat /\ Cardinality(CountedAgain) \in Nat
  BY FS_CardinalityType DEF RunInv
<1>7. MiscountExplained'
  BY <1>1, <1>3, <1>5, <1>6 DEF RunInv, MiscountExplained
<1>8. \A q \in Runs : run'[q].counted = 0 <=> run'[q].state # "ended"
  BY <1>1, <1>2 DEF RunInv
<1>9. activeRuns' \in Int
  BY <1>1
<1>10. RunsGoOn
  BY <1>1, <1>2 DEF RunsGoOn, Started, Over
<1>11. QED  BY <1>2, <1>3, <1>5, <1>7, <1>8, <1>9, <1>10 DEF RunInv

(* recordTestResults: the first result of a run takes it from the active     *)
(* ones; a result that comes again is counted again.                        *)
LEMMA ResultsStep ==
  ASSUME RunInv, NEW r \in Started, NEW a \in Artifacts, RecordTestResults(r, a)
  PROVE  RunInv' /\ RunsGoOn /\ r \in Over'
<1>1. /\ r \in Runs /\ run \in [Runs -> RunType] /\ activeRuns \in Int
      /\ run[r].state \in {"running", "ended", "canceled"}
  BY DEF RunInv, Started, RunType
<1>2. CASE run[r].state = "canceled"
  <2>1. run' = WithArtifacts(r, a) /\ activeRuns' = activeRuns
    BY <1>2 DEF RecordTestResults
  <2>2. RunInv' /\ RunsGoOn
    BY <1>1, <2>1, ArtifactsStep
  <2>3. QED  BY <1>1, <1>2, <2>2 DEF RunsGoOn, Over
<1>3. CASE run[r].state # "canceled"
  <2>1. /\ run' = [WithArtifacts(r, a) EXCEPT ![r].state = "ended", ![r].counted = @ + 1]
        /\ activeRuns' = activeRuns - 1
    BY <1>3 DEF RecordTestResults
  <2>2. /\ run' \in [Runs -> RunType] /\ run'[r].state = "ended"
        /\ run'[r].counted = run[r].counted + 1
        /\ \A q \in Runs : q # r => run'[q] = [run[q] EXCEPT !.artifacts = run'[q].artifacts]
    BY <1>1, <2>1 DEF WithArtifacts, RunType
  <2>3. /\ run[r].counted \in Nat
        /\ \A q \in Runs : q # r => /\ run'[q].state = run[q].state
                                    /\ run'[q].counted = run[q].counted
    BY <1>1, <2>2 DEF RunType
  <2>4. \A q \in Runs : run'[q].counted = 0 <=> run'[q].state # "ended"
    BY <1>1, <2>2, <2>3 DEF RunInv
  <2>5. Cardinality(Running) \in Nat /\ Cardinality(CountedAgain) \in Nat
    BY FS_CardinalityType DEF RunInv
  <2>6. RunsGoOn /\ r \in Over' /\ activeRuns' \in Int
    BY <1>1, <2>1, <2>2, <2>3 DEF RunsGoOn, Started, Over
  <2>7. CASE run[r].state = "running"
    <3>1. run[r].counted = 0 /\ run'[r].counted = 1
      BY <1>1, <2>2, <2>7 DEF RunInv
    <3>2. 2 .. 1 = {} /\ 2 .. 0 = {}
      OBVIOUS
    <3>3. \A q \in Runs : 2 .. run'[q].counted = 2 .. run[q].counted
      BY <2>3, <3>1, <3>2
    <3>4. CountedAgain' = CountedAgain
      BY <3>3 DEF CountedAgain
    <3>5. Running' = Running \ {r} /\ r \in Running
      BY <1>1, <2>2, <2>3, <2>7 DEF Running
    <3>6. IsFiniteSet(Running') /\ Cardinality(Running') = Cardinality(Running) - 1
      BY <3>5, FS_RemoveElement DEF RunInv
    <3>7. MiscountExplained'
      BY <1>1, <2>1, <2>5, <3>4, <3>6 DEF RunInv, MiscountExplained
    <3>8. QED  BY <2>2, <2>4, <2>6, <3>4, <3>6, <3>7 DEF RunInv
  <2>8. CASE run[r].state = "ended"
    <3>1. run[r].counted >= 1
      BY <1>1, <2>3, <2>8 DEF RunInv
    <3>2. PICK n : n = run[r].counted + 1
      OBVIOUS
    <3>3. /\ n \in Nat /\ n >= 2 /\ 2 .. run'[r].counted = (2 .. run[r].counted) \cup {n}
          /\ n \notin 2 .. run[r].counted
      BY <2>2, <2>3, <3>1, <3>2
    <3>4. \A x : x \in CountedAgain' <=> \E q \in Runs : \E k \in 2 .. run'[q].counted : x = <<q, k>>
      BY DEF CountedAgain
    <3>5. \A x : x \in CountedAgain <=> \E q \in Runs : \E k \in 2 .. run[q].counted : x = <<q, k>>
      BY CountedAgainIs
    <3>6. \A x : x \in CountedAgain' => x \in CountedAgain \cup {<<r, n>>}
      BY <2>3, <3>3, <3>4, <3>5
    <3>7. \A x : x \in CountedAgain \cup {<<r, n>>} => x \in CountedAgain'
      BY <1>1, <2>3, <3>3, <3>4, <3>5
    <3>8. CountedAgain' = CountedAgain \cup {<<r, n>>}
      BY <3>6, <3>7
    <3>9. <<r, n>> \notin CountedAgain
      BY <3>3, <3>5
    <3>10. /\ IsFiniteSet(CountedAgain')
           /\ Cardinality(CountedAgain') = Cardinality(CountedAgain) + 1
      BY <3>8, <3>9, FS_AddElement DEF RunInv
    <3>11. Running' = Running
      BY <1>1, <2>2, <2>3, <2>8 DEF Running
    <3>12. MiscountExplained'
      BY <1>1, <2>1, <2>5, <3>10, <3>11 DEF RunInv, MiscountExplained
    <3>13. QED  BY <2>2, <2>4, <2>6, <3>10, <3>11, <3>12 DEF RunInv
  <2>9. QED  BY <1>1, <1>3, <2>7, <2>8
<1>4. QED  BY <1>2, <1>3

------------------------------------------------------------------------------
(* One lemma for each kind of step. *)

(* Steps of the client leave the runs alone: what is left to show. *)
LEMMA ClientStep ==
  ASSUME Inv, UNCHANGED <<sess, run, deployment, activeRuns, breaks>>,
         client' \in ClientType, client'.test \in Started \cup {Nobody},
         sock' \in Conns \cup {Nobody}, link' \in [Conns -> {"free", "up", "broken"}],
         outbox' \in Seq(UpNow), inbox' \in Seq(DownNow),
         toServer' \in [Conns -> Seq(UpNow)], toClient' \in [Conns -> Seq(DownNow)]
  PROVE  Inv'
<1>1. Started' = Started /\ UpNow' = UpNow /\ DownNow' = DownNow /\ RunInv'
  BY RunsStay DEF Inv
<1>2. ClientInv'
  BY <1>1 DEF ClientInv
<1>3. ServerInv'
  BY DEF Inv, ServerInv
<1>4. QueueInv'
  BY <1>1 DEF QueueInv
<1>5. QED  BY <1>1, <1>2, <1>3, <1>4 DEF Inv

(* What the client knows, in one place. *)
LEMMA ClientFacts ==
  ASSUME Inv
  PROVE  /\ client \in ClientType /\ client.test \in Started \cup {Nobody}
         /\ client.deploy \in Deploys \cup {Nobody} /\ client.artifacts \in Artifacts
         /\ client.tried \in 0 .. NArtifacts
         /\ sock \in Conns \cup {Nobody} /\ link \in [Conns -> {"free", "up", "broken"}]
         /\ outbox \in Seq(UpNow) /\ inbox \in Seq(DownNow)
         /\ toServer \in [Conns -> Seq(UpNow)] /\ toClient \in [Conns -> Seq(DownNow)]
BY DEF Inv, ClientInv, ServerInv, QueueInv, ClientType

(* The read and the write thread. *)
LEMMA ThreadSteps ==
  ASSUME Inv, ReadLoop \/ ReadFails \/ WriteLoop
  PROVE  Inv'
<1>1. UNCHANGED <<client, link, sess, run, deployment, activeRuns, breaks>>
  BY DEF ReadLoop, ReadFails, WriteLoop, serverVars
<1>2. CASE ReadLoop
  <2>1. /\ sock \in Conns /\ toClient[sock] \in Seq(DownNow) /\ toClient[sock] # <<>>
        /\ inbox' = Append(inbox, Head(toClient[sock]))
        /\ toClient' = [toClient EXCEPT ![sock] = Tail(toClient[sock])]
        /\ UNCHANGED <<sock, outbox, toServer>>
    BY <1>2, ClientFacts DEF ReadLoop
  <2>2. Tail(toClient[sock]) \in Seq(DownNow) /\ Head(toClient[sock]) \in DownNow
    BY <2>1, Queues
  <2>3. inbox' \in Seq(DownNow)
    BY <2>1, <2>2, Queues, ClientFacts
  <2>4. toClient' \in [Conns -> Seq(DownNow)]
    BY <2>1, <2>2, ClientFacts, Zenon
  <2>5. QED  BY <1>1, <2>1, <2>3, <2>4, ClientFacts, ClientStep
<1>3. CASE ReadFails
  BY <1>1, <1>3, ClientFacts, ClientStep DEF ReadFails
<1>4. CASE WriteLoop
  <2>1. /\ outbox # <<>> /\ outbox' = Tail(outbox) /\ UNCHANGED <<sock, inbox, toClient>>
        /\ \/ toServer' = toServer
           \/ /\ sock \in Conns
              /\ toServer' = [toServer EXCEPT ![sock] = Append(toServer[sock], Head(outbox))]
    BY <1>4, ClientFacts DEF WriteLoop
  <2>2. Tail(outbox) \in Seq(UpNow) /\ Head(outbox) \in UpNow
    BY <2>1, Queues, ClientFacts
  <2>3. toServer' \in [Conns -> Seq(UpNow)]
    <3>1. CASE toServer' = toServer
      BY <3>1, ClientFacts
    <3>2. CASE /\ sock \in Conns
               /\ toServer' = [toServer EXCEPT ![sock] = Append(toServer[sock], Head(outbox))]
      <4>1. toServer[sock] \in Seq(UpNow)
        BY <3>2, ClientFacts
      <4>2. Append(toServer[sock], Head(outbox)) \in Seq(UpNow)
        BY <2>2, <4>1, Queues
      <4>3. QED  BY <3>2, <4>2, ClientFacts, Zenon
    <3>3. QED  BY <2>1, <3>1, <3>2
  <2>4. QED  BY <1>1, <2>1, <2>2, <2>3, ClientFacts, ClientStep
<1>5. QED  BY <1>2, <1>3, <1>4

(* The main loop puts a message in the outbox. *)
LEMMA SendStep ==
  ASSUME Inv, UNCHANGED <<sock, inbox, link, toServer, toClient, serverVars, breaks>>,
         client' \in ClientType, client'.test \in Started \cup {Nobody},
         NEW m \in UpNow, Send(m) \/ UNCHANGED outbox
  PROVE  Inv'
<1>1. outbox' \in Seq(UpNow)
  BY Queues, ClientFacts DEF Send
<1>2. QED  BY <1>1, ClientFacts, ClientStep DEF serverVars

(* What it has to say: heartbeats, uploads, results and its current state.   *)
LEMMA MessagesToSend ==
  ASSUME Inv
  PROVE  /\ Msg("WaitingHeartbeat", Nobody) \in UpNow
         /\ Report("CurrentState", Nobody, FALSE, <<>>) \in UpNow
         /\ client.test # Nobody => Msg("TestHeartbeat", client.test) \in UpNow
         /\ client.deploy # Nobody =>
              /\ Msg("DeploymentHeartbeat", client.deploy) \in UpNow
              /\ Msg("DeploymentExited", client.deploy) \in UpNow
         /\ CurrentState \in UpNow
<1>1. <<>> \in Artifacts
  BY DEF Artifacts
<1>2. Report("CurrentState", Nobody, FALSE, <<>>) \in UpNow
  BY <1>1 DEF UpNow, Up, Report
<1>3. Msg("WaitingHeartbeat", Nobody) \in UpNow
  BY DEF UpNow, Up, Msg
<1>4. client.test # Nobody => Msg("TestHeartbeat", client.test) \in UpNow
  BY ClientFacts DEF UpNow, Up, Msg
<1>5. client.deploy # Nobody => /\ Msg("DeploymentHeartbeat", client.deploy) \in UpNow
                                /\ Msg("DeploymentExited", client.deploy) \in UpNow
  BY ClientFacts DEF UpNow, Up, Msg, AboutDeploy
<1>6. CurrentState \in UpNow
  <2>1. CASE client.test # Nobody /\ client.result # "none"
    <3>1. CurrentState = Report("CurrentState/TestFinished", client.test,
                                client.result = "success", client.artifacts)
      BY <2>1 DEF CurrentState
    <3>2. (client.result = "success") \in BOOLEAN /\ client.test \in Started
      BY <2>1, ClientFacts
    <3>3. QED  BY <3>1, <3>2, ClientFacts DEF UpNow, Up, Report
  <2>2. CASE client.test # Nobody /\ client.result = "none"
    <3>1. CurrentState = Report("CurrentState/WorkingOnTest", client.test, FALSE, client.artifacts)
      BY <2>2 DEF CurrentState
    <3>2. client.test \in Started
      BY <2>2, ClientFacts
    <3>3. QED  BY <3>1, <3>2, ClientFacts DEF UpNow, Up, Report
  <2>3. CASE client.test = Nobody /\ client.deploy # Nobody
    <3>1. CurrentState = Report("CurrentState/WorkingOnDeployment", client.deploy, FALSE, <<>>)
      BY <2>3 DEF CurrentState
    <3>2. client.deploy \in Deploys
      BY <2>3, ClientFacts
    <3>3. QED  BY <1>1, <3>1, <3>2 DEF UpNow, Up, Report
  <2>4. CASE client.test = Nobody /\ client.deploy = Nobody
    <3>1. CurrentState = Report("CurrentState", Nobody, FALSE, <<>>)
      BY <2>4 DEF CurrentState
    <3>2. QED  BY <1>2, <3>1
  <2>5. QED  BY <2>1, <2>2, <2>3, <2>4
<1>7. QED  BY <1>2, <1>3, <1>4, <1>5, <1>6

(* Heartbeats. *)
LEMMA HeartbeatSteps ==
  ASSUME Inv, SendWaiting \/ Heartbeat
  PROVE  Inv'
<1>1. /\ UNCHANGED <<sock, inbox, link, toServer, toClient, serverVars, breaks>>
      /\ client' = client
  BY DEF SendWaiting, Heartbeat
<1>2. PICK m \in UpNow : Send(m)
  BY MessagesToSend DEF SendWaiting, Heartbeat
<1>3. QED  BY <1>1, <1>2, ClientFacts, SendStep

(* The main loop takes a message from the inbox and may answer. *)
LEMMA TakeStep ==
  ASSUME Inv, UNCHANGED <<sock, link, toServer, toClient, serverVars, breaks>>,
         inbox # <<>>, inbox' = Tail(inbox),
         client' \in ClientType, client'.test \in Started \cup {Nobody},
         NEW m \in UpNow, Send(m) \/ UNCHANGED outbox
  PROVE  Inv'
<1>1. outbox' \in Seq(UpNow)
  BY Queues, ClientFacts DEF Send
<1>2. inbox' \in Seq(DownNow)
  BY Queues, ClientFacts
<1>3. QED  BY <1>1, <1>2, ClientFacts, ClientStep DEF serverVars

(* What the message is about. *)
LEMMA TakenMessage ==
  ASSUME Inv, inbox # <<>>, NEW m, m = Head(inbox)
  PROVE  /\ m.type = "TestAssignment" => m.id \in Started
         /\ m.type \in {"DeploymentAssignment", "ShutdownDeployment"} => m.id \in Deploys
         /\ m.type \in {"AcknowledgeFinishedTest", "CancelTest"} => m.id \in Over
<1>1. m \in DownNow
  BY Queues, ClientFacts
<1>2. m \in Down(Started, Over)
  BY <1>1 DEF DownNow
<1>3. QED  BY <1>2, DownMeans

(* checkoutWork *)
LEMMA CheckoutStep ==
  ASSUME Inv, CheckoutReceive
  PROVE  Inv'
<1>1. /\ UNCHANGED <<sock, link, toServer, toClient, serverVars, breaks>>
      /\ inbox # <<>> /\ inbox' = Tail(inbox)
  BY DEF CheckoutReceive
<1>2. PICK m : m = Head(inbox)
  OBVIOUS
<1>3. Started \subseteq Runs /\ <<>> \in Artifacts /\ 0 \in 0 .. NArtifacts
  BY WorkerAssumption DEF Started, Artifacts
<1>4. CASE m.type = "IdentifyCurrentState"
  <2>1. Send(Report("CurrentState", Nobody, FALSE, <<>>)) /\ client' = client
    BY <1>2, <1>4 DEF CheckoutReceive
  <2>2. QED  BY <1>1, <2>1, MessagesToSend, ClientFacts, TakeStep
<1>5. CASE m.type = "TestAssignment"
  <2>1. /\ client' = [client EXCEPT !.pc = "working", !.doing = "test", !.test = m.id,
                                    !.artifacts = <<>>, !.tried = 0]
        /\ UNCHANGED outbox
    BY <1>2, <1>5 DEF CheckoutReceive
  <2>2. m.id \in Started
    BY <1>1, <1>2, <1>5, TakenMessage
  <2>3. client' \in ClientType /\ client'.test \in Started \cup {Nobody}
    BY <1>3, <2>1, <2>2, ClientFacts DEF ClientType
  <2>4. QED  BY <1>1, <2>1, <2>3, MessagesToSend, TakeStep
<1>6. CASE m.type = "DeploymentAssignment"
  <2>1. /\ client' = [client EXCEPT !.pc = "working", !.doing = "deployment",
                                    !.deploy = m.id, !.artifacts = <<>>]
        /\ UNCHANGED outbox
    BY <1>2, <1>6 DEF CheckoutReceive
  <2>2. m.id \in Deploys
    BY <1>1, <1>2, <1>6, TakenMessage
  <2>3. client' \in ClientType /\ client'.test \in Started \cup {Nobody}
    BY <1>3, <2>1, <2>2, ClientFacts DEF ClientType
  <2>4. QED  BY <1>1, <2>1, <2>3, MessagesToSend, TakeStep
<1>7. CASE UNCHANGED <<client, outbox>>
  BY <1>1, <1>7, MessagesToSend, ClientFacts, TakeStep
<1>8. QED  BY <1>2, <1>4, <1>5, <1>6, <1>7 DEF CheckoutReceive

(* consumeMessages *)
LEMMA ConsumeStep ==
  ASSUME Inv, Consume
  PROVE  Inv' /\ ResultKept
<1>1. /\ UNCHANGED <<sock, link, toServer, toClient, serverVars, breaks>>
      /\ inbox # <<>> /\ inbox' = Tail(inbox)
  BY DEF Consume
<1>2. PICK m : m = Head(inbox)
  OBVIOUS
<1>3. <<>> \in Artifacts
  BY DEF Artifacts
<1>4. Send(CurrentState) \/ UNCHANGED outbox
  BY DEF Consume
<1>5. client' \in ClientType /\ client'.test \in Started \cup {Nobody}
  <2>1. TestForgotten \in ClientType /\ TestForgotten.test = Nobody
    BY <1>3, ClientFacts DEF ClientType, TestForgotten
  <2>2. PICK x : x = [client EXCEPT !.deploy = Nobody, !.artifacts = <<>>]
    OBVIOUS
  <2>3. x \in ClientType /\ x.test = client.test
    BY <1>3, <2>2, ClientFacts DEF ClientType
  <2>4. client' \in {TestForgotten, x, client}
    BY <2>2 DEF Consume
  <2>5. QED  BY <2>1, <2>3, <2>4, ClientFacts
<1>6. Inv'
  BY <1>1, <1>4, <1>5, MessagesToSend, TakeStep
<1>7. ResultKept
  <2> SUFFICES ASSUME client.test # Nobody, client'.test = Nobody
               PROVE  run[client.test].state \in {"ended", "canceled"}
    BY DEF ResultKept
  <2>1. m.type \in {"AcknowledgeFinishedTest", "CancelTest"} /\ m.id = client.test
    <3>1. [client EXCEPT !.deploy = Nobody, !.artifacts = <<>>].test = client.test
      BY ClientFacts DEF ClientType
    <3>2. QED  BY <1>2, <3>1 DEF Consume
  <2>2. m.id \in Over
    BY <1>1, <1>2, <2>1, TakenMessage
  <2>3. QED  BY <2>1, <2>2 DEF Over
<1>8. QED  BY <1>6, <1>7

(* recordArtifactUploaded *)
LEMMA UploadStep ==
  ASSUME Inv, UploadArtifact
  PROVE  Inv'
<1>1. /\ UNCHANGED <<sock, inbox, link, toServer, toClient, serverVars, breaks>>
      /\ client.test \in Started /\ client.tried < NArtifacts
  BY ClientFacts DEF UploadArtifact
<1>2. client.tried + 1 \in 1 .. NArtifacts /\ client.tried + 1 \in 0 .. NArtifacts
  BY <1>1, ClientFacts, WorkerAssumption
<1>3. PICK m : m = [type |-> "ArtifactUploaded", id |-> client.test, artifact |-> client.tried + 1]
  OBVIOUS
<1>4. m \in UpNow
  BY <1>1, <1>2, <1>3 DEF UpNow, Up
<1>5. Append(client.artifacts, client.tried + 1) \in Artifacts
  BY <1>2, ClientFacts, AppendProperties DEF Artifacts
<1>6. client' \in ClientType /\ client'.test = client.test
  <2>1. CASE client' = [client EXCEPT !.tried = @ + 1, !.artifacts = Append(@, client.tried + 1)]
    BY <1>2, <1>5, <2>1, ClientFacts DEF ClientType
  <2>2. CASE client' = [client EXCEPT !.tried = @ + 1]
    BY <1>2, <2>2, ClientFacts DEF ClientType
  <2>3. QED  BY <2>1, <2>2 DEF UploadArtifact
<1>7. Send(m) \/ UNCHANGED outbox
  BY <1>3 DEF UploadArtifact
<1>8. QED  BY <1>1, <1>4, <1>6, <1>7, ClientFacts, SendStep

(* publishTestResult *)
LEMMA PublishStep ==
  ASSUME Inv, PublishTestResult
  PROVE  Inv'
<1>1. /\ UNCHANGED <<sock, inbox, link, toServer, toClient, serverVars, breaks>>
      /\ client.test \in Started
  BY ClientFacts DEF PublishTestResult
<1>2. PICK success \in BOOLEAN :
        /\ client' = [client EXCEPT !.pc = "publishing",
                          !.result = IF success THEN "success" ELSE "failure"]
        /\ Send(Report("TestFinished", client.test, success, client.artifacts))
  <2>1. {client.artifacts = Expected, FALSE} \subseteq BOOLEAN
    OBVIOUS
  <2>2. QED  BY <2>1 DEF PublishTestResult
<1>3. client' \in ClientType /\ client'.test = client.test
  BY <1>2, ClientFacts DEF ClientType
<1>4. Report("TestFinished", client.test, success, client.artifacts) \in UpNow
  BY <1>1, ClientFacts DEF UpNow, Up, Report
<1>5. QED  BY <1>1, <1>2, <1>3, <1>4, ClientFacts, SendStep

(* The rest of the main loop. *)
LEMMA MainLoopSteps ==
  ASSUME Inv, Published \/ DeploymentExitedEarly \/ WorkerExits \/ WorkerRestarts
  PROVE  Inv'
<1>0. /\ IdleClient \in ClientType /\ IdleClient.test = Nobody
      /\ [IdleClient EXCEPT !.pc = "down"] \in ClientType
      /\ [IdleClient EXCEPT !.pc = "down"].test = Nobody
  <2>1. <<>> \in Artifacts /\ 0 \in 0 .. NArtifacts
    BY WorkerAssumption DEF Artifacts
  <2>2. QED  BY <2>1 DEF IdleClient, ClientType
<1>1. CASE Published
  <2>1. client' \in ClientType /\ client'.test = client.test
    BY <1>1, ClientFacts DEF Published, ClientType
  <2>2. QED  BY <1>1, <2>1, ClientFacts, MessagesToSend, SendStep DEF Published
<1>2. CASE DeploymentExitedEarly
  <2>1. client' \in ClientType /\ client'.test = client.test
    BY <1>2, ClientFacts DEF DeploymentExitedEarly, ClientType
  <2>2. QED  BY <1>2, <2>1, ClientFacts, MessagesToSend, SendStep DEF DeploymentExitedEarly
<1>3. CASE WorkerExits
  <2>1. /\ client' = [IdleClient EXCEPT !.pc = "down"]
        /\ sock' = Nobody /\ inbox' = <<>> /\ outbox' = <<>>
        /\ link' = [c \in Conns |-> IF c = sock /\ link[c] = "up" THEN "broken" ELSE link[c]]
        /\ UNCHANGED <<toServer, toClient, sess, run, deployment, activeRuns, breaks>>
    BY <1>3 DEF WorkerExits, serverVars
  <2>2. link' \in [Conns -> {"free", "up", "broken"}]
    BY <2>1, ClientFacts
  <2>3. <<>> \in Seq(UpNow) /\ <<>> \in Seq(DownNow)
    OBVIOUS
  <2>4. QED  BY <1>0, <2>1, <2>2, <2>3, ClientFacts, ClientStep
<1>4. CASE WorkerRestarts
  BY <1>0, <1>4, ClientFacts, MessagesToSend, SendStep DEF WorkerRestarts
<1>5. QED  BY <1>1, <1>2, <1>3, <1>4

(* Connections come, break and go. *)
LEMMA ConnectionSteps ==
  ASSUME Inv, NEW c \in Conns, Connect(c) \/ Break(c) \/ SessionEnds(c) \/ Forget(c)
  PROVE  Inv'
<1>0. /\ UNCHANGED <<inbox, outbox, run, deployment, activeRuns>>
      /\ Started' = Started /\ UpNow' = UpNow /\ DownNow' = DownNow /\ RunInv'
  <2>1. UNCHANGED <<inbox, outbox, run, deployment, activeRuns>>
    BY DEF Connect, Break, SessionEnds, Forget, clientVars, serverVars
  <2>2. QED  BY <2>1, RunsStay DEF Inv
<1>1. client' \in ClientType /\ client'.test = client.test /\ sock' \in Conns \cup {Nobody}
  BY ClientFacts DEF Connect, Break, SessionEnds, Forget, clientVars, ClientType
<1>2. /\ sess \in [Conns -> SessType] /\ NoSession \in SessType
      /\ [NoSession EXCEPT !.open = TRUE] \in SessType
      /\ deployment \in [Deploys -> {"none", "pending", "running", "dead"}]
      /\ breaks \in 0 .. MaxBreaks
  BY DEF Inv, ServerInv, SessType, NoSession
<1>3. sess' \in [Conns -> SessType]
  BY <1>2 DEF Connect, Break, SessionEnds, Forget, serverVars
<1>4. link' \in [Conns -> {"free", "up", "broken"}]
  BY ClientFacts DEF Connect, Break, SessionEnds, Forget
<1>5. breaks' \in 0 .. MaxBreaks
  BY <1>2, WorkerAssumption DEF Connect, Break, SessionEnds, Forget
<1>6. \A q \in Conns : toServer[q] \in Seq(UpNow) /\ toClient[q] \in Seq(DownNow)
  BY ClientFacts
<1>7. <<>> \in Seq(UpNow) /\ <<>> \in Seq(DownNow)
  OBVIOUS
<1>8. toServer' \in [Conns -> Seq(UpNow)] /\ toClient' \in [Conns -> Seq(DownNow)]
  <2>1. CASE Connect(c)
    <3>1. Msg("IdentifyCurrentState", Nobody) \in DownNow
      BY DEF DownNow, Down, Msg
    <3>2. <<Msg("IdentifyCurrentState", Nobody)>> \in Seq(DownNow)
      BY <3>1
    <3>3. QED  BY <2>1, <3>2, ClientFacts DEF Connect
  <2>2. CASE Break(c)
    <3>1. PICK i \in 0 .. Len(toServer[c]) :
            toServer' = [toServer EXCEPT ![c] = SubSeq(toServer[c], 1, i)]
      BY <2>2 DEF Break
    <3>2. PICK j \in 0 .. Len(toClient[c]) :
            toClient' = [toClient EXCEPT ![c] = SubSeq(toClient[c], 1, j)]
      BY <2>2 DEF Break
    <3>3. SubSeq(toServer[c], 1, i) \in Seq(UpNow) /\ SubSeq(toClient[c], 1, j) \in Seq(DownNow)
      BY <1>6, Queues
    <3>4. QED  BY <3>1, <3>2, <3>3, ClientFacts, Zenon
  <2>3. CASE SessionEnds(c)
    BY <1>7, <2>3, ClientFacts DEF SessionEnds
  <2>4. CASE Forget(c)
    BY <1>7, <2>4, ClientFacts DEF Forget
  <2>5. QED  BY <2>1, <2>2, <2>3, <2>4
<1>9. ClientInv'
  BY <1>0, <1>1, ClientFacts DEF ClientInv
<1>10. ServerInv'
  BY <1>0, <1>2, <1>3, <1>4, <1>5 DEF ServerInv
<1>11. QueueInv'
  BY <1>0, <1>8, ClientFacts DEF QueueInv
<1>12. QED  BY <1>0, <1>9, <1>10, <1>11 DEF Inv

------------------------------------------------------------------------------
(* Session.processMsg *)

(* A session's step: what is left to show of one that goes on. *)
LEMMA SessionStep ==
  ASSUME Inv, NEW c \in Conns, NEW m, Received(c, m), Goes(c),
         RunInv', RunsGoOn,
         sess' \in [Conns -> SessType],
         deployment' \in [Deploys -> {"none", "pending", "running", "dead"}],
         UNCHANGED toClient \/ \E x \in DownNow' : Reply(c, x)
  PROVE  Inv'
<1>1. /\ UNCHANGED <<client, sock, inbox, outbox, breaks, link>> /\ toServer[c] # <<>>
      /\ toServer' = [toServer EXCEPT ![c] = Tail(toServer[c])]
  BY DEF Received, Goes, clientVars
<1>2. /\ UpNow \subseteq UpNow' /\ DownNow \subseteq DownNow'
      /\ \A q \in Seq(UpNow) : q \in Seq(UpNow')
      /\ \A q \in Seq(DownNow) : q \in Seq(DownNow')
  BY MessagesStand
<1>3. \A q \in Conns : toServer[q] \in Seq(UpNow') /\ toClient[q] \in Seq(DownNow')
  BY <1>2, ClientFacts
<1>4. toServer \in [Conns -> Seq(UpNow')] /\ toClient \in [Conns -> Seq(DownNow')]
  BY <1>3, ClientFacts
<1>5. Tail(toServer[c]) \in Seq(UpNow')
  BY <1>1, <1>3, Queues
<1>6. toServer' \in [Conns -> Seq(UpNow')]
  BY <1>1, <1>4, <1>5, Zenon
<1>7. toClient' \in [Conns -> Seq(DownNow')]
  <2>1. CASE UNCHANGED toClient
    BY <1>4, <2>1
  <2>2. ASSUME NEW x \in DownNow', Reply(c, x)
        PROVE  toClient' \in [Conns -> Seq(DownNow')]
    <3>1. Append(toClient[c], x) \in Seq(DownNow')
      BY <1>3, Queues
    <3>2. (IF link[c] = "up" THEN Append(toClient[c], x) ELSE toClient[c]) \in Seq(DownNow')
      BY <1>3, <3>1
    <3>3. toClient' = [toClient EXCEPT ![c] = IF link[c] = "up" THEN Append(toClient[c], x)
                                              ELSE toClient[c]]
      BY <2>2 DEF Reply
    <3>4. QED  BY <1>4, <3>2, <3>3, Zenon
  <2>3. QED  BY <2>1, <2>2
<1>8. ClientInv'
  BY <1>1, ClientFacts DEF ClientInv, RunsGoOn
<1>9. ServerInv'
  BY <1>1 DEF Inv, ServerInv
<1>10. QueueInv'
  BY <1>1, <1>2, <1>6, <1>7, ClientFacts DEF QueueInv
<1>11. QED  BY <1>8, <1>9, <1>10 DEF Inv

(* One that raises. *)
LEMMA SessionFailsStep ==
  ASSUME Inv, NEW c \in Conns, NEW m, Received(c, m), SessionFails(c)
  PROVE  Inv'
<1>1. /\ UNCHANGED <<client, sock, inbox, outbox, breaks, toClient, run, deployment, activeRuns>>
      /\ sess' = [sess EXCEPT ![c] = NoSession] /\ link' = [link EXCEPT ![c] = "broken"]
      /\ toServer' = [toServer EXCEPT ![c] = <<>>]
  BY DEF Received, SessionFails, clientVars
<1>2. Started' = Started /\ UpNow' = UpNow /\ DownNow' = DownNow /\ RunInv'
  BY <1>1, RunsStay DEF Inv
<1>3. ClientInv'
  BY <1>1, <1>2, ClientFacts DEF ClientInv
<1>4. ServerInv'
  BY <1>1 DEF Inv, ServerInv, NoSession, SessType
<1>5. <<>> \in Seq(UpNow)
  OBVIOUS
<1>6. toServer' \in [Conns -> Seq(UpNow)]
  BY <1>1, <1>5, ClientFacts
<1>7. QueueInv'
  BY <1>1, <1>2, <1>6, ClientFacts DEF QueueInv
<1>8. QED  BY <1>2, <1>3, <1>4, <1>7 DEF Inv

(* What a session has read, and what it has of its own. *)
LEMMA ReadMessage ==
  ASSUME Inv, NEW c \in Conns, NEW m, Received(c, m)
  PROVE  /\ m.type \in {"TestHeartbeat", "ArtifactUploaded", "TestFinished",
                        "CurrentState/TestFinished", "CurrentState/WorkingOnTest"}
              => m.id \in Started /\ m.id \in Runs
         /\ m.type \in AboutDeploy \cup {"CurrentState/WorkingOnDeployment"} => m.id \in Deploys
         /\ m.type \in {"TestFinished", "CurrentState/TestFinished",
                        "CurrentState/WorkingOnTest"} => m.artifacts \in Artifacts
         /\ m.type = "ArtifactUploaded" => m.artifact \in 1 .. NArtifacts
         /\ sess \in [Conns -> SessType] /\ RunInv
         /\ deployment \in [Deploys -> {"none", "pending", "running", "dead"}]
<1>1. toServer[c] \in Seq(UpNow) /\ toServer[c] # <<>> /\ m = Head(toServer[c])
  BY ClientFacts DEF Received
<1>2. m \in Up(Started)
  BY <1>1, Queues DEF UpNow
<1>3. QED  BY <1>2, UpMeans DEF Inv, ServerInv, Started

(* Answers. *)
LEMMA Answers ==
  ASSUME NEW d
  PROVE  /\ d \in Deploys => /\ Msg("ShutdownDeployment", d) \in DownNow'
                             /\ Msg("DeploymentAssignment", d) \in DownNow'
         /\ d \in Started' => Msg("TestAssignment", d) \in DownNow'
         /\ d \in Over' => /\ Msg("AcknowledgeFinishedTest", d) \in DownNow'
                           /\ Msg("CancelTest", d) \in DownNow'
BY DEF DownNow, Down, Msg

(* A session learns something. *)
LEMMA SessionLearns ==
  ASSUME sess \in [Conns -> SessType], NEW c \in Conns
  PROVE  /\ [sess EXCEPT ![c].known = TRUE] \in [Conns -> SessType]
         /\ \A r \in Runs \cup {Nobody} :
              [sess EXCEPT ![c].test = r] \in [Conns -> SessType]
         /\ \A d \in Deploys \cup {Nobody} :
              [sess EXCEPT ![c].deploy = d] \in [Conns -> SessType]
BY DEF SessType

(* handleCurrentState of a worker that waits or has a deployment. *)
LEMMA CurrentStateSteps ==
  ASSUME Inv, NEW c \in Conns, NEW m,
         OnCurrentStateWaiting(c, m) \/ OnCurrentStateDeployment(c, m)
  PROVE  Inv'
<1>0. CASE SessionFails(c)
  BY <1>0, SessionFailsStep DEF OnCurrentStateWaiting, OnCurrentStateDeployment
<1> SUFFICES ASSUME ~SessionFails(c) PROVE Inv'
  BY <1>0
<1>1. Received(c, m) /\ Goes(c) /\ UNCHANGED <<run, deployment, activeRuns>>
  BY DEF OnCurrentStateWaiting, OnCurrentStateDeployment
<1>2. /\ RunInv' /\ RunsGoOn /\ sess \in [Conns -> SessType]
      /\ deployment' \in [Deploys -> {"none", "pending", "running", "dead"}]
  BY <1>1, ReadMessage, RunsStay
<1>3. CASE OnCurrentStateWaiting(c, m)
  BY <1>1, <1>2, <1>3, SessionLearns, SessionStep DEF OnCurrentStateWaiting
<1>4. CASE OnCurrentStateDeployment(c, m)
  <2>1. m.id \in Deploys
    BY <1>1, <1>4, ReadMessage DEF OnCurrentStateDeployment
  <2>2. CASE DeploymentRefused(m.id)
    <3>1. sess' \in [Conns -> SessType] /\ Reply(c, Msg("ShutdownDeployment", m.id))
      BY <1>2, <1>4, <2>2, SessionLearns DEF OnCurrentStateDeployment
    <3>2. Msg("ShutdownDeployment", m.id) \in DownNow'
      BY <2>1, Answers
    <3>3. \E x \in DownNow' : Reply(c, x)
      BY <3>1, <3>2
    <3>4. QED  BY <1>1, <1>2, <3>1, <3>3, SessionStep
  <2>3. CASE ~DeploymentRefused(m.id)
    <3>1. sess' = [sess EXCEPT ![c].known = TRUE, ![c].deploy = m.id] /\ UNCHANGED toClient
      BY <1>4, <2>3 DEF OnCurrentStateDeployment
    <3>2. sess' \in [Conns -> SessType]
      BY <1>2, <2>1, <3>1 DEF SessType
    <3>3. QED  BY <1>1, <1>2, <3>1, <3>2, SessionStep
  <2>4. QED  BY <2>2, <2>3
<1>5. QED  BY <1>3, <1>4

(* handleTestConnectionReinitialized: only a run that is over is canceled    *)
(* on the worker.                                                           *)
LEMMA WorkingStep ==
  ASSUME Inv, NEW c \in Conns, NEW m, OnCurrentStateWorking(c, m)
  PROVE  Inv'
<1>1. Received(c, m) /\ m.type = "CurrentState/WorkingOnTest"
  BY DEF OnCurrentStateWorking
<1>2. CASE SessionFails(c)
  BY <1>1, <1>2, SessionFailsStep
<1>3. CASE ~SessionFails(c)
  <2>1. PICK checked \in BOOLEAN :
          /\ Goes(c) /\ run' = WithArtifacts(m.id, m.artifacts) /\ UNCHANGED <<deployment, activeRuns>>
          /\ IF HeartbeatRefused(m.id, checked)
             THEN /\ sess' = [sess EXCEPT ![c].known = TRUE]
                  /\ Reply(c, Msg("CancelTest", m.id))
             ELSE /\ sess' = [sess EXCEPT ![c].known = TRUE, ![c].test = m.id]
                  /\ UNCHANGED toClient
    BY <1>3 DEF OnCurrentStateWorking
  <2>2. /\ m.id \in Started /\ m.id \in Runs /\ m.artifacts \in Artifacts
        /\ sess \in [Conns -> SessType] /\ RunInv
        /\ deployment' \in [Deploys -> {"none", "pending", "running", "dead"}]
    BY <1>1, <2>1, ReadMessage
  <2>3. RunInv' /\ RunsGoOn
    BY <2>1, <2>2, ArtifactsStep
  <2>4. CASE HeartbeatRefused(m.id, checked)
    <3>1. m.id \in Over
      BY <2>2, <2>4 DEF HeartbeatRefused, Over
    <3>2. m.id \in Over'
      BY <2>3, <3>1 DEF RunsGoOn
    <3>3. Msg("CancelTest", m.id) \in DownNow'
      BY <3>2, Answers
    <3>4. sess' \in [Conns -> SessType] /\ Reply(c, Msg("CancelTest", m.id))
      BY <2>1, <2>2, <2>4, SessionLearns
    <3>5. \E x \in DownNow' : Reply(c, x)
      BY <3>3, <3>4
    <3>6. QED  BY <1>1, <2>1, <2>2, <2>3, <3>4, <3>5, SessionStep
  <2>5. CASE ~HeartbeatRefused(m.id, checked)
    <3>1. sess' = [sess EXCEPT ![c].known = TRUE, ![c].test = m.id] /\ UNCHANGED toClient
      BY <2>1, <2>5
    <3>2. sess' \in [Conns -> SessType]
      BY <2>2, <3>1 DEF SessType
    <3>3. QED  BY <1>1, <2>1, <2>2, <2>3, <3>1, <3>2, SessionStep
  <2>6. QED  BY <2>4, <2>5
<1>4. QED  BY <1>2, <1>3

(* What is acknowledged has been recorded. *)
LEMMA FinishedStep ==
  ASSUME Inv, NEW c \in Conns, NEW m, OnTestFinished(c, m)
  PROVE  Inv'
<1>1. Received(c, m) /\ m.type \in {"TestFinished", "CurrentState/TestFinished"}
  BY DEF OnTestFinished
<1>2. CASE SessionFails(c)
  BY <1>1, <1>2, SessionFailsStep
<1>3. CASE ~SessionFails(c)
  <2>1. /\ Goes(c) /\ RecordTestResults(m.id, m.artifacts) /\ UNCHANGED deployment
        /\ sess' = IF m.type = "TestFinished" THEN [sess EXCEPT ![c].test = Nobody]
                                              ELSE [sess EXCEPT ![c].known = TRUE]
        /\ Reply(c, Msg("AcknowledgeFinishedTest", m.id))
    BY <1>3 DEF OnTestFinished
  <2>2. /\ m.id \in Started /\ m.artifacts \in Artifacts
        /\ sess \in [Conns -> SessType] /\ RunInv
        /\ deployment' \in [Deploys -> {"none", "pending", "running", "dead"}]
    BY <1>1, <2>1, ReadMessage
  <2>3. RunInv' /\ RunsGoOn /\ m.id \in Over'
    BY <2>1, <2>2, ResultsStep
  <2>4. sess' \in [Conns -> SessType]
    BY <2>1, <2>2, SessionLearns
  <2>5. Msg("AcknowledgeFinishedTest", m.id) \in DownNow'
    BY <2>3, Answers
  <2>6. QED  BY <1>1, <2>1, <2>2, <2>3, <2>4, <2>5, SessionStep
<1>4. QED  BY <1>2, <1>3

(* WaitingHeartbeat: work is assigned, or there is none. *)
LEMMA WaitingStep ==
  ASSUME Inv, NEW c \in Conns, NEW m, OnWaitingHeartbeat(c, m)
  PROVE  Inv'
<1>1. Received(c, m) /\ Goes(c)
  BY DEF OnWaitingHeartbeat
<1>2. /\ sess \in [Conns -> SessType] /\ RunInv
      /\ deployment \in [Deploys -> {"none", "pending", "running", "dead"}]
  BY <1>1, ReadMessage
<1>3. ASSUME NEW d \in PendingDeployments,
             deployment' = [deployment EXCEPT ![d] = "running"],
             sess' = [sess EXCEPT ![c].deploy = d],
             Reply(c, Msg("DeploymentAssignment", d)), UNCHANGED <<run, activeRuns>>
      PROVE  Inv'
  <2>1. d \in Deploys
    BY DEF PendingDeployments
  <2>2. sess' \in [Conns -> SessType] /\ Msg("DeploymentAssignment", d) \in DownNow'
    BY <1>2, <1>3, <2>1, SessionLearns, Answers
  <2>3. deployment' \in [Deploys -> {"none", "pending", "running", "dead"}]
    BY <1>2, <1>3
  <2>4. RunInv' /\ RunsGoOn
    BY <1>2, <1>3, RunsStay
  <2>5. QED  BY <1>1, <1>3, <2>2, <2>3, <2>4, SessionStep
<1>4. ASSUME NEW r \in Runs, StartNewTest(r), sess' = [sess EXCEPT ![c].test = r],
             Reply(c, Msg("TestAssignment", r)), UNCHANGED deployment
      PROVE  Inv'
  <2>1. RunInv' /\ RunsGoOn /\ r \in Started'
    BY <1>2, <1>4, StartNewTestStep
  <2>2. sess' \in [Conns -> SessType] /\ Msg("TestAssignment", r) \in DownNow'
    BY <1>2, <1>4, <2>1, SessionLearns, Answers
  <2>3. QED  BY <1>1, <1>2, <1>4, <2>1, <2>2, SessionStep
<1>5. CASE UNCHANGED <<sess, toClient, run, deployment, activeRuns>>
  <2>1. RunInv' /\ RunsGoOn
    BY <1>2, <1>5, RunsStay
  <2>2. QED  BY <1>1, <1>2, <1>5, <2>1, SessionStep
<1>6. QED  BY <1>3, <1>4, <1>5 DEF OnWaitingHeartbeat

(* recordTestArtifactUploaded, one artifact. *)
LEMMA UploadedStep ==
  ASSUME Inv, NEW c \in Conns, NEW m, OnArtifactUploaded(c, m)
  PROVE  Inv'
<1>1. Received(c, m) /\ m.type = "ArtifactUploaded"
  BY DEF OnArtifactUploaded
<1>2. /\ m.id \in Runs /\ m.artifact \in 1 .. NArtifacts
      /\ sess \in [Conns -> SessType] /\ RunInv
      /\ deployment \in [Deploys -> {"none", "pending", "running", "dead"}]
  BY <1>1, ReadMessage
<1>3. CASE SessionFails(c)
  BY <1>1, <1>3, SessionFailsStep
<1>4. CASE /\ Goes(c)
           /\ run' = WithArtifacts(m.id, Append(run[m.id].artifacts, m.artifact))
           /\ UNCHANGED <<sess, toClient, deployment, activeRuns>>
  <2>1. run[m.id].artifacts \in Artifacts
    BY <1>2 DEF RunInv, RunType
  <2>2. Append(run[m.id].artifacts, m.artifact) \in Artifacts
    BY <1>2, <2>1, AppendProperties DEF Artifacts
  <2>3. RunInv' /\ RunsGoOn
    BY <1>2, <1>4, <2>2, ArtifactsStep
  <2>4. QED  BY <1>1, <1>2, <1>4, <2>3, SessionStep
<1>5. CASE Goes(c) /\ UNCHANGED <<sess, toClient, run, deployment, activeRuns>>
  <2>1. RunInv' /\ RunsGoOn
    BY <1>2, <1>5, RunsStay
  <2>2. QED  BY <1>1, <1>2, <1>5, <2>1, SessionStep
<1>6. QED  BY <1>3, <1>4, <1>5 DEF OnArtifactUploaded

(* testHeartbeat: a worker is told to stop only when its run is over. *)
LEMMA TestHeartbeatStep ==
  ASSUME Inv, NEW c \in Conns, NEW m, OnTestHeartbeat(c, m)
  PROVE  Inv'
<1>1. /\ Received(c, m) /\ m.type = "TestHeartbeat" /\ Goes(c)
      /\ UNCHANGED <<run, deployment, activeRuns>>
  BY DEF OnTestHeartbeat
<1>2. /\ m.id \in Runs /\ sess \in [Conns -> SessType]
      /\ deployment' \in [Deploys -> {"none", "pending", "running", "dead"}]
      /\ RunInv' /\ RunsGoOn /\ Over' = Over
  BY <1>1, ReadMessage, RunsStay
<1>3. CASE UNCHANGED <<sess, toClient>>
  BY <1>1, <1>2, <1>3, SessionStep
<1>4. CASE ~UNCHANGED <<sess, toClient>>
  <2>1. /\ run[m.id].state = "canceled" /\ sess' = [sess EXCEPT ![c].test = Nobody]
        /\ Reply(c, Msg("CancelTest", m.id))
    BY <1>4 DEF OnTestHeartbeat, HeartbeatRefused
  <2>2. m.id \in Over'
    BY <1>2, <2>1 DEF Over
  <2>3. Msg("CancelTest", m.id) \in DownNow'
    BY <2>2, Answers
  <2>4. sess' \in [Conns -> SessType]
    BY <1>2, <2>1, SessionLearns
  <2>5. QED  BY <1>1, <1>2, <2>1, <2>3, <2>4, SessionStep
<1>5. QED  BY <1>3, <1>4

(* handleMessageFromDeployment *)
LEMMA DeploymentMessageStep ==
  ASSUME Inv, NEW c \in Conns, NEW m, OnDeploymentMessage(c, m)
  PROVE  Inv'
<1>1. /\ Received(c, m) /\ m.type \in AboutDeploy /\ Goes(c) /\ UNCHANGED <<run, activeRuns>>
  BY DEF OnDeploymentMessage, AboutDeploy
<1>2. /\ m.id \in Deploys /\ sess \in [Conns -> SessType]
      /\ deployment \in [Deploys -> {"none", "pending", "running", "dead"}]
      /\ RunInv' /\ RunsGoOn
  BY <1>1, ReadMessage, RunsStay
<1>3. CASE UNCHANGED <<deployment, sess, toClient>>
  BY <1>1, <1>2, <1>3, SessionStep
<1>4. CASE ~UNCHANGED <<deployment, sess, toClient>>
  <2>1. /\ deployment' = [deployment EXCEPT ![m.id] = "dead"]
        /\ sess' = [sess EXCEPT ![c].deploy = Nobody]
        /\ Reply(c, Msg("ShutdownDeployment", m.id))
    BY <1>4 DEF OnDeploymentMessage
  <2>2. Msg("ShutdownDeployment", m.id) \in DownNow'
    BY <1>2, Answers
  <2>3. sess' \in [Conns -> SessType]
    BY <1>2, <2>1, SessionLearns
  <2>4. deployment' \in [Deploys -> {"none", "pending", "running", "dead"}]
    BY <1>2, <2>1
  <2>5. QED  BY <1>1, <1>2, <2>1, <2>2, <2>3, <2>4, SessionStep
<1>5. QED  BY <1>3, <1>4

(* Session.processMsg *)
LEMMA ProcessStep ==
  ASSUME Inv, NEW c \in Conns, ProcessMsg(c)
  PROVE  Inv'
BY CurrentStateSteps, WorkingStep, FinishedStep, WaitingStep, UploadedStep, TestHeartbeatStep,
   DeploymentMessageStep DEF ProcessMsg

(* Users, and the sweep for runs that nobody works on. *)
LEMMA UserSteps ==
  ASSUME Inv,
         \/ \E r \in Runs : CancelTestRun(r)
         \/ \E d \in Deploys : CreateDeployment(d) \/ ShutdownDeployment(d)
  PROVE  Inv'
<1>1. UNCHANGED <<client, sock, inbox, outbox, link, toServer, toClient, sess, breaks>>
  BY DEF CancelTestRun, CreateDeployment, ShutdownDeployment, clientVars
<1>2. RunInv /\ deployment \in [Deploys -> {"none", "pending", "running", "dead"}]
  BY DEF Inv, ServerInv
<1>3. RunInv' /\ RunsGoOn
  <2>1. CASE \E r \in Runs : CancelTestRun(r)
    BY <1>2, <2>1, CancelStep DEF CancelTestRun
  <2>2. CASE \E d \in Deploys : CreateDeployment(d) \/ ShutdownDeployment(d)
    BY <1>2, <2>2, RunsStay DEF CreateDeployment, ShutdownDeployment
  <2>3. QED  BY <2>1, <2>2
<1>4. deployment' \in [Deploys -> {"none", "pending", "running", "dead"}]
  BY <1>2 DEF CancelTestRun, CreateDeployment, ShutdownDeployment
<1>5. /\ \A q \in Seq(UpNow) : q \in Seq(UpNow')
      /\ \A q \in Seq(DownNow) : q \in Seq(DownNow')
  BY <1>3, MessagesStand
<1>6. ClientInv'
  BY <1>1, <1>3, ClientFacts DEF ClientInv, RunsGoOn
<1>7. ServerInv'
  BY <1>1, <1>4 DEF Inv, ServerInv
<1>8. \A q \in Conns : toServer[q] \in Seq(UpNow') /\ toClient[q] \in Seq(DownNow')
  BY <1>5, ClientFacts
<1>9. QueueInv'
  BY <1>1, <1>5, <1>8, ClientFacts DEF QueueInv
<1>10. QED  BY <1>3, <1>6, <1>7, <1>9 DEF Inv

------------------------------------------------------------------------------
(* Nothing is wrong at first. *)
LEMMA InitHolds ==
  ASSUME Init
  PROVE  Inv
<1>1. <<>> \in Artifacts /\ 0 \in 0 .. NArtifacts /\ 0 \in 0 .. MaxBreaks
  BY WorkerAssumption DEF Artifacts
<1>2. <<>> \in Seq(UpNow) /\ <<>> \in Seq(DownNow)
  OBVIOUS
<1>3. ClientInv
  BY <1>1 DEF Init, ClientInv, IdleClient, ClientType
<1>4. ServerInv
  BY <1>1 DEF Init, ServerInv, NoSession, SessType
<1>5. RunInv
  <2>1. \A r \in Runs : run[r].state = "none" /\ run[r].counted = 0
    BY DEF Init
  <2>2. run \in [Runs -> RunType] /\ activeRuns = 0
    BY <1>1 DEF Init, RunType
  <2>3. 2 .. 0 = {}
    OBVIOUS
  <2>4. Running = {} /\ CountedAgain = {}
    BY <2>1, <2>3 DEF Running, CountedAgain
  <2>5. IsFiniteSet({}) /\ Cardinality({}) = 0
    BY FS_EmptySet
  <2>6. MiscountExplained
    BY <2>2, <2>4, <2>5 DEF MiscountExplained
  <2>7. QED  BY <2>1, <2>2, <2>4, <2>5, <2>6 DEF RunInv
<1>6. QueueInv
  BY <1>2 DEF Init, QueueInv
<1>7. QED  BY <1>3, <1>4, <1>5, <1>6 DEF Inv

(* Nothing goes wrong, and no step but consumeMessages makes a worker that   *)
(* has a result to report forget its test.                                  *)
LEMMA StepHolds ==
  ASSUME Inv, [Next]_vars
  PROVE  Inv' /\ (ResultKept \/ UNCHANGED vars)
<1>1. CASE Consume
  BY <1>1, ConsumeStep
<1>2. CASE UNCHANGED vars
  <2>1. /\ UNCHANGED <<sess, run, deployment, activeRuns, breaks>>
        /\ UNCHANGED <<client, sock, link, outbox, inbox, toServer, toClient>>
    BY <1>2 DEF vars
  <2>2. QED  BY <1>2, <2>1, ClientFacts, ClientStep
<1>3. CASE Client /\ ~Consume
  <2>1. Inv'
    BY <1>3, ThreadSteps, HeartbeatSteps, CheckoutStep, UploadStep, PublishStep, MainLoopSteps
    DEF Client
  <2>2. client.pc # "publishing" \/ client'.test = client.test
    <3>1. CASE Published
      BY <3>1, ClientFacts DEF Published, ClientType
    <3>2. CASE WorkerExits
      BY <3>2 DEF WorkerExits
    <3>3. CASE WorkerRestarts
      BY <3>3 DEF WorkerRestarts
    <3>4. CASE DeploymentExitedEarly
      BY <3>4, ClientFacts DEF DeploymentExitedEarly, ClientType
    <3>5. QED  BY <1>3, <3>1, <3>2, <3>3, <3>4
               DEF Client, ReadLoop, ReadFails, WriteLoop, SendWaiting, CheckoutReceive,
                   Heartbeat, UploadArtifact, PublishTestResult
  <2>3. QED  BY <2>1, <2>2 DEF ResultKept
<1>4. ASSUME NEW c \in Conns,
             Connect(c) \/ Break(c) \/ SessionEnds(c) \/ Forget(c) \/ ProcessMsg(c)
      PROVE  Inv' /\ ResultKept
  <2>1. Inv'
    BY <1>4, ConnectionSteps, ProcessStep
  <2>2. client'.test = client.test
    <3>1. CASE Connect(c)
      BY <3>1, ClientFacts DEF Connect, ClientType
    <3>2. CASE Break(c) \/ SessionEnds(c) \/ Forget(c)
      BY <3>2 DEF Break, SessionEnds, Forget, clientVars
    <3>3. CASE ProcessMsg(c)
      BY <3>3 DEF ProcessMsg, OnCurrentStateWaiting, OnCurrentStateDeployment,
                  OnCurrentStateWorking, OnTestFinished, OnWaitingHeartbeat, OnArtifactUploaded,
                  OnTestHeartbeat, OnDeploymentMessage, Received, clientVars
    <3>4. QED  BY <1>4, <3>1, <3>2, <3>3
  <2>3. QED  BY <2>1, <2>2 DEF ResultKept
<1>5. CASE \/ \E r \in Runs : CancelTestRun(r)
           \/ \E d \in Deploys : CreateDeployment(d) \/ ShutdownDeployment(d)
  <2>1. client' = client
    BY <1>5 DEF CancelTestRun, CreateDeployment, ShutdownDeployment, clientVars
  <2>2. QED  BY <1>5, <2>1, UserSteps DEF ResultKept
<1>6. QED  BY <1>1, <1>2, <1>3, <1>4, <1>5 DEF Next

(* Only a deployment becomes silent. *)
LEMMA SilentStep ==
  ASSUME Inv, silent \subseteq Deploys, [Next]_vars
  PROVE  silent' \subseteq Deploys
<1>1. CASE UNCHANGED vars
  BY <1>1 DEF vars
<1>2. CASE Client
  <2>1. UNCHANGED serverVars
    BY <1>2 DEF Client, ReadLoop, ReadFails, WriteLoop, SendWaiting, CheckoutReceive, Consume,
                Heartbeat, UploadArtifact, PublishTestResult, Published, DeploymentExitedEarly,
                WorkerExits, WorkerRestarts
  <2>2. QED  BY <2>1 DEF serverVars
<1>3. ASSUME NEW c \in Conns, NEW m, OnDeploymentMessage(c, m)
      PROVE  silent' \subseteq Deploys
  <2>1. m.id \in Deploys
    BY <1>3, ReadMessage DEF OnDeploymentMessage, AboutDeploy
  <2>2. silent' = silent \/ silent' = silent \cup {m.id}
    BY <1>3 DEF OnDeploymentMessage
  <2>3. QED  BY <2>1, <2>2
<1>4. ASSUME NEW c \in Conns,
             Connect(c) \/ Break(c) \/ SessionEnds(c) \/ Forget(c)
      PROVE  silent' = silent
  BY <1>4 DEF Connect, Break, SessionEnds, Forget, serverVars
<1>5. ASSUME NEW c \in Conns, ProcessMsg(c)
      PROVE  silent' \subseteq Deploys
  <2>1. PICK m : \/ OnCurrentStateWaiting(c, m) \/ OnCurrentStateDeployment(c, m)
                 \/ OnCurrentStateWorking(c, m) \/ OnTestFinished(c, m)
                 \/ OnWaitingHeartbeat(c, m) \/ OnArtifactUploaded(c, m)
                 \/ OnTestHeartbeat(c, m) \/ OnDeploymentMessage(c, m)
    BY <1>5 DEF ProcessMsg
  <2>2. CASE OnDeploymentMessage(c, m)
    BY <1>3, <2>2
  <2>3. CASE ~OnDeploymentMessage(c, m)
    BY <2>1, <2>3 DEF OnCurrentStateWaiting, OnCurrentStateDeployment, OnCurrentStateWorking,
                      OnTestFinished, OnWaitingHeartbeat, OnArtifactUploaded, OnTestHeartbeat,
                      SessionFails
  <2>4. QED  BY <2>2, <2>3
<1>6. CASE \/ \E r \in Runs : CancelTestRun(r)
           \/ \E d \in Deploys : CreateDeployment(d) \/ ShutdownDeployment(d)
  BY <1>6 DEF CancelTestRun, CreateDeployment, ShutdownDeployment
<1>7. QED  BY <1>1, <1>2, <1>4, <1>5, <1>6 DEF Next

(* The state part of NothingLost. *)
LEMMA InvImplies ==
  ASSUME Inv, silent \subseteq Deploys
  PROVE  TypeOK /\ MiscountExplained
BY DEF Inv, ClientInv, ServerInv, RunInv, ClientType, SessType, RunType, Artifacts, TypeOK

(* However many connections break and whatever they lose: a worker gives up  *)
(* the result of a test (publishTestResult returns) only when the server has *)
(* recorded it or canceled the run; and Test.activeRuns differs from the     *)
(* number of runs that are active by the results that recordTestResults      *)
(* counted again, and by nothing else.                                      *)
THEOREM NothingIsLost == Spec => NothingLost
<1>1. Init => Inv
  BY InitHolds
<1>2. Inv /\ [Next]_vars => Inv'
  BY StepHolds
<1>3. Inv /\ [Next]_vars => [ResultKept]_vars
  BY StepHolds
<1>4. Init => silent \subseteq Deploys
  BY DEF Init
<1>5. Inv /\ silent \subseteq Deploys /\ [Next]_vars => (silent \subseteq Deploys)'
  BY SilentStep
<1>6. Inv /\ silent \subseteq Deploys => TypeOK /\ MiscountExplained
  BY InvImplies
<1>7. QED  BY <1>1, <1>2, <1>3, <1>4, <1>5, <1>6, PTL DEF Spec, NothingLost
=============================================================================
