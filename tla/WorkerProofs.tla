----------------------------- MODULE WorkerProofs -----------------------------
(***************************************************************************)
(* Proofs about the parts of a worker and about the images it is booted      *)
(* from, for any constants:                                                  *)
(*   - AmiCreation: machines boot only from images that are good;            *)
(*   - GitRepoLocks: whoever pulls has a lock, and locks are limited;        *)
(*   - TestExecution: what is reported of a run is true.                     *)
(*                                                                         *)
(* That only one creator works on an image rests on a hypothesis:            *)
(* bootAmiCreator looks for creators under the ami that the configuration    *)
(* names and files them under `baseAmi or windows_ami`, so a configuration   *)
(* must name its ami, KeyOf[c] = c.                                          *)
(***************************************************************************)
EXTENDS AmiCreation, Sequences, FiniteSetTheorems, TLAPS

CreatorStates == {"none", "running", "stopped", "hung", "terminated"}
Objects == {"scripts", "success", "fail"}
ImageStates == {"none", "pending", "available"}

TypeInv ==
    /\ creator \in [Instances -> [key : Keys, state : CreatorStates]]
    /\ log \in [Keys -> SUBSET Objects]
    /\ img \in [Keys -> [state : ImageStates, tagged : BOOLEAN]]
    /\ available \subseteq Keys

Working(i) == creator[i].state \notin {"none", "terminated"}

(* Two creators at work are at work on different images. *)
Alone == \A i, j \in Instances :
    Working(i) /\ Working(j) /\ creator[i].key = creator[j].key => i = j

Inv == TypeInv /\ BootedFromGoodImages /\ Alone

------------------------------------------------------------------------------
(* A log only grows and an image that can be booted from stays: what is      *)
(* available is sound as long as the sets are not looked up again.           *)
LEMMA GoodStays ==
  ASSUME Inv, available' = available,
         \A k \in Keys : log[k] \subseteq log'[k] /\ (Usable(k) => Usable(k)')
  PROVE  BootedFromGoodImages'
BY DEF Inv, TypeInv, BootedFromGoodImages

(* Nobody starts to work: nobody who works gets company. *)
LEMMA AloneStays ==
  ASSUME Inv,
         \A i \in Instances : /\ creator'[i].key = creator[i].key
                              /\ Working(i)' => Working(i)
  PROVE  Alone'
BY DEF Inv, Alone

(* A creator changes its state. *)
LEMMA SetStep ==
  ASSUME Inv, NEW i \in Instances, NEW s \in CreatorStates, Set(i, s), Working(i)
  PROVE  /\ creator' \in [Instances -> [key : Keys, state : CreatorStates]]
         /\ Alone'
<1>1. creator \in [Instances -> [key : Keys, state : CreatorStates]]
  BY DEF Inv, TypeInv
<1>2. /\ creator' \in [Instances -> [key : Keys, state : CreatorStates]]
      /\ \A j \in Instances : /\ creator'[j].key = creator[j].key
                              /\ creator'[j].state = IF j = i THEN s ELSE creator[j].state
  BY <1>1 DEF Set
<1>3. \A j \in Instances : Working(j)' => Working(j)
  BY <1>2 DEF Working
<1>4. QED  BY <1>2, <1>3, AloneStays

(* listWindowsOsConfigs: what "Complete" means. *)
LEMMA CompleteIsGood ==
  ASSUME TypeInv, NEW k \in Keys, Status(k) = "Complete"
  PROVE  "success" \in log[k] /\ Usable(k)
<1>1. log[k] \subseteq {"scripts", "success", "fail"}
  BY DEF TypeInv, Objects
<1>2. CASE log[k] = {}
  BY <1>2 DEF Status
<1>3. CASE "success" \in log[k]
  BY <1>3 DEF Status
<1>4. CASE "success" \notin log[k] /\ "fail" \in log[k]
  BY <1>4 DEF Status
<1>5. CASE log[k] = {"scripts"}
  BY <1>5 DEF Status
<1>6. QED  BY <1>1, <1>2, <1>3, <1>4, <1>5

------------------------------------------------------------------------------
(* The initial state. *)
LEMMA InitHolds ==
  ASSUME Keys # {}, Init
  PROVE  Inv
<1>1. (CHOOSE k \in Keys : TRUE) \in Keys
  OBVIOUS
<1>2. TypeInv
  BY <1>1 DEF Init, TypeInv, CreatorStates, Objects, ImageStates
<1>3. BootedFromGoodImages /\ Alone
  BY DEF Init, BootedFromGoodImages, Alone, Working
<1>4. QED  BY <1>2, <1>3 DEF Inv

(* bootAmiCreator: nobody works on the image yet. *)
LEMMA EnsureStep ==
  ASSUME Inv, NEW c \in Configs, c \in Keys, KeyOf[c] = c, EnsureOsConfigAvailable(c)
  PROVE  Inv'
<1> USE DEF Inv
<1>1. /\ UNCHANGED <<img, available, invalid, crashes>>
      /\ \A k \in Keys : Usable(k)' = Usable(k)
  BY DEF EnsureOsConfigAvailable, Usable, Listed
<1>2. CASE UNCHANGED <<log, creator>>
  BY <1>1, <1>2 DEF TypeInv, BootedFromGoodImages, Alone, Working
<1>3. CASE ~UNCHANGED <<log, creator>>
  <2>1. PICK i \in Instances :
          /\ creator[i].state \in {"none", "terminated"}
          /\ creator' = [creator EXCEPT ![i] = [key |-> c, state |-> "running"]]
          /\ log' = [log EXCEPT ![c] = @ \cup {"scripts"}]
    BY <1>3 DEF EnsureOsConfigAvailable
  <2>2. CreatorsOf(c) = {}
    BY <1>3 DEF EnsureOsConfigAvailable
  <2>3. /\ creator' \in [Instances -> [key : Keys, state : CreatorStates]]
        /\ creator'[i].key = c
        /\ \A j \in Instances : j # i => creator'[j] = creator[j]
    BY <2>1 DEF TypeInv, CreatorStates
  <2>4. log' \in [Keys -> SUBSET Objects] /\ \A k \in Keys : log[k] \subseteq log'[k]
    BY <2>1 DEF TypeInv, Objects
  <2>5. \A j \in Instances : Working(j) => creator[j].key # c
    BY <2>2 DEF CreatorsOf, Working
  <2>6. Alone'
    BY <2>3, <2>5 DEF Alone, Working
  <2>7. BootedFromGoodImages'
    BY <1>1, <2>4, GoodStays
  <2>8. QED  BY <1>1, <2>3, <2>4, <2>6, <2>7 DEF TypeInv
<1>4. QED  BY <1>2, <1>3

(* gatherAmis: an image is made of a creator that has stopped. *)
LEMMA CreateImageStep ==
  ASSUME Inv, NEW k \in Keys, NEW i \in Instances, CreateImage(k, i)
  PROVE  Inv'
<1> USE DEF Inv
<1>1. /\ ~Listed(k) /\ creator[i].state = "stopped" /\ Working(i)
      /\ UNCHANGED <<log, available>>
  BY DEF CreateImage, osConfigs, Working
<1>2. PICK made \in ImageStates : \/ img' = [img EXCEPT ![k] = [state |-> made, tagged |-> TRUE]]
                                  \/ img' = [img EXCEPT ![k].state = made]
  <2>1. img[k].state \in ImageStates
    BY DEF TypeInv
  <2>2. PICK made : made = IF img[k].state = "none" THEN "pending" ELSE img[k].state
    OBVIOUS
  <2>3. made \in ImageStates
    BY <2>1, <2>2 DEF ImageStates
  <2>4. \/ img' = [img EXCEPT ![k] = [state |-> made, tagged |-> TRUE]]
        \/ img' = [img EXCEPT ![k].state = made]
    BY <2>2 DEF CreateImage
  <2>5. QED  BY <2>3, <2>4
<1>3. /\ img' \in [Keys -> [state : ImageStates, tagged : BOOLEAN]]
      /\ \A h \in Keys : h # k => img'[h] = img[h]
  <2>1. img \in [Keys -> [state : ImageStates, tagged : BOOLEAN]]
    BY DEF TypeInv
  <2>2. CASE img' = [img EXCEPT ![k] = [state |-> made, tagged |-> TRUE]]
    <3>1. [state |-> made, tagged |-> TRUE] \in [state : ImageStates, tagged : BOOLEAN]
      OBVIOUS
    <3>2. QED  BY <2>1, <2>2, <3>1, Zenon
  <2>3. CASE img' = [img EXCEPT ![k].state = made]
    <3>1. [img[k] EXCEPT !.state = made] \in [state : ImageStates, tagged : BOOLEAN]
      BY <2>1
    <3>2. QED  BY <2>1, <2>3, <3>1
  <2>4. QED  BY <1>2, <2>2, <2>3
<1>4. \A h \in Keys : Usable(h) => Usable(h)'
  BY <1>1, <1>3 DEF Usable, Listed
<1>5. BootedFromGoodImages'
  BY <1>1, <1>4, GoodStays
<1>6. creator' \in [Instances -> [key : Keys, state : CreatorStates]] /\ Alone'
  <2>1. CASE Set(i, "terminated")
    BY <1>1, <2>1, SetStep DEF CreatorStates
  <2>2. CASE UNCHANGED creator
    BY <2>2 DEF TypeInv, Alone, Working
  <2>3. QED  BY <2>1, <2>2 DEF CreateImage
<1>7. QED  BY <1>1, <1>3, <1>5, <1>6 DEF TypeInv

(* An image that was pending is available. *)
LEMMA SnapshotStep ==
  ASSUME Inv, NEW k \in Keys, SnapshotDone(k)
  PROVE  Inv'
<1>1. /\ UNCHANGED <<creator, log, available>> /\ img[k].state = "pending"
      /\ img' = [img EXCEPT ![k].state = "available"]
  BY DEF SnapshotDone, osConfigs
<1>2. /\ img' \in [Keys -> [state : ImageStates, tagged : BOOLEAN]]
      /\ \A h \in Keys : h # k => img'[h] = img[h]
  BY <1>1 DEF Inv, TypeInv, ImageStates
<1>3. \A h \in Keys : Usable(h) => Usable(h)'
  BY <1>1, <1>2 DEF Usable, Listed
<1>4. BootedFromGoodImages'
  BY <1>1, <1>3, GoodStays
<1>5. QED  BY <1>1, <1>2, <1>4 DEF Inv, TypeInv, Alone, Working

(* What else gatherAmis, the creators and the cloud do. *)
LEMMA OtherSteps ==
  ASSUME Inv, NEW i \in Instances,
         \/ \E k \in Keys : ImageAvailable(k, i) \/ ScriptFailed(k, i)
         \/ ScriptEnds(i) \/ CreatorHangs(i)
  PROVE  Inv'
<1> USE DEF Inv
<1>1. CASE \/ \E k \in Keys : ImageAvailable(k, i) \/ ScriptFailed(k, i)
           \/ CreatorHangs(i)
  <2>1. /\ Working(i) /\ UNCHANGED <<log, img, available>>
        /\ \E s \in CreatorStates : Set(i, s)
    BY <1>1 DEF ImageAvailable, ScriptFailed, CreatorHangs, osConfigs, Working, CreatorsOf,
                CreatorStates
  <2>2. creator' \in [Instances -> [key : Keys, state : CreatorStates]] /\ Alone'
    BY <2>1, SetStep
  <2>3. BootedFromGoodImages'
    BY <2>1 DEF BootedFromGoodImages, Usable, Listed
  <2>4. QED  BY <2>1, <2>2, <2>3 DEF TypeInv
<1>2. CASE ScriptEnds(i)
  <2>1. PICK out \in {"success", "fail"} :
          log' = [log EXCEPT ![creator[i].key] = @ \cup {out}]
    BY <1>2 DEF ScriptEnds
  <2>2. /\ Working(i) /\ UNCHANGED <<img, available>>
        /\ Set(i, "stopped") \/ UNCHANGED creator
    BY <1>2 DEF ScriptEnds, osConfigs, Working
  <2>3. log' \in [Keys -> SUBSET Objects] /\ \A h \in Keys : log[h] \subseteq log'[h]
    BY <2>1 DEF TypeInv, Objects
  <2>4. \A h \in Keys : Usable(h) => Usable(h)'
    BY <2>2 DEF Usable, Listed
  <2>5. BootedFromGoodImages'
    BY <2>2, <2>3, <2>4, GoodStays
  <2>6. creator' \in [Instances -> [key : Keys, state : CreatorStates]] /\ Alone'
    <3>1. CASE Set(i, "stopped")
      BY <2>2, <3>1, SetStep DEF CreatorStates
    <3>2. CASE UNCHANGED creator
      BY <3>2 DEF TypeInv, Alone, Working
    <3>3. QED  BY <2>2, <3>1, <3>2
  <2>7. QED  BY <2>2, <2>3, <2>5, <2>6 DEF TypeInv
<1>3. QED  BY <1>1, <1>2

(* Every step keeps the invariant. *)
LEMMA InvStep ==
  ASSUME Keys # {}, \A c \in Configs : c \in Keys /\ KeyOf[c] = c, Inv, [Next]_vars
  PROVE  Inv'
<1>1. CASE UNCHANGED vars
  BY <1>1 DEF vars, Inv, TypeInv, BootedFromGoodImages, Alone, Working, Usable, Listed
<1>2. CASE UpdateOsConfigsAvailable
  <2>1. /\ UNCHANGED <<creator, log, img>>
        /\ \A k \in Keys : Usable(k)' = Usable(k)
    BY <1>2 DEF UpdateOsConfigsAvailable, Usable, Listed
  <2>2. available' = {k \in Keys : Status(k) = "Complete"}
    BY <1>2 DEF UpdateOsConfigsAvailable
  <2>3. BootedFromGoodImages'
    BY <2>1, <2>2, CompleteIsGood DEF Inv, BootedFromGoodImages
  <2>4. QED  BY <2>1, <2>2, <2>3 DEF Inv, TypeInv, Alone, Working
<1>3. ASSUME NEW c \in Configs, EnsureOsConfigAvailable(c)
      PROVE  Inv'
  BY <1>3, EnsureStep
<1>4. ASSUME NEW k \in Keys, GatherAmis(k)
      PROVE  Inv'
  BY <1>4, CreateImageStep, OtherSteps DEF GatherAmis
<1>5. ASSUME NEW k \in Keys, SnapshotDone(k)
      PROVE  Inv'
  BY <1>5, SnapshotStep
<1>6. ASSUME NEW i \in Instances, ScriptEnds(i) \/ CreatorHangs(i)
      PROVE  Inv'
  BY <1>6, OtherSteps
<1>7. CASE \E k \in Keys, i \in Instances : TooLong(k, i)
  BY <1>1, <1>7 DEF TooLong
<1>8. QED  BY <1>1, <1>2, <1>3, <1>4, <1>5, <1>6, <1>7 DEF Next

(* Nobody has company: a set of creators has at most one element. *)
LEMMA AloneIsOne == Inv => OneCreator
<1> SUFFICES ASSUME Inv, NEW k \in Keys PROVE Cardinality(CreatorsOf(k)) <= 1
  BY DEF OneCreator
<1>1. \A i, j \in CreatorsOf(k) : i = j
  BY DEF Inv, Alone, CreatorsOf, Working
<1>2. CASE CreatorsOf(k) = {}
  <2>1. Cardinality({}) = 0
    BY FS_EmptySet
  <2>2. QED  BY <1>2, <2>1
<1>3. CASE CreatorsOf(k) # {}
  <2>1. PICK i : i \in CreatorsOf(k)
    BY <1>3
  <2>2. CreatorsOf(k) = {i}
    BY <1>1, <2>1
  <2>3. Cardinality({i}) = 1
    BY FS_Singleton
  <2>4. QED  BY <2>2, <2>3
<1>4. QED  BY <1>2, <1>3

------------------------------------------------------------------------------
(* Machines are only booted from images whose setup script succeeded, and    *)
(* however often the server asks for an image, forgets and looks again, at   *)
(* most one creator works on it, provided that configurations name their     *)
(* base ami (listWindowsOsConfigs, updateOsConfigsAvailable, bootAmiCreator, *)
(* gatherAmis).                                                              *)
THEOREM ImagesStaySound ==
  ASSUME Keys # {}, \A c \in Configs : c \in Keys /\ KeyOf[c] = c
  PROVE  Spec => []ImagesSound
<1>1. Init => Inv
  BY InitHolds
<1>2. Inv /\ [Next]_vars => Inv'
  BY InvStep
<1>3. Inv => ImagesSound
  BY AloneIsOne DEF Inv, ImagesSound
<1>4. QED  BY <1>1, <1>2, <1>3, PTL DEF Spec

(* A configuration that machines can be booted with stays one: looking up    *)
(* everything again, whatever creators and images have done since, finds the *)
(* log and the image that were found before (updateOsConfigsAvailable).      *)
THEOREM AvailableStays ==
  ASSUME Keys # {}, \A c \in Configs : c \in Keys /\ KeyOf[c] = c
  PROVE  Spec => [][available \subseteq available']_vars
<1>1. ASSUME Inv, UpdateOsConfigsAvailable
      PROVE  available \subseteq available'
  <2>1. \A k \in available : k \in Keys /\ Status(k) = "Complete"
    BY <1>1 DEF Inv, TypeInv, BootedFromGoodImages, Status
  <2>2. QED  BY <1>1, <2>1 DEF UpdateOsConfigsAvailable
<1>2. ASSUME Next, ~UpdateOsConfigsAvailable
      PROVE  available' = available
  BY <1>2 DEF Next, EnsureOsConfigAvailable, GatherAmis, ImageAvailable, CreateImage, ScriptFailed,
              SnapshotDone, TooLong, ScriptEnds, CreatorHangs, osConfigs, vars
<1>3. Inv /\ [Next]_vars => [available \subseteq available']_vars
  BY <1>1, <1>2
<1>4. Init => Inv
  BY InitHolds
<1>5. Inv /\ [Next]_vars => Inv'
  BY InvStep
<1>6. QED  BY <1>3, <1>4, <1>5, PTL DEF Spec

------------------------------------------------------------------------------
(***************************************************************************)
(* GitRepoLocks. A permission is a lock, an answer that allows, and a worker *)
(* that pulls: LocksInv relates them for the request that is current.        *)
(***************************************************************************)
(* Its constants and variables, and the module for them. *)
CONSTANTS Workers, Ids, MaxGitConnections, Pulls, MaxFaults
VARIABLES worker, over, lock, request, answer, faults
Locks == INSTANCE GitRepoLocks

Requests == [type : {"Request", "Completed"}, id : Ids \cup {0}]
Answers == [id : Ids \cup {0}, allowed : BOOLEAN]
LockTypes ==
    /\ worker \in [Workers -> [pc : {"idle", "asking", "denied", "pulling", "finished"},
                               req : Ids \cup {0}, left : Int]]
    /\ request \in [Workers -> Seq(Requests)]
    /\ answer \in [Workers -> Seq(Answers)]

(* At most one lock more than the limit: it is compared with >. *)
LocksLimited == IsFiniteSet(lock) /\ Cardinality(lock) <= MaxGitConnections + 1

(* What a lock goes with the messages, for the request of w that is current.  *)
Granted(w) ==
    /\ worker[w].pc = "pulling" => Locks!Has(lock, w, worker[w].req)
    /\ worker[w].pc = "asking" => \A i \in 1 .. Len(answer[w]) :
          answer[w][i].id = worker[w].req /\ answer[w][i].allowed
          => Locks!Has(lock, w, worker[w].req)
    /\ worker[w].pc \in {"asking", "pulling"} => \A i \in 1 .. Len(request[w]) :
          ~(request[w][i].type = "Completed" /\ request[w][i].id = worker[w].req)

LocksInv == LockTypes /\ LocksLimited /\ \A w \in Workers \ over : Granted(w)

(* An instance has a name of its own for what it takes from FiniteSets. *)
LEMMA SameCardinality == \A S : Locks!Cardinality(S) = Cardinality(S)
BY Zenon DEF Locks!Cardinality, Cardinality

(* The invariant holds at the start. *)
LEMMA LocksInit ==
  ASSUME MaxGitConnections \in Nat, Pulls \in Nat, Locks!Init
  PROVE  LocksInv
<1>1. LockTypes
  BY DEF Locks!Init, LockTypes
<1>2. LocksLimited
  BY FS_EmptySet DEF Locks!Init, LocksLimited
<1>3. \A w \in Workers : Granted(w)
  BY DEF Locks!Init, Granted
<1>4. QED  BY <1>1, <1>2, <1>3 DEF LocksInv

(* What is appended to a sequence, taken from its front, or cut off. *)
LEMMA Queues ==
  ASSUME NEW S, NEW s \in Seq(S)
  PROVE  /\ \A m \in S : /\ Append(s, m) \in Seq(S) /\ Len(Append(s, m)) = Len(s) + 1
                         /\ \A i \in 1 .. Len(s) : Append(s, m)[i] = s[i]
                         /\ Append(s, m)[Len(s) + 1] = m
         /\ s # <<>> => /\ Tail(s) \in Seq(S) /\ Len(s) >= 1 /\ Head(s) = s[1] /\ Head(s) \in S
                        /\ \A i \in 1 .. Len(Tail(s)) :
                              i + 1 \in 1 .. Len(s) /\ Tail(s)[i] = s[i + 1]
         /\ \A n \in 0 .. Len(s) :
               /\ SubSeq(s, 1, n) \in Seq(S) /\ Len(SubSeq(s, 1, n)) = n
               /\ \A i \in 1 .. n : i \in 1 .. Len(s) /\ SubSeq(s, 1, n)[i] = s[i]
<1>1. \A m \in S : /\ Append(s, m) \in Seq(S) /\ Len(Append(s, m)) = Len(s) + 1
                   /\ \A i \in 1 .. Len(s) : Append(s, m)[i] = s[i]
                   /\ Append(s, m)[Len(s) + 1] = m
  OBVIOUS
<1>2. s # <<>> => /\ Tail(s) \in Seq(S) /\ Len(s) >= 1 /\ Head(s) = s[1] /\ Head(s) \in S
                  /\ \A i \in 1 .. Len(Tail(s)) : i + 1 \in 1 .. Len(s) /\ Tail(s)[i] = s[i + 1]
  OBVIOUS
<1>3. \A n \in 0 .. Len(s) :
         /\ SubSeq(s, 1, n) \in Seq(S) /\ Len(SubSeq(s, 1, n)) = n
         /\ \A i \in 1 .. n : i \in 1 .. Len(s) /\ SubSeq(s, 1, n)[i] = s[i]
  OBVIOUS
<1>4. QED  BY <1>1, <1>2, <1>3

(* The other workers do not notice a step that leaves what is theirs. *)
LEMMA OthersGranted ==
  ASSUME NEW w, Granted(w), UNCHANGED <<worker[w], request[w], answer[w]>>,
         Locks!Has(lock, w, worker[w].req) => Locks!Has(lock', w, worker[w].req)
  PROVE  Granted(w)'
BY DEF Granted, Locks!Has

(* Locks of workers that are not over survive a cleanup. *)
LEMMA CleanedUpKeeps ==
  ASSUME LocksInv
  PROVE  /\ IsFiniteSet(Locks!CleanedUp)
         /\ Cardinality(Locks!CleanedUp) \in Nat
         /\ Cardinality(Locks!CleanedUp) <= Cardinality(lock)
         /\ \A w \in Workers \ over : \A id :
               Locks!Has(lock, w, id) => Locks!Has(Locks!CleanedUp, w, id)
<1>1. Locks!CleanedUp \subseteq lock
  BY DEF Locks!CleanedUp
<1>2. QED  BY <1>1, FS_Subset, FS_CardinalityType
           DEF LocksInv, LocksLimited, Locks!CleanedUp, Locks!Has

(* The steps of a worker. *)
LEMMA WorkStep ==
  ASSUME LocksInv, NEW w \in Workers, Locks!Work(w)
  PROVE  LocksInv'
<1>1. /\ worker \in [Workers -> [pc : {"idle", "asking", "denied", "pulling", "finished"},
                                 req : Ids \cup {0}, left : Int]]
      /\ request \in [Workers -> Seq(Requests)] /\ request[w] \in Seq(Requests)
      /\ answer \in [Workers -> Seq(Answers)] /\ answer[w] \in Seq(Answers)
      /\ LocksLimited /\ \A v \in Workers \ over : Granted(v)
  BY DEF LocksInv, LockTypes
<1>2. lock' = lock /\ over \subseteq over'
  BY DEF Locks!Work, Locks!RequestPermission, Locks!RequestAgain, Locks!Answered, Locks!Release,
         Locks!TestEnds, Locks!CanceledWhileAsking, Locks!Ask
<1>3. ASSUME LockTypes', w \notin over' => Granted(w)',
             \A v \in Workers : v # w => UNCHANGED <<worker[v], request[v], answer[v]>>
      PROVE  LocksInv'
  <2>1. LocksLimited'
    BY <1>1, <1>2 DEF LocksLimited
  <2>2. \A v \in Workers : v # w /\ v \notin over' => Granted(v)'
    BY <1>1, <1>2, <1>3, OthersGranted
  <2>3. QED  BY <1>3, <2>1, <2>2 DEF LocksInv
<1>4. CASE Locks!RequestPermission(w)
  <2>1. PICK id \in Ids :
          /\ worker' = [worker EXCEPT ![w].pc = "asking", ![w].req = id]
          /\ request' = [request EXCEPT ![w] = Append(@, [type |-> "Request", id |-> id])]
          /\ ~Locks!InUse(w, id) /\ answer' = answer
    BY <1>4 DEF Locks!RequestPermission, Locks!Unused, Locks!Ask
  <2>2. /\ \A i \in 1 .. Len(request[w]) : request[w][i].id # id
        /\ \A i \in 1 .. Len(answer[w]) : answer[w][i].id # id
    BY <1>1, <2>1 DEF Locks!InUse, Locks!Range
  <2>3. [type |-> "Request", id |-> id] \in Requests
    BY DEF Requests
  <2>4. /\ worker'[w].pc = "asking" /\ worker'[w].req = id
        /\ request'[w] = Append(request[w], [type |-> "Request", id |-> id])
        /\ answer'[w] = answer[w]
    BY <1>1, <2>1
  <2>5. Granted(w)'
    BY <1>1, <2>2, <2>3, <2>4, Queues DEF Granted
  <2>6. LockTypes'
    <3>1. worker' \in [Workers -> [pc : {"idle", "asking", "denied", "pulling", "finished"},
                                  req : Ids \cup {0}, left : Int]]
      BY <1>1, <2>1
    <3>2. Append(request[w], [type |-> "Request", id |-> id]) \in Seq(Requests)
      BY <1>1, <2>3, Queues
    <3>3. request' \in [Workers -> Seq(Requests)]
      BY <1>1, <2>1, <3>2
    <3>4. QED  BY <1>1, <2>1, <3>1, <3>3 DEF LockTypes
  <2>7. QED  BY <1>1, <1>3, <2>1, <2>5, <2>6
<1>5. CASE Locks!RequestAgain(w)
  <2>1. PICK m \in Requests : m = [type |-> "Request", id |-> worker[w].req]
    BY <1>1 DEF Requests
  <2>2. /\ request' = [request EXCEPT ![w] = Append(@, m)] /\ m.type = "Request"
        /\ worker' = worker /\ answer' = answer
    BY <1>5, <2>1 DEF Locks!RequestAgain, Locks!Ask
  <2>3. /\ request'[w] = Append(request[w], m) /\ worker'[w] = worker[w]
        /\ answer'[w] = answer[w]
    BY <1>1, <2>2
  <2>4. Granted(w) => Granted(w)'
    BY <1>1, <1>2, <2>2, <2>3, Queues DEF Granted, Locks!Has
  <2>5. LockTypes'
    BY <1>1, <2>2, Queues DEF LockTypes
  <2>6. QED  BY <1>1, <1>2, <1>3, <2>2, <2>4, <2>5
<1>6. CASE Locks!Answered(w)
  <2>1. PICK m : m = Head(answer[w])
    OBVIOUS
  <2>2. /\ answer[w] # <<>> /\ answer' = [answer EXCEPT ![w] = Tail(@)] /\ request' = request
        /\ worker' = IF worker[w].pc = "asking" /\ m.id = worker[w].req
                     THEN [worker EXCEPT ![w].pc = IF m.allowed THEN "pulling" ELSE "denied",
                                         ![w].req = IF m.allowed THEN @ ELSE 0]
                     ELSE worker
    BY <1>6, <2>1 DEF Locks!Answered
  <2>3. /\ answer'[w] = Tail(answer[w]) /\ request'[w] = request[w]
        /\ answer' \in [Workers -> Seq(Answers)]
        /\ m \in Answers /\ m = answer[w][1] /\ 1 \in 1 .. Len(answer[w])
        /\ \A i \in 1 .. Len(Tail(answer[w])) :
              i + 1 \in 1 .. Len(answer[w]) /\ Tail(answer[w])[i] = answer[w][i + 1]
    BY <1>1, <2>1, <2>2, Queues
  <2>4. CASE worker[w].pc = "asking" /\ m.id = worker[w].req
    <3>1. /\ worker'[w].pc = IF m.allowed THEN "pulling" ELSE "denied"
          /\ m.allowed => worker'[w].req = worker[w].req
          /\ worker' \in [Workers -> [pc : {"idle", "asking", "denied", "pulling", "finished"},
                                      req : Ids \cup {0}, left : Int]]
      <4>1. PICK p, r : /\ p = IF m.allowed THEN "pulling" ELSE "denied"
                        /\ r = IF m.allowed THEN worker[w].req ELSE 0
        OBVIOUS
      <4>2. worker' = [worker EXCEPT ![w] = [worker[w] EXCEPT !.pc = p, !.req = r]]
        BY <2>2, <2>4, <4>1
      <4>3. PICK v : v = [worker[w] EXCEPT !.pc = p, !.req = r]
        OBVIOUS
      <4>4. /\ v \in [pc : {"idle", "asking", "denied", "pulling", "finished"},
                      req : Ids \cup {0}, left : Int]
            /\ v.pc = p /\ v.req = r
        BY <1>1, <4>1, <4>3
      <4>5. QED  BY <1>1, <4>1, <4>2, <4>3, <4>4
    <3>2. Granted(w) => Granted(w)'
      BY <1>2, <2>3, <2>4, <3>1 DEF Granted, Locks!Has
    <3>3. LockTypes'
      BY <1>1, <2>2, <2>3, <3>1 DEF LockTypes
    <3>4. QED  BY <1>1, <1>2, <1>3, <2>2, <2>4, <3>2, <3>3
  <2>5. CASE ~(worker[w].pc = "asking" /\ m.id = worker[w].req)
    <3>1. worker' = worker
      BY <2>2, <2>5
    <3>2. Granted(w) => Granted(w)'
      BY <1>2, <2>3, <3>1 DEF Granted, Locks!Has
    <3>3. LockTypes'
      BY <1>1, <2>2, <2>3, <3>1 DEF LockTypes
    <3>4. QED  BY <1>1, <1>2, <1>3, <2>2, <3>1, <3>2, <3>3
  <2>6. QED  BY <2>4, <2>5
<1>7. CASE Locks!Release(w)
  <2>1. PICK m \in Requests : m = [type |-> "Completed", id |-> worker[w].req]
    BY <1>1 DEF Requests
  <2>2. /\ worker' = [worker EXCEPT ![w].pc = "idle", ![w].left = @ - 1, ![w].req = 0]
        /\ request' = [request EXCEPT ![w] = Append(@, m)] /\ answer' = answer
    BY <1>7, <2>1 DEF Locks!Release
  <2>3. worker'[w].pc = "idle"
    BY <1>1, <2>2
  <2>4. Granted(w)'
    BY <2>3 DEF Granted
  <2>5. LockTypes'
    BY <1>1, <2>2, Queues DEF LockTypes
  <2>6. QED  BY <1>1, <1>3, <2>2, <2>4, <2>5
<1>8. CASE Locks!TestEnds(w) \/ Locks!CanceledWhileAsking(w)
  <2>1. worker' = [worker EXCEPT ![w].pc = "finished"] /\ UNCHANGED <<request, answer>>
    BY <1>8 DEF Locks!TestEnds, Locks!CanceledWhileAsking
  <2>2. worker'[w].pc = "finished"
    BY <1>1, <2>1
  <2>3. Granted(w)'
    BY <2>2 DEF Granted
  <2>4. LockTypes'
    BY <1>1, <2>1 DEF LockTypes
  <2>5. QED  BY <1>1, <1>3, <2>1, <2>3, <2>4
<1>9. QED  BY <1>4, <1>5, <1>6, <1>7, <1>8 DEF Locks!Work

(* The server answers a request. *)
LEMMA AllocateStep ==
  ASSUME LocksInv, MaxGitConnections \in Nat, NEW w \in Workers, Locks!TryToAllocate(w)
  PROVE  LocksInv'
<1>1. /\ worker \in [Workers -> [pc : {"idle", "asking", "denied", "pulling", "finished"},
                                 req : Ids \cup {0}, left : Int]]
      /\ request \in [Workers -> Seq(Requests)] /\ request[w] \in Seq(Requests)
      /\ answer \in [Workers -> Seq(Answers)] /\ answer[w] \in Seq(Answers)
      /\ LocksLimited /\ \A v \in Workers \ over : Granted(v)
  BY DEF LocksInv, LockTypes
<1>2. PICK id : id = Head(request[w]).id
  OBVIOUS
<1> DEFINE allowed == Locks!Has(Locks!CleanedUp, w, id) \/ ~Locks!Full(Locks!CleanedUp, w)
<1>3. PICK m : m = [id |-> id, allowed |-> allowed]
  OBVIOUS
<1>4. /\ request[w] # <<>>
      /\ lock' = IF allowed THEN Locks!CleanedUp \cup {[req |-> id, worker |-> w]}
                 ELSE Locks!CleanedUp
      /\ answer' = [answer EXCEPT ![w] = Append(@, m)]
      /\ request' = [request EXCEPT ![w] = Tail(@)]
      /\ UNCHANGED <<worker, over>>
  BY <1>2, <1>3 DEF Locks!TryToAllocate
<1>5. id \in Ids \cup {0}
  <2>1. Head(request[w]) \in Requests
    BY <1>1, <1>4, Queues
  <2>2. QED  BY <1>2, <2>1 DEF Requests
<1>6. m \in Answers /\ m.id = id /\ m.allowed = allowed
  BY <1>3, <1>5 DEF Answers
<1>7. LocksLimited'
  <2>1. /\ IsFiniteSet(Locks!CleanedUp) /\ Cardinality(Locks!CleanedUp) \in Nat
        /\ Cardinality(Locks!CleanedUp) <= Cardinality(lock)
        /\ Cardinality(lock) <= MaxGitConnections + 1 /\ Cardinality(lock) \in Nat
    BY <1>1, CleanedUpKeeps, FS_CardinalityType DEF LocksLimited
  <2>2. PICK l : l = [req |-> id, worker |-> w]
    OBVIOUS
  <2>3. PICK C : C = Locks!CleanedUp
    OBVIOUS
  <2>4. /\ IsFiniteSet(C \cup {l})
        /\ Cardinality(C \cup {l}) = IF l \in C THEN Cardinality(C) ELSE Cardinality(C) + 1
    BY <2>1, <2>3, FS_AddElement
  <2>5. allowed => l \in C \/ Cardinality(C) <= MaxGitConnections
    BY <2>1, <2>2, <2>3, SameCardinality DEF Locks!Has, Locks!Full
  <2>6. lock' = IF allowed THEN C \cup {l} ELSE C
    BY <1>4, <2>2, <2>3
  <2> HIDE DEF allowed
  <2>7. QED  BY <2>1, <2>3, <2>4, <2>5, <2>6 DEF LocksLimited
<1>8. /\ allowed => Locks!Has(lock', w, id)
      /\ \A v \in Workers \ over : \A k : Locks!Has(lock, v, k) => Locks!Has(lock', v, k)
  BY <1>4, CleanedUpKeeps DEF Locks!Has
<1> HIDE DEF allowed
<1>9. LockTypes'
  BY <1>1, <1>4, <1>6, Queues DEF LockTypes
<1>10. ASSUME w \notin over  PROVE Granted(w)'
  <2>1. Granted(w) /\ worker'[w] = worker[w]
    BY <1>1, <1>4, <1>10
  <2>2. answer'[w] = Append(answer[w], m) /\ request'[w] = Tail(request[w])
    BY <1>1, <1>4
  <2>3. \A k : Locks!Has(lock, w, k) => Locks!Has(lock', w, k)
    BY <1>8, <1>10
  <2>4. worker'[w].pc = "pulling" => Locks!Has(lock', w, worker'[w].req)
    BY <2>1, <2>3 DEF Granted
  <2>5. worker'[w].pc = "asking" => \A i \in 1 .. Len(answer'[w]) :
          answer'[w][i].id = worker'[w].req /\ answer'[w][i].allowed
          => Locks!Has(lock', w, worker'[w].req)
    <3> SUFFICES ASSUME worker[w].pc = "asking", NEW i \in 1 .. Len(answer'[w]),
                        answer'[w][i].id = worker[w].req, answer'[w][i].allowed
                 PROVE  Locks!Has(lock', w, worker[w].req)
      BY <2>1
    <3>1. CASE i \in 1 .. Len(answer[w])
      BY <1>1, <1>6, <2>1, <2>2, <2>3, <3>1, Queues DEF Granted
    <3>2. CASE i = Len(answer[w]) + 1
      BY <1>1, <1>6, <1>8, <2>2, <3>2, Queues
    <3>3. QED  BY <1>1, <1>6, <2>2, <3>1, <3>2, Queues
  <2>6. worker'[w].pc \in {"asking", "pulling"} => \A i \in 1 .. Len(request'[w]) :
          ~(request'[w][i].type = "Completed" /\ request'[w][i].id = worker'[w].req)
    BY <1>1, <1>4, <2>1, <2>2, Queues DEF Granted
  <2>7. QED  BY <2>4, <2>5, <2>6 DEF Granted
<1>11. \A v \in Workers \ over : v # w => Granted(v)'
  BY <1>1, <1>4, <1>8, OthersGranted
<1>12. QED  BY <1>4, <1>7, <1>9, <1>10, <1>11 DEF LocksInv

(* The server hears that a pull is done; a connection breaks; a test is       *)
(* canceled.                                                                 *)
LEMMA ReleaseStep ==
  ASSUME LocksInv, MaxGitConnections \in Nat, NEW w \in Workers,
         Locks!GitRepoLockReleased(w) \/ Locks!Cancel(w) \/ Locks!Break(w)
  PROVE  LocksInv'
<1>1. /\ worker \in [Workers -> [pc : {"idle", "asking", "denied", "pulling", "finished"},
                                 req : Ids \cup {0}, left : Int]]
      /\ request \in [Workers -> Seq(Requests)] /\ request[w] \in Seq(Requests)
      /\ answer \in [Workers -> Seq(Answers)] /\ answer[w] \in Seq(Answers)
      /\ LocksLimited /\ \A v \in Workers \ over : Granted(v)
  BY DEF LocksInv, LockTypes
<1>2. CASE Locks!GitRepoLockReleased(w)
  <2>1. PICK id : id = Head(request[w]).id
    OBVIOUS
  <2>2. /\ request[w] # <<>> /\ request[w][1].type = "Completed" /\ request[w][1].id = id
        /\ lock' = {l \in lock : ~(l.worker = w /\ l.req = id)}
        /\ request' = [request EXCEPT ![w] = Tail(@)]
        /\ UNCHANGED <<worker, over, answer>>
    BY <1>1, <1>2, <2>1, Queues DEF Locks!GitRepoLockReleased
  <2>3. LocksLimited'
    <3>1. lock' \in SUBSET lock
      BY <2>2
    <3>2. Cardinality(lock) \in Nat /\ Cardinality(lock') \in Nat
          /\ IsFiniteSet(lock') /\ Cardinality(lock') <= Cardinality(lock)
      BY <1>1, <3>1, FS_Subset, FS_CardinalityType DEF LocksLimited
    <3>3. QED  BY <1>1, <3>2 DEF LocksLimited
  <2>4. LockTypes'
    BY <1>1, <2>2, Queues DEF LockTypes
  <2>5. \A v, k : Locks!Has(lock, v, k) /\ ~(v = w /\ k = id) => Locks!Has(lock', v, k)
    BY <2>2 DEF Locks!Has
  <2>6. \A v \in Workers \ over : v # w => Granted(v)'
    BY <1>1, <2>2, <2>5, OthersGranted
  <2>7. ASSUME w \notin over  PROVE Granted(w)'
    <3>1. Granted(w) /\ worker'[w] = worker[w] /\ answer'[w] = answer[w]
          /\ request'[w] = Tail(request[w])
      BY <1>1, <2>2, <2>7
    <3>2. worker[w].pc \in {"asking", "pulling"} => worker[w].req # id
      BY <1>1, <2>2, <3>1, Queues DEF Granted
    <3>3. worker[w].pc \in {"asking", "pulling"} =>
            (Locks!Has(lock, w, worker[w].req) => Locks!Has(lock', w, worker[w].req))
      BY <2>5, <3>2
    <3>4. worker[w].pc \in {"asking", "pulling"} => \A i \in 1 .. Len(request'[w]) :
            ~(request'[w][i].type = "Completed" /\ request'[w][i].id = worker[w].req)
      BY <1>1, <2>2, <3>1, Queues DEF Granted
    <3>5. QED  BY <3>1, <3>3, <3>4 DEF Granted
  <2>8. QED  BY <2>2, <2>3, <2>4, <2>6, <2>7 DEF LocksInv
<1>3. CASE Locks!Cancel(w)
  <2>1. over' = over \cup {w} /\ UNCHANGED <<worker, lock, request, answer>>
    BY <1>3 DEF Locks!Cancel
  <2>2. LockTypes' /\ LocksLimited'
    BY <1>1, <2>1 DEF LockTypes, LocksLimited
  <2>3. QED  BY <1>1, <2>1, <2>2, OthersGranted DEF LocksInv
<1>4. CASE Locks!Break(w)
  <2>1. PICK n \in 0 .. Len(request[w]) : request' = [request EXCEPT ![w] = SubSeq(@, 1, n)]
    BY <1>4 DEF Locks!Break
  <2>2. answer' = [answer EXCEPT ![w] = <<>>] /\ UNCHANGED <<worker, over, lock>>
    BY <1>4 DEF Locks!Break
  <2>3. LockTypes' /\ LocksLimited'
    BY <1>1, <2>1, <2>2, Queues DEF LockTypes, LocksLimited
  <2>4. request'[w] = SubSeq(request[w], 1, n) /\ answer'[w] = <<>> /\ worker'[w] = worker[w]
    BY <1>1, <2>1, <2>2
  <2>5. Granted(w) => Granted(w)'
    BY <1>1, <2>2, <2>4, Queues DEF Granted, Locks!Has
  <2>6. \A v \in Workers \ over : v # w => Granted(v)'
    BY <1>1, <2>1, <2>2, OthersGranted
  <2>7. QED  BY <1>1, <2>2, <2>3, <2>5, <2>6 DEF LocksInv
<1>5. QED  BY <1>2, <1>3, <1>4

(* Workers that pull have locks of their own. *)
LEMMA LocksSuffice ==
  ASSUME LocksInv, MaxGitConnections \in Nat
  PROVE  Locks!PullsHaveLocks
<1>1. PICK P : P = {w \in Workers \ over : worker[w].pc = "pulling"}
  OBVIOUS
<1>2. PICK f : f = [w \in P |-> [req |-> worker[w].req, worker |-> w]]
  OBVIOUS
<1>3. \A w \in P : f[w] \in lock /\ f[w].worker = w
  BY <1>1, <1>2 DEF LocksInv, Granted, Locks!Has
<1>4. f \in Injection(P, lock)
  BY <1>2, <1>3 DEF Injection, IsInjective
<1>5. IsFiniteSet(P) /\ Cardinality(P) <= Cardinality(lock)
  BY <1>4, FS_Injection DEF LocksInv, LocksLimited
<1>6. Cardinality(P) \in Nat /\ Cardinality(lock) \in Nat
  BY <1>5, FS_CardinalityType DEF LocksInv, LocksLimited
<1>7. Cardinality(P) <= MaxGitConnections + 1
  BY <1>5, <1>6 DEF LocksInv, LocksLimited
<1>8. QED  BY <1>1, <1>7, SameCardinality DEF LocksInv, Granted, Locks!PullsHaveLocks

(* For any number of workers, and whatever messages are lost or repeated and  *)
(* whatever tests are canceled: a worker that pulls has a lock unless its     *)
(* test was canceled, and the git server never sees more than one pull above  *)
(* the limit.                                                                *)
THEOREM PullsStayLocked ==
  ASSUME MaxGitConnections \in Nat, Pulls \in Nat
  PROVE  Locks!Spec => []Locks!PullsHaveLocks
<1>1. Locks!Init => LocksInv
  BY LocksInit
<1>2. LocksInv /\ [Locks!Next]_(Locks!vars) => LocksInv'
  <2> SUFFICES ASSUME LocksInv, [Locks!Next]_(Locks!vars)  PROVE LocksInv'
    OBVIOUS
  <2>1. CASE Locks!Next
    BY <2>1, WorkStep, AllocateStep, ReleaseStep DEF Locks!Next, Locks!Serve
  <2>2. CASE UNCHANGED Locks!vars
    BY <2>2 DEF Locks!vars, LocksInv, LockTypes, LocksLimited, Granted, Locks!Has
  <2>3. QED  BY <2>1, <2>2
<1>3. QED  BY <1>1, <1>2, LocksSuffice, PTL DEF Locks!Spec

------------------------------------------------------------------------------
(***************************************************************************)
(* TestExecution. RunInv says what a run has done when it is in a phase,     *)
(* FilesInv what is stored then, PullInv what its threads rely on.           *)
(***************************************************************************)
(* Its constants and variables, and the module for them; a crash of a worker   *)
(* is a kill here, and a run of it a test.                                  *)
CONSTANTS Deps, Source, Tarball, Stages, Kinds, Storages, Tries, Cores, MaxCached, MaxTests,
          MaxFailures, MaxKills
VARIABLES storage, kind, store, cache, phase, thread, tries, inputs, image, stage, art, ok, ran,
          recorded, result, runs, failures, kills
Execution == INSTANCE TestExecution WITH
    MaxRuns <- MaxTests, MaxCrashes <- MaxKills, crashes <- kills

FileStates == {"none", "partial", "whole"}
Names == Execution!Tarballs \cup {Execution!Key(a) : a \in Execution!Artifacts}

RunTypes ==
    /\ store \in [Names -> FileStates]
    /\ cache \in [Execution!Tarballs -> FileStates]
    /\ phase \in {"idle", "pull", "command", "upload", "uploading", "final", "terminal", "report"}
    /\ thread \in [Deps -> Execution!Active \cup {"waiting", "done", "error"}]
    /\ tries \in [Deps -> Nat]
    /\ inputs \in [Deps -> {"none", "whole"}]
    /\ image \in BOOLEAN /\ ok \in BOOLEAN
    /\ stage \in Nat /\ art \in Nat
    /\ recorded \subseteq Execution!Artifacts
    /\ failures \in Nat /\ kills \in Nat

(* The artifacts of the stages before s and the first ones of s are recorded. *)
Uploaded(s, a) ==
    \A i \in 1 .. Len(Stages) : \A j \in 1 .. Len(Stages[i]) :
        i < s \/ (i = s /\ j < a) => Stages[i][j] \in recorded

AllWhole == \A d \in Deps : inputs[d] = "whole"

(* What a success stands for. *)
Success ==
    \/ kind = "Build" /\ ran = {} /\ recorded = Execution!Artifacts
    \/ image /\ AllWhole /\ ran = 1 .. Len(Stages) /\ Execution!Artifacts \subseteq recorded

(* How far a run is, and what it has done up to there. *)
RunInv ==
    /\ result # <<>> => phase = "idle"
    /\ result = <<TRUE>> => Success
    /\ \A d \in Deps : thread[d] = "done" => inputs[d] = "whole"
    /\ phase = "pull" => ran = {} /\ stage = 1 /\ ok
    /\ phase \in {"command", "upload", "uploading"} =>
          image /\ AllWhole /\ stage \in 1 .. Len(Stages)
    /\ phase = "command" => ok /\ ran = 1 .. (stage - 1) /\ Uploaded(stage, 1)
    /\ phase \in {"upload", "uploading"} /\ ok => ran = 1 .. stage /\ Uploaded(stage, art)
    /\ phase = "uploading" => art \in 1 .. Len(Stages[stage])
    /\ phase \in {"upload", "uploading"} => art >= 1
    /\ phase \in {"final", "report"} /\ ok => Success

(* Stages of artifacts; what one of these is. *)
LEMMA ArtifactsAre ==
  ASSUME NEW N, Stages \in Seq(Seq(N))
  PROVE  \A a : a \in Execution!Artifacts <=>
           \E i \in 1 .. Len(Stages) : \E j \in 1 .. Len(Stages[i]) : a = Stages[i][j]
BY DEF Execution!Artifacts

(* The artifact that is being uploaded is one. *)
LEMMA ArtifactIs ==
  ASSUME NEW N, Stages \in Seq(Seq(N)), RunTypes, RunInv,
         Execution!Upload \/ Execution!UploadDone
  PROVE  /\ Execution!Artifact \in Execution!Artifacts
         /\ stage \in 1 .. Len(Stages) /\ art \in 1 .. Len(Stages[stage])
         /\ Execution!Artifact = Stages[stage][art]
<1>1. phase = "uploading" \/ (phase = "upload" /\ art <= Len(Stages[stage]))
  BY DEF Execution!Upload, Execution!UploadDone
<1>2. stage \in 1 .. Len(Stages) /\ art \in Nat
  BY <1>1 DEF RunInv, RunTypes
<1>3. Len(Stages[stage]) \in Nat
  BY <1>2
<1>4. art \in 1 .. Len(Stages[stage])
  BY <1>1, <1>2, <1>3 DEF RunInv
<1>5. Execution!Artifact = Stages[stage][art]
  BY DEF Execution!Artifact
<1>6. QED  BY <1>2, <1>4, <1>5, ArtifactsAre

(* The parts have their types. *)
LEMMA RunTypesStep ==
  ASSUME NEW N, Stages \in Seq(Seq(N)), RunTypes, RunInv, Execution!Next
  PROVE  RunTypes'
<1> USE DEF FileStates
<1>0. /\ store \in [Names -> FileStates]
      /\ cache \in [Execution!Tarballs -> FileStates]
      /\ thread \in [Deps -> Execution!Active \cup {"waiting", "done", "error"}]
      /\ tries \in [Deps -> Nat]
      /\ inputs \in [Deps -> {"none", "whole"}]
      /\ \A d \in Deps : Tarball[d] \in Execution!Tarballs /\ Tarball[d] \in Names
      /\ \A a \in Execution!Artifacts : Execution!Key(a) \in Names
  BY DEF RunTypes, Names, Execution!Tarballs
<1>1. CASE Execution!StartRun
  <2>1. cache' \in [Execution!Tarballs -> FileStates]
    <3>1. PICK keep :
            cache' = [t \in Execution!Tarballs |-> IF t \in keep THEN cache[t] ELSE "none"]
      BY <1>1 DEF Execution!StartRun, Execution!Purged
    <3>2. QED  BY <1>0, <3>1
  <2>2. QED  BY <1>1, <2>1 DEF Execution!StartRun, RunTypes, Execution!Active
<1>2. ASSUME NEW d \in Deps,
             \/ Execution!StartThread(d) \/ Execution!Look(d) \/ Execution!Download(d)
             \/ Execution!CopyDone(d) \/ Execution!Unpack(d) \/ Execution!Make(d)
             \/ Execution!Made(d) \/ Execution!PullFails(d)
      PROVE  RunTypes'
  <2>1. /\ thread' \in [Deps -> Execution!Active \cup {"waiting", "done", "error"}]
        /\ tries' \in [Deps -> Nat]
    <3>1. \/ Execution!Retry(d)
          \/ /\ \E to \in {"look", "download", "copy", "unpack", "make", "making", "done", "error"} :
                    Execution!Go(d, to)
             /\ tries' = tries
      BY <1>2 DEF Execution!StartThread, Execution!Look, Execution!Download, Execution!CopyDone,
           Execution!Unpack, Execution!Make, Execution!Made, Execution!PullFails
    <3>2. CASE Execution!Retry(d)
      <4>1. PICK to \in {"error", "look"} : to = IF tries[d] + 1 = Tries THEN "error" ELSE "look"
        OBVIOUS
      <4>2. /\ tries' = [tries EXCEPT ![d] = tries[d] + 1]
            /\ thread' = [thread EXCEPT ![d] = to]
        BY <3>2, <4>1 DEF Execution!Retry, Execution!Go
      <4>3. tries[d] + 1 \in Nat
        BY <1>0
      <4>4. QED  BY <1>0, <4>2, <4>3 DEF Execution!Active
    <3>3. QED  BY <1>0, <3>1, <3>2 DEF Execution!Go, Execution!Active
  <2>2. /\ cache' \in [Execution!Tarballs -> FileStates]
        /\ inputs' \in [Deps -> {"none", "whole"}]
    BY <1>0, <1>2 DEF Execution!StartThread, Execution!Look, Execution!Download, Execution!CopyDone,
         Execution!Unpack, Execution!Make, Execution!Made, Execution!PullFails,
         Execution!SetCache, Execution!files, Execution!pulling
  <2>3. store' \in [Names -> FileStates] /\ failures' \in Nat /\ kills' = kills
    BY <1>0, <1>2 DEF Execution!StartThread, Execution!Look, Execution!Download, Execution!CopyDone,
         Execution!Unpack, Execution!Make, Execution!Made, Execution!PullFails, Execution!Fails,
         Execution!files, Execution!counts, RunTypes
  <2>4. UNCHANGED <<phase, image, stage, art, ok, recorded>>
    BY <1>2 DEF Execution!StartThread, Execution!Look, Execution!Download, Execution!CopyDone,
         Execution!Unpack, Execution!Make, Execution!Made, Execution!PullFails, Execution!staging
  <2>5. QED  BY <2>1, <2>2, <2>3, <2>4 DEF RunTypes
<1>3. CASE Execution!Pulled \/ Execution!RunCommand \/ Execution!StageEnds \/ Execution!Final
           \/ Execution!Terminal \/ Execution!Report \/ Execution!Crash
  <2>1. UNCHANGED <<store, cache, thread, tries, inputs, image, recorded, failures>>
    BY <1>3 DEF Execution!Pulled, Execution!RunCommand, Execution!StageEnds, Execution!Final,
         Execution!Terminal, Execution!Report, Execution!Crash, Execution!files,
         Execution!pulling, Execution!staging, Execution!counts
  <2>2. /\ phase' \in {"idle", "command", "upload", "final", "terminal", "report"}
        /\ ok' \in BOOLEAN
    BY <1>3 DEF Execution!Pulled, Execution!RunCommand, Execution!StageEnds, Execution!Final,
         Execution!Terminal, Execution!Report, Execution!Crash, Execution!staging, RunTypes
  <2>3. stage' \in Nat /\ art' \in Nat /\ kills' \in Nat
    BY <1>3 DEF Execution!Pulled, Execution!RunCommand, Execution!StageEnds, Execution!Final,
         Execution!Terminal, Execution!Report, Execution!Crash, Execution!staging,
         Execution!counts, RunTypes
  <2>4. QED  BY <2>1, <2>2, <2>3 DEF RunTypes
<1>4. CASE Execution!Upload \/ Execution!UploadDone
  <2>1. Execution!Artifact \in Execution!Artifacts
    BY <1>4, ArtifactIs
  <2>2. store' \in [Names -> FileStates]
    BY <1>0, <1>4, <2>1 DEF Execution!Upload, Execution!UploadDone
  <2>3. ASSUME NEW good \in BOOLEAN, Execution!UploadEnds(good)
        PROVE  recorded' \subseteq Execution!Artifacts /\ ok' \in BOOLEAN /\ art' \in Nat
    BY <2>1, <2>3 DEF Execution!UploadEnds, RunTypes
  <2>5. \/ UNCHANGED <<recorded, ok, art>>
        \/ Execution!UploadEnds(TRUE) \/ Execution!UploadEnds(FALSE)
    BY <1>4 DEF Execution!Upload, Execution!UploadDone
  <2>6. recorded' \subseteq Execution!Artifacts /\ ok' \in BOOLEAN /\ art' \in Nat
    BY <2>3, <2>5 DEF RunTypes
  <2>4. /\ UNCHANGED <<cache, thread, tries, inputs, image, stage, kills>>
        /\ failures' \in Nat /\ phase' \in {phase, "upload", "uploading"}
    BY <1>4 DEF Execution!Upload, Execution!UploadDone, Execution!UploadEnds, Execution!Fails,
         Execution!pulling, RunTypes
  <2>7. QED  BY <2>2, <2>4, <2>6 DEF RunTypes
<1>5. CASE Execution!ClearBuild \/ \E t \in Execution!Tarballs : Execution!OtherUpload(t)
  <2>1. store' \in [Names -> FileStates]
    BY <1>0, <1>5 DEF Execution!ClearBuild, Execution!OtherUpload
  <2>2. /\ UNCHANGED <<cache, phase, thread, tries, inputs, image, ok, stage, art, kills>>
        /\ recorded' \in {{}, recorded} /\ failures' \in Nat
    BY <1>5 DEF Execution!ClearBuild, Execution!OtherUpload, Execution!Fails, Execution!pulling,
         Execution!staging, Execution!counts, RunTypes
  <2>3. QED  BY <2>1, <2>2 DEF RunTypes
<1>6. QED  BY <1>1, <1>2, <1>3, <1>4, <1>5 DEF Execution!Next, Execution!Threads, Execution!Main

(* A thread leaves the run where it is, and is done when it has its input. *)
LEMMA ThreadMoves ==
  ASSUME RunTypes, RunInv, NEW d \in Deps,
         \/ Execution!StartThread(d) \/ Execution!Look(d) \/ Execution!Download(d)
         \/ Execution!CopyDone(d) \/ Execution!Unpack(d) \/ Execution!Make(d)
         \/ Execution!Made(d) \/ Execution!PullFails(d)
  PROVE  RunInv'
<1>1. /\ phase = "pull" /\ UNCHANGED <<phase, kind, image, stage, art, ok, ran, recorded, result>>
  BY DEF Execution!StartThread, Execution!Look, Execution!Download, Execution!CopyDone,
         Execution!Unpack, Execution!Make, Execution!Made, Execution!PullFails, Execution!staging,
         Execution!config
<1>2. /\ thread \in [Deps -> Execution!Active \cup {"waiting", "done", "error"}]
      /\ inputs \in [Deps -> {"none", "whole"}]
  BY DEF RunTypes
<1>3. \A x \in Deps : thread'[x] = "done" => inputs'[x] = "whole"
  <2>1. CASE Execution!Unpack(d) \/ Execution!Made(d)
    <3>1. \/ /\ thread' = [thread EXCEPT ![d] = "done"]
             /\ inputs' = [inputs EXCEPT ![d] = "whole"]
          \/ Execution!Retry(d) /\ inputs' = inputs
      BY <2>1 DEF Execution!Unpack, Execution!Made, Execution!Go
    <3>2. QED  BY <1>2, <3>1 DEF Execution!Retry, Execution!Go, RunInv
  <2>2. CASE ~(Execution!Unpack(d) \/ Execution!Made(d))
    <3>1. inputs' = inputs
      BY <2>2 DEF Execution!StartThread, Execution!Look, Execution!Download, Execution!CopyDone,
           Execution!Make, Execution!PullFails
    <3>2. \E to \in {"look", "download", "copy", "unpack", "make", "making", "error"} :
            thread' = [thread EXCEPT ![d] = to]
      BY <2>2 DEF Execution!StartThread, Execution!Look, Execution!Download, Execution!CopyDone,
           Execution!Make, Execution!PullFails, Execution!Retry, Execution!Go
    <3>3. QED  BY <1>2, <3>1, <3>2 DEF RunInv
  <2>3. QED  BY <2>1, <2>2
<1>4. result = <<>>
  BY <1>1 DEF RunInv
<1>5. QED  BY <1>1, <1>3, <1>4 DEF RunInv

(* All threads have ended. *)
LEMMA PulledMoves ==
  ASSUME RunTypes, RunInv, NEW N, Stages \in Seq(Seq(N)), Execution!Pulled
  PROVE  RunInv'
<1> DEFINE good == \A d \in Deps : thread[d] = "done"
<1>1. /\ phase = "pull" /\ ok' = (good /\ image)
      /\ phase' \in {"report", "terminal", "command", "final"}
      /\ phase' = "command" => good /\ image /\ Stages # <<>>
      /\ phase' = "final" => good /\ (image => Stages = <<>>)
      /\ phase' = "report" => ~(good /\ image)
      /\ UNCHANGED <<kind, thread, inputs, image, stage, art, ran, recorded, result>>
  BY DEF Execution!Pulled, Execution!config, Execution!pulling
<1>2. good => AllWhole'
  BY <1>1 DEF RunInv, AllWhole
<1>3. result = <<>> /\ ran = {} /\ stage = 1
  BY <1>1 DEF RunInv
<1>4. Stages # <<>> => 1 \in 1 .. Len(Stages)
  OBVIOUS
<1>5. (phase' \in {"final", "report"} /\ ok') => Success'
  <2> SUFFICES ASSUME phase' \in {"final", "report"}, ok'  PROVE Success'
    OBVIOUS
  <2>1. good /\ image /\ Stages = <<>>
    BY <1>1
  <2>2. Execution!Artifacts = {} /\ 1 .. Len(Stages) = {}
    BY <2>1, ArtifactsAre
  <2>3. QED  BY <1>1, <1>2, <1>3, <2>1, <2>2 DEF Success
<1>6. phase' = "command" => ok' /\ ran' = 1 .. (stage' - 1) /\ Uploaded(stage, 1)'
  <2>1. 1 .. (1 - 1) = {} /\ stage' = 1 /\ ran' = {}
    BY <1>1, <1>3
  <2>2. Uploaded(stage, 1)'
    <3>1. \A i \in 1 .. Len(Stages) : \A j \in 1 .. Len(Stages[i]) : ~(i < 1 \/ (i = 1 /\ j < 1))
      OBVIOUS
    <3>2. QED  BY <2>1, <3>1 DEF Uploaded
  <2>3. QED  BY <1>1, <2>1, <2>2
<1>7. phase' = "command" => image' /\ AllWhole' /\ stage' \in 1 .. Len(Stages)
  BY <1>1, <1>2, <1>3, <1>4
<1> HIDE DEF good
<1>8. QED  BY <1>1, <1>3, <1>5, <1>6, <1>7 DEF RunInv

(* A stage: its command, its uploads and its end. *)
LEMMA StageMoves ==
  ASSUME RunTypes, RunInv, NEW N, Stages \in Seq(Seq(N)),
         Execution!RunCommand \/ Execution!Upload \/ Execution!UploadDone \/ Execution!StageEnds
  PROVE  RunInv'
<1>1. /\ phase \in {"command", "upload", "uploading"}
      /\ UNCHANGED <<kind, thread, inputs, image, result>>
  BY DEF Execution!RunCommand, Execution!Upload, Execution!UploadDone, Execution!StageEnds,
         Execution!config, Execution!pulling
<1>2. /\ result = <<>> /\ image /\ AllWhole /\ AllWhole' /\ stage \in 1 .. Len(Stages)
      /\ \A d \in Deps : thread[d] = "done" => inputs[d] = "whole"
      /\ stage \in Nat /\ art \in Nat /\ ok \in BOOLEAN
  BY <1>1 DEF RunInv, RunTypes, AllWhole
<1>3. CASE Execution!RunCommand
  <2>1. PICK good \in BOOLEAN :
          /\ ok' = good /\ ran' = (IF good THEN ran \cup {stage} ELSE ran)
          /\ phase' = IF good \/ kind = "Test" THEN "upload" ELSE "final"
    BY <1>3 DEF Execution!RunCommand
  <2>2. phase = "command" /\ art' = 1 /\ UNCHANGED <<stage, recorded>>
    BY <1>3 DEF Execution!RunCommand
  <2>3. ran = 1 .. (stage - 1) /\ Uploaded(stage, 1)
    BY <2>2 DEF RunInv
  <2>4. good => ran' = 1 .. stage /\ Uploaded(stage, art)'
    BY <1>2, <2>1, <2>2, <2>3 DEF Uploaded
  <2>5. QED  BY <1>1, <1>2, <2>1, <2>2, <2>4 DEF RunInv
<1>4. CASE Execution!Upload \/ Execution!UploadDone
  <2>1. /\ art \in 1 .. Len(Stages[stage]) /\ Execution!Artifact = Stages[stage][art]
    BY <1>4, ArtifactIs
  <2>2. /\ phase \in {"upload", "uploading"} /\ UNCHANGED <<stage, ran>>
    BY <1>4 DEF Execution!Upload, Execution!UploadDone
  <2>3. \/ phase' = "uploading" /\ UNCHANGED <<ok, recorded, art>>
        \/ phase' = "upload" /\ (Execution!UploadEnds(TRUE) \/ Execution!UploadEnds(FALSE))
    BY <1>4 DEF Execution!Upload, Execution!UploadDone
  <2>4. CASE phase' = "uploading" /\ UNCHANGED <<ok, recorded, art>>
    BY <1>1, <1>2, <2>1, <2>2, <2>4 DEF RunInv, Uploaded
  <2>5. CASE phase' = "upload" /\ Execution!UploadEnds(FALSE)
    <3>1. ok' = FALSE /\ art' = art + 1
      BY <2>5 DEF Execution!UploadEnds
    <3>2. QED  BY <1>1, <1>2, <2>1, <2>2, <2>5, <3>1 DEF RunInv
  <2>6. CASE phase' = "upload" /\ Execution!UploadEnds(TRUE)
    <3>1. ok' = ok /\ art' = art + 1 /\ recorded' = recorded \cup {Stages[stage][art]}
      BY <1>2, <2>1, <2>6 DEF Execution!UploadEnds
    <3>2. ok => ran' = 1 .. stage /\ Uploaded(stage, art)
      BY <2>2 DEF RunInv
    <3>3. ok => Uploaded(stage, art)'
      <4> SUFFICES ASSUME ok, NEW i \in 1 .. Len(Stages), NEW j \in 1 .. Len(Stages[i]),
                          i < stage \/ (i = stage /\ j < art + 1)
                   PROVE  Stages[i][j] \in recorded'
        BY <2>2, <3>1 DEF Uploaded
      <4>1. j \in Nat /\ art \in Nat
        BY <1>2
      <4>2. i < stage \/ (i = stage /\ j < art) \/ (i = stage /\ j = art)
        BY <4>1
      <4>3. QED  BY <3>1, <3>2, <4>2 DEF Uploaded
    <3>4. QED  BY <1>1, <1>2, <2>1, <2>2, <2>6, <3>1, <3>2, <3>3 DEF RunInv
  <2>7. QED  BY <2>3, <2>4, <2>5, <2>6
<1>5. CASE Execution!StageEnds
  <2>1. /\ phase = "upload" /\ art > Len(Stages[stage]) /\ UNCHANGED <<art, ok, ran, recorded>>
        /\ \/ ok /\ stage < Len(Stages) /\ phase' = "command" /\ stage' = stage + 1
           \/ ~(ok /\ stage < Len(Stages)) /\ phase' = "final" /\ stage' = stage
    BY <1>5 DEF Execution!StageEnds
  <2>2. Len(Stages[stage]) \in Nat /\ Len(Stages) \in Nat
    BY <1>2
  <2>3. ok => ran = 1 .. stage /\ Uploaded(stage, art)
    BY <2>1 DEF RunInv
  <2>4. ok => Uploaded(stage + 1, 1)
    <3> SUFFICES ASSUME ok, NEW i \in 1 .. Len(Stages), NEW j \in 1 .. Len(Stages[i]),
                        i < stage + 1 \/ (i = stage + 1 /\ j < 1)
                 PROVE  Stages[i][j] \in recorded
      BY DEF Uploaded
    <3>1. i < stage \/ i = stage
      BY <1>2
    <3>2. i = stage => j < art
      BY <1>2, <2>1, <2>2
    <3>3. QED  BY <2>3, <3>1, <3>2 DEF Uploaded
  <2>5. CASE ok /\ stage < Len(Stages) /\ phase' = "command" /\ stage' = stage + 1
    <3>0. stage' - 1 = stage /\ stage' \in 1 .. Len(Stages)
      BY <1>2, <2>2, <2>5
    <3>a. ran' = 1 .. (stage' - 1)
      BY <2>1, <2>3, <2>5, <3>0
    <3>b. Uploaded(stage, 1)'
      BY <2>1, <2>4, <2>5 DEF Uploaded
    <3>1. Uploaded(stage, 1)' /\ ran' = 1 .. (stage' - 1) /\ stage' \in 1 .. Len(Stages)
      BY <3>0, <3>a, <3>b
    <3>2. QED  BY <1>1, <1>2, <2>1, <2>5, <3>1 DEF RunInv
  <2>6. CASE ~(ok /\ stage < Len(Stages)) /\ phase' = "final" /\ stage' = stage
    <3>1. ok => stage = Len(Stages)
      BY <1>2, <2>2, <2>6
    <3>2. ASSUME ok  PROVE Success'
      <4>1. \A a \in Execution!Artifacts : a \in recorded
        BY <2>2, <2>4, <3>1, <3>2, ArtifactsAre DEF Uploaded
      <4>2. QED  BY <1>1, <1>2, <2>1, <2>3, <3>1, <3>2, <4>1 DEF Success
    <3>3. QED  BY <1>1, <1>2, <2>1, <2>6, <3>2 DEF RunInv
  <2>7. QED  BY <2>1, <2>5, <2>6
<1>6. QED  BY <1>3, <1>4, <1>5

(* Every step. *)
LEMMA RunStep ==
  ASSUME RunTypes, RunInv, NEW N, Stages \in Seq(Seq(N)), Execution!Next
  PROVE  RunInv'
<1>1. CASE Execution!StartRun
  <2>1. /\ \A d \in Deps : thread'[d] = "waiting"
        /\ stage' = 1 /\ ok' /\ ran' = {} /\ result' = <<>> /\ kind' = kind
        /\ \/ kind = "Build" /\ phase' = "report" /\ recorded' = Execution!Artifacts
           \/ phase' = "pull"
    BY <1>1 DEF Execution!StartRun
  <2>2. QED  BY <2>1 DEF RunInv, Success
<1>2. CASE Execution!Threads
  BY <1>2, ThreadMoves DEF Execution!Threads
<1>3. CASE Execution!Final \/ Execution!Terminal \/ Execution!Report \/ Execution!Crash
  <2>1. /\ UNCHANGED <<kind, thread, inputs, image, ran, recorded, stage, art>>
        /\ phase # "idle" /\ result = <<>>
    BY <1>3 DEF Execution!Final, Execution!Terminal, Execution!Report, Execution!Crash,
         Execution!config, Execution!pulling, Execution!staging, RunInv
  <2>2. Success' <=> Success
    BY <2>1 DEF Success, AllWhole
  <2>3. \/ phase = "final" /\ phase' = "report" /\ ok' = ok /\ result' = <<>>
        \/ phase' = "report" /\ ~ok' /\ result' = <<>>
        \/ phase = "report" /\ phase' = "idle" /\ result' = <<ok>>
        \/ phase' = "idle" /\ result' = <<>>
    BY <1>3, <2>1 DEF Execution!Final, Execution!Terminal, Execution!Report, Execution!Crash,
         Execution!staging
  <2>4. <<ok>> = <<TRUE>> => ok
    OBVIOUS
  <2>5. QED  BY <2>1, <2>2, <2>3, <2>4 DEF RunInv
<1>4. CASE Execution!ClearBuild
  <2>1. phase = "idle" /\ phase' = "idle" /\ result' = <<>> /\ UNCHANGED <<thread, inputs>>
    BY <1>4 DEF Execution!ClearBuild, Execution!pulling
  <2>2. QED  BY <2>1 DEF RunInv
<1>5. ASSUME NEW t \in Execution!Tarballs, Execution!OtherUpload(t)  PROVE RunInv'
  <2>1. UNCHANGED <<kind, phase, thread, inputs, image, stage, art, ok, ran, recorded, result>>
    BY <1>5 DEF Execution!OtherUpload, Execution!config, Execution!pulling, Execution!staging
  <2>2. QED  BY <2>1 DEF RunInv, Success, AllWhole, Uploaded
<1>6. QED  BY <1>1, <1>2, <1>3, <1>4, <1>5, PulledMoves, StageMoves
           DEF Execution!Next, Execution!Main

------------------------------------------------------------------------------
(* The files of a build: those that are recorded are whole, and one that is    *)
(* not is being copied.                                                       *)
Undisturbed == kind = "Build" /\ (storage = "S3" \/ kills = 0)
FilesInv ==
    /\ phase = "uploading" => /\ kind = "Build" /\ storage = "LocalDisk"
                              /\ store[Execution!Key(Execution!Artifact)] = "partial"
    /\ Undisturbed =>
          /\ \A a \in recorded : store[Execution!Key(a)] = "whole"
          /\ \A a \in Execution!Artifacts : store[Execution!Key(a)] = "partial" =>
                phase = "uploading" /\ a = Execution!Artifact

(* Steps that make files whole, or touch none, and do not upload. *)
LEMMA FilesStay ==
  ASSUME RunTypes, FilesInv, UNCHANGED <<storage, kind>>, kills' = kills \/ kills' # 0,
         phase # "uploading" \/ (storage = "LocalDisk" /\ kills' # 0), phase' # "uploading",
         recorded' \in {{}, recorded},
         \A a \in Execution!Artifacts :
            store'[Execution!Key(a)] \in {"whole", store[Execution!Key(a)]}
  PROVE  FilesInv'
<1>1. Undisturbed' => Undisturbed /\ phase # "uploading"
  BY DEF Undisturbed
<1>2. QED  BY <1>1 DEF FilesInv, RunTypes

(* Every step keeps them so. *)
LEMMA FilesStep ==
  ASSUME RunTypes, RunInv, FilesInv, NEW N, Stages \in Seq(Seq(N)), Execution!Next
  PROVE  FilesInv'
<1>0. /\ store \in [Names -> FileStates] /\ recorded \subseteq Execution!Artifacts
      /\ \A a \in Execution!Artifacts : Execution!Key(a) \in Names
      /\ \A a, b : Execution!Key(a) = Execution!Key(b) => a = b
  BY DEF RunTypes, Names, Execution!Key
<1>1. CASE Execution!StartRun
  <2>1. /\ phase = "idle" /\ phase' # "uploading" /\ UNCHANGED <<storage, kind, store, kills>>
        /\ recorded' \in {{}, Execution!Artifacts}
        /\ recorded' = {} \/ Execution!AllExist
    BY <1>1 DEF Execution!StartRun
  <2>2. CASE recorded' = {}
    BY <2>1, <2>2, FilesStay
  <2>3. CASE Execution!AllExist /\ recorded' = Execution!Artifacts
    <3>1. Undisturbed => \A a \in Execution!Artifacts : store[Execution!Key(a)] = "whole"
      BY <1>0, <2>1, <2>3 DEF FilesInv, Execution!AllExist, Execution!Exists, FileStates
    <3>2. QED  BY <2>1, <2>3, <3>1 DEF FilesInv, Undisturbed
  <2>4. QED  BY <2>1, <2>2, <2>3
<1>2. ASSUME NEW d \in Deps,
             \/ Execution!StartThread(d) \/ Execution!Look(d) \/ Execution!Download(d)
             \/ Execution!CopyDone(d) \/ Execution!Unpack(d) \/ Execution!Make(d)
             \/ Execution!Made(d) \/ Execution!PullFails(d)
      PROVE  FilesInv'
  <2>1. /\ phase = "pull" /\ UNCHANGED <<phase, storage, kind, kills, recorded>>
        /\ \/ store' = store \/ \E t : store' = [store EXCEPT ![t] = "whole"]
    BY <1>2 DEF Execution!StartThread, Execution!Look, Execution!Download, Execution!CopyDone,
         Execution!Unpack, Execution!Make, Execution!Made, Execution!PullFails, Execution!files,
         Execution!config, Execution!staging, Execution!counts
  <2>2. \A a \in Execution!Artifacts :
          store'[Execution!Key(a)] \in {"whole", store[Execution!Key(a)]}
    BY <1>0, <2>1
  <2>3. QED  BY <2>1, <2>2, FilesStay
<1>3. CASE Execution!Pulled \/ Execution!RunCommand \/ Execution!StageEnds \/ Execution!Final
           \/ Execution!Terminal \/ Execution!Report
  <2>1. /\ UNCHANGED <<storage, kind, store, kills, recorded>>
        /\ phase # "uploading" /\ phase' # "uploading"
    BY <1>3 DEF Execution!Pulled, Execution!RunCommand, Execution!StageEnds, Execution!Final,
         Execution!Terminal, Execution!Report, Execution!config, Execution!files,
         Execution!staging, Execution!counts
  <2>2. QED  BY <2>1, FilesStay
<1>4. CASE Execution!Crash
  <2>1. /\ UNCHANGED <<storage, kind, store, recorded>> /\ phase' = "idle" /\ kills' = kills + 1
    BY <1>4 DEF Execution!Crash, Execution!config, Execution!files, Execution!staging
  <2>2. kills' # 0
    BY <2>1 DEF RunTypes
  <2>3. phase = "uploading" => storage = "LocalDisk"
    BY DEF FilesInv
  <2>4. QED  BY <2>1, <2>2, <2>3, FilesStay
<1>5. CASE Execution!ClearBuild \/ \E t \in Execution!Tarballs : Execution!OtherUpload(t)
  <2>1. /\ phase # "uploading" /\ UNCHANGED <<phase, storage, kind, kills>>
        /\ recorded' \in {{}, recorded}
    BY <1>5 DEF Execution!ClearBuild, Execution!OtherUpload, Execution!config,
         Execution!staging, Execution!counts
  <2>2. \A a \in Execution!Artifacts :
          store'[Execution!Key(a)] \in {"whole", store[Execution!Key(a)]}
    <3>1. CASE Execution!ClearBuild
      <4>1. \A a, b : Execution!Key(a) # Execution!Cleared(b)
        BY DEF Execution!Key, Execution!Cleared
      <4>2. QED  BY <1>0, <3>1, <4>1 DEF Execution!ClearBuild
    <3>2. CASE \E t \in Execution!Tarballs : Execution!OtherUpload(t)
      BY <1>0, <3>2 DEF Execution!OtherUpload
    <3>3. QED  BY <1>5, <3>1, <3>2
  <2>3. QED  BY <2>1, <2>2, FilesStay
<1>6. CASE Execution!Upload \/ Execution!UploadDone
  <2>1. PICK x \in Execution!Artifacts : x = Execution!Artifact
    BY <1>6, ArtifactIs
  <2>2. /\ UNCHANGED <<storage, kind, kills, stage>> /\ phase \in {"upload", "uploading"}
        /\ phase' \in {"upload", "uploading"}
    BY <1>6 DEF Execution!Upload, Execution!UploadDone, Execution!config
  <2>3. phase = "upload" /\ Undisturbed =>
          \A a \in Execution!Artifacts : store[Execution!Key(a)] # "partial"
    BY DEF FilesInv
  <2>4. CASE phase' = "uploading"
    <3>1. /\ kind = "Build" /\ storage = "LocalDisk" /\ store[Execution!Key(x)] = "none"
          /\ store' = [store EXCEPT ![Execution!Key(x)] = "partial"]
          /\ phase = "upload" /\ UNCHANGED <<recorded, art>>
      BY <1>6, <2>1, <2>4 DEF Execution!Upload, Execution!UploadDone, Execution!Exists
    <3>2. Execution!Artifact' = x
      BY <2>1, <2>2, <3>1 DEF Execution!Artifact
    <3>3. QED  BY <1>0, <2>1, <2>2, <2>3, <2>4, <3>1, <3>2 DEF FilesInv, Undisturbed
  <2>5. CASE phase' = "upload" /\ kind = "Build"
    <3>1. \/ /\ store' = [store EXCEPT ![Execution!Key(x)] = "whole"]
             /\ recorded' = recorded \cup {x}
          \/ /\ store' = [store EXCEPT ![Execution!Key(x)] = "none"]
             /\ recorded' = recorded /\ phase = "uploading"
          \/ store' = store /\ recorded' = recorded /\ phase = "upload"
      BY <1>6, <2>1, <2>5 DEF Execution!Upload, Execution!UploadDone, Execution!UploadEnds
    <3>2. phase = "uploading" => store[Execution!Key(x)] = "partial"
      BY <2>1 DEF FilesInv
    <3>3. Undisturbed' = Undisturbed
      BY <2>2 DEF Undisturbed
    <3>4. ASSUME Undisturbed, NEW a \in recorded'  PROVE store'[Execution!Key(a)] = "whole"
      BY <1>0, <2>1, <3>1, <3>2, <3>4 DEF FilesInv
    <3>5. ASSUME Undisturbed, NEW a \in Execution!Artifacts
          PROVE  store'[Execution!Key(a)] # "partial"
      BY <1>0, <2>1, <2>2, <2>3, <3>1, <3>5 DEF FilesInv
    <3>6. QED  BY <2>5, <3>3, <3>4, <3>5 DEF FilesInv
  <2>6. CASE phase' = "upload" /\ kind # "Build"
    BY <2>2, <2>6 DEF FilesInv, Undisturbed
  <2>7. QED  BY <2>2, <2>4, <2>5, <2>6
<1>7. QED  BY <1>1, <1>2, <1>3, <1>4, <1>5, <1>6 DEF Execution!Next, Execution!Threads,
                                                   Execution!Main

------------------------------------------------------------------------------
(* Dependencies have tarballs of their own, which are not artifacts of the     *)
(* test, nor cleared with them; a file is stored in S3 or on a disk.          *)
TarballsApart ==
    /\ \A d, e \in Deps : Tarball[d] = Tarball[e] => d = e
    /\ \A d \in Deps, a \in Execution!Artifacts :
          Tarball[d] # Execution!Key(a) /\ Tarball[d] # Execution!Cleared(a)
    /\ Storages \subseteq {"S3", "LocalDisk"} /\ Tries \in Nat

(* Without a crash: what a thread finds is as it left it, so that it tries     *)
(* again only after a failure.                                               *)
Steady(d) ==
    LET t == Tarball[d]
    IN  /\ cache[t] = "partial" => phase = "pull" /\ thread[d] \in {"copy", "making"}
        /\ thread[d] = "error" => failures >= Tries
        /\ tries[d] <= failures
        /\ phase = "pull" => /\ thread[d] \in {"download", "copy"} => store[t] = "whole"
                             /\ thread[d] = "download" => cache[t] = "none"
                             /\ thread[d] = "unpack" => cache[t] = "whole"
PullInv ==
    /\ storage \in {"S3", "LocalDisk"}
    /\ \A d \in Deps : /\ store[Tarball[d]] # "partial"
                       /\ d \notin Source => store[Tarball[d]] = "whole"
    /\ kills = 0 => \A d \in Deps : Steady(d)

(* A step that leaves the files of a dependency, or makes its tarball whole. *)
LEMMA SteadyStays ==
  ASSUME RunTypes, NEW d \in Deps, Steady(d), phase' = phase,
         UNCHANGED <<cache[Tarball[d]], thread[d], tries[d]>>,
         store'[Tarball[d]] \in {"whole", store[Tarball[d]]},
         failures' \in Nat, failures' >= failures, Tries \in Nat
  PROVE  Steady(d)'
<1>1. tries[d] \in Nat /\ failures \in Nat
  BY DEF RunTypes
<1>2. QED  BY <1>1 DEF Steady

(* A thread after a failure that is counted. *)
LEMMA RetrySteady ==
  ASSUME RunTypes, NEW d \in Deps, Steady(d), Execution!Retry(d), phase = "pull", phase' = phase,
         failures' = failures + 1, Tries \in Nat, cache'[Tarball[d]] # "partial"
  PROVE  Steady(d)'
<1>1. /\ thread \in [Deps -> Execution!Active \cup {"waiting", "done", "error"}]
      /\ tries \in [Deps -> Nat] /\ tries[d] \in Nat /\ failures \in Nat
  BY DEF RunTypes
<1>2. /\ tries'[d] = tries[d] + 1
      /\ thread'[d] = IF tries[d] + 1 = Tries THEN "error" ELSE "look"
  BY <1>1 DEF Execution!Retry, Execution!Go
<1>3. tries[d] <= failures
  BY DEF Steady
<1>4. tries'[d] <= failures' /\ (thread'[d] = "error" => failures' >= Tries)
  BY <1>1, <1>2, <1>3
<1>5. thread'[d] \notin {"download", "copy", "unpack"}
  BY <1>2
<1>6. QED  BY <1>4, <1>5 DEF Steady

(* What the threads leave alone: a thread of a dependency changes no thread,   *)
(* no attempts and no file of another one.                                  *)
LEMMA ThreadFrame ==
  ASSUME RunTypes, TarballsApart, NEW d \in Deps,
         \/ Execution!StartThread(d) \/ Execution!Look(d) \/ Execution!Download(d)
         \/ Execution!CopyDone(d) \/ Execution!Unpack(d) \/ Execution!Make(d)
         \/ Execution!Made(d) \/ Execution!PullFails(d)
  PROVE  /\ phase = "pull" /\ UNCHANGED <<phase, storage, kills>>
         /\ failures' = failures \/ failures' = failures + 1
         /\ store' = store \/ store' = [store EXCEPT ![Tarball[d]] = "whole"]
         /\ \A x \in Deps : x # d => UNCHANGED <<cache[Tarball[x]], thread[x], tries[x]>>
<1>1. phase = "pull" /\ UNCHANGED <<phase, storage, kills>>
  BY DEF Execution!StartThread, Execution!Look, Execution!Download, Execution!CopyDone,
       Execution!Unpack, Execution!Make, Execution!Made, Execution!PullFails, Execution!config,
       Execution!counts
<1>2. failures' = failures \/ failures' = failures + 1
  BY DEF Execution!StartThread, Execution!Look, Execution!Download, Execution!CopyDone,
       Execution!Unpack, Execution!Make, Execution!Made, Execution!PullFails,
       Execution!counts, Execution!Fails
<1>3. store' = store \/ store' = [store EXCEPT ![Tarball[d]] = "whole"]
  BY DEF Execution!StartThread, Execution!Look, Execution!Download, Execution!CopyDone,
       Execution!Unpack, Execution!Make, Execution!Made, Execution!PullFails, Execution!files
<1>4. cache' = cache \/ \E f : Execution!SetCache(d, f)
  BY DEF Execution!StartThread, Execution!Look, Execution!Download, Execution!CopyDone,
       Execution!Unpack, Execution!Make, Execution!Made, Execution!PullFails, Execution!files
<1>5. \E to : Execution!Go(d, to)
  BY DEF Execution!StartThread, Execution!Look, Execution!Download, Execution!CopyDone,
       Execution!Unpack, Execution!Make, Execution!Made, Execution!PullFails, Execution!Retry
<1>6. tries' = tries \/ Execution!Retry(d)
  BY DEF Execution!StartThread, Execution!Look, Execution!Download, Execution!CopyDone,
       Execution!Unpack, Execution!Make, Execution!Made, Execution!PullFails
<1>7. ASSUME NEW x \in Deps, x # d
      PROVE  UNCHANGED <<cache[Tarball[x]], thread[x], tries[x]>>
  <2>0. /\ Tarball[x] # Tarball[d] /\ cache \in [Execution!Tarballs -> FileStates]
        /\ Tarball[x] \in Execution!Tarballs /\ Tarball[d] \in Execution!Tarballs
    BY <1>7 DEF TarballsApart, RunTypes, Execution!Tarballs
  <2>1. cache'[Tarball[x]] = cache[Tarball[x]]
    BY <1>4, <2>0 DEF Execution!SetCache
  <2>2. thread'[x] = thread[x]
    BY <1>5, <1>7 DEF Execution!Go, RunTypes
  <2>3. tries'[x] = tries[x]
    BY <1>6, <1>7 DEF Execution!Retry, RunTypes
  <2>4. QED  BY <2>1, <2>2, <2>3
<1>8. QED  BY <1>1, <1>2, <1>3, <1>7

(* The steps of threads. *)
LEMMA ThreadSteady ==
  ASSUME RunTypes, PullInv, TarballsApart, NEW d \in Deps,
         \/ Execution!StartThread(d) \/ Execution!Look(d) \/ Execution!Download(d)
         \/ Execution!CopyDone(d) \/ Execution!Unpack(d) \/ Execution!Make(d)
         \/ Execution!Made(d) \/ Execution!PullFails(d)
  PROVE  PullInv'
<1>0. /\ store \in [Names -> FileStates] /\ Tries \in Nat
      /\ cache \in [Execution!Tarballs -> FileStates]
      /\ thread \in [Deps -> Execution!Active \cup {"waiting", "done", "error"}]
      /\ tries \in [Deps -> Nat] /\ failures \in Nat
      /\ \A x \in Deps : Tarball[x] \in Execution!Tarballs /\ Tarball[x] \in Names
      /\ \A x \in Deps : x # d => Tarball[x] # Tarball[d]
  BY DEF RunTypes, Names, Execution!Tarballs, TarballsApart
<1>1. /\ phase = "pull" /\ UNCHANGED <<phase, storage, kills>>
      /\ failures' = failures \/ failures' = failures + 1
      /\ store' = store \/ store' = [store EXCEPT ![Tarball[d]] = "whole"]
      /\ \A x \in Deps : x # d => UNCHANGED <<cache[Tarball[x]], thread[x], tries[x]>>
  BY ThreadFrame
<1>2. \A x \in Deps : store'[Tarball[x]] \in {"whole", store[Tarball[x]]}
  BY <1>0, <1>1
<1>3. \A x \in Deps : /\ store'[Tarball[x]] # "partial"
                      /\ x \notin Source => store'[Tarball[x]] = "whole"
  BY <1>2 DEF PullInv
<1>4. ASSUME kills = 0, NEW x \in Deps, x # d  PROVE Steady(x)'
  <2>1. UNCHANGED <<cache[Tarball[x]], thread[x], tries[x]>>
    BY <1>1, <1>4
  <2>2. failures' \in Nat /\ failures' >= failures
    BY <1>0, <1>1
  <2>3. QED  BY <1>0, <1>1, <1>2, <1>4, <2>1, <2>2, SteadyStays DEF PullInv
<1>5. ASSUME kills = 0  PROVE Steady(d)'
  <2>0. PICK t : t = Tarball[d]
    OBVIOUS
  <2>1. /\ Steady(d) /\ store[t] # "partial" /\ tries[d] \in Nat /\ tries[d] <= failures
        /\ d \notin Source => store[t] = "whole"
        /\ store[t] \in FileStates /\ cache[t] \in FileStates
        /\ storage \in {"S3", "LocalDisk"}
        /\ t \in Execution!Tarballs /\ t \in Names
    BY <1>0, <1>5, <2>0 DEF PullInv, Steady
  <2>2. ASSUME NEW to, Execution!Go(d, to), to # "error", tries' = tries,
               failures' \in Nat, failures' >= failures,
               cache'[t] = "partial" => to \in {"copy", "making"},
               to \in {"download", "copy"} => store'[t] = "whole",
               to = "download" => cache'[t] = "none",
               to = "unpack" => cache'[t] = "whole"
        PROVE  Steady(d)'
    <3>1. thread'[d] = to /\ tries'[d] = tries[d] /\ tries[d] <= failures'
      BY <1>0, <2>1, <2>2 DEF Execution!Go
    <3>2. QED  BY <1>1, <2>0, <2>2, <3>1 DEF Steady
  <2>3. CASE Execution!StartThread(d)
    <3>1. /\ Execution!Go(d, "look") /\ thread[d] = "waiting"
          /\ UNCHANGED <<cache, store, tries, failures>>
      BY <2>3 DEF Execution!StartThread, Execution!files, Execution!counts
    <3>2. QED  BY <1>0, <2>0, <2>1, <2>2, <3>1 DEF Steady
  <2>4. CASE Execution!Look(d)
    <3>1. /\ UNCHANGED <<cache, store, tries, failures>> /\ thread[d] = "look"
          /\ Execution!Go(d, IF Execution!Exists(store[t])
                            THEN IF Execution!Exists(cache[t]) THEN "unpack" ELSE "download"
                            ELSE IF d \in Source THEN "make" ELSE "error")
      BY <2>0, <2>4 DEF Execution!Look, Execution!files, Execution!counts
    <3>2. cache[t] # "partial"
      BY <2>0, <2>1, <3>1 DEF Steady
    <3>3. /\ Execution!Exists(store[t]) <=> store[t] = "whole"
          /\ Execution!Exists(cache[t]) <=> cache[t] = "whole"
          /\ ~Execution!Exists(cache[t]) <=> cache[t] = "none"
      BY <2>1, <3>2 DEF Execution!Exists, FileStates
    <3>4. PICK to \in {"unpack", "download", "make"} :
            /\ Execution!Go(d, to)
            /\ to = "unpack" => cache[t] = "whole"
            /\ to = "download" => cache[t] = "none" /\ store[t] = "whole"
      BY <2>1, <3>1, <3>3
    <3>5. QED  BY <1>0, <2>2, <3>1, <3>2, <3>4
  <2>5. CASE Execution!Download(d)
    <3>1. store[t] = "whole" /\ cache[t] = "none"
      BY <1>1, <2>0, <2>1, <2>5 DEF Execution!Download, Steady
    <3>2. UNCHANGED <<store, failures>>
      BY <2>5 DEF Execution!Download, Execution!counts
    <3>3. \/ Execution!SetCache(d, "whole") /\ Execution!Go(d, "unpack") /\ tries' = tries
          \/ Execution!SetCache(d, "partial") /\ Execution!Go(d, "copy") /\ tries' = tries
      BY <2>0, <2>1, <2>5, <3>1 DEF Execution!Download, Execution!Exists
    <3>4. \/ cache'[t] = "whole" /\ Execution!Go(d, "unpack") /\ tries' = tries
          \/ cache'[t] = "partial" /\ Execution!Go(d, "copy") /\ tries' = tries
      BY <1>0, <2>0, <2>1, <3>3 DEF Execution!SetCache
    <3>5. QED  BY <1>0, <2>2, <3>1, <3>2, <3>4
  <2>6. CASE Execution!CopyDone(d)
    <3>1. /\ Execution!SetCache(d, store[t]) /\ Execution!Go(d, "unpack")
          /\ UNCHANGED <<store, tries, failures>> /\ thread[d] = "copy"
      BY <2>0, <2>6 DEF Execution!CopyDone, Execution!counts
    <3>2. store[t] = "whole"
      BY <1>1, <2>0, <2>1, <3>1 DEF Steady
    <3>3. cache'[t] = "whole"
      BY <1>0, <2>0, <2>1, <3>1, <3>2 DEF Execution!SetCache
    <3>4. QED  BY <1>0, <2>2, <3>1, <3>3
  <2>7. CASE Execution!Unpack(d)
    <3>1. cache[t] = "whole"
      BY <1>1, <2>0, <2>1, <2>7 DEF Execution!Unpack, Steady
    <3>2. Execution!Go(d, "done") /\ UNCHANGED <<cache, store, tries, failures>>
      BY <2>0, <2>7, <3>1 DEF Execution!Unpack, Execution!files, Execution!counts
    <3>3. QED  BY <1>0, <2>2, <3>1, <3>2
  <2>8. CASE Execution!Make(d)
    <3>1. \/ Execution!Go(d, "making") /\ UNCHANGED <<tries, failures>>
          \/ /\ failures' = failures + 1 /\ Execution!Retry(d) /\ cache' = cache
             /\ thread[d] = "make"
      BY <2>8 DEF Execution!Make, Execution!Fails
    <3>2. CASE Execution!Go(d, "making") /\ UNCHANGED <<tries, failures>>
      BY <1>0, <2>2, <3>2
    <3>3. CASE /\ failures' = failures + 1 /\ Execution!Retry(d) /\ cache' = cache
               /\ thread[d] = "make"
      <4>1. cache[t] # "partial"
        BY <2>0, <2>1, <3>3 DEF Steady
      <4>2. QED  BY <1>0, <1>1, <2>0, <2>1, <3>3, <4>1, RetrySteady
    <3>4. QED  BY <3>1, <3>2, <3>3
  <2>9. CASE Execution!Made(d)
    <3>1. /\ Execution!SetCache(d, "whole") /\ Execution!Go(d, "done") /\ tries' = tries
      BY <2>9 DEF Execution!Made
    <3>2. cache'[t] = "whole"
      BY <1>0, <2>0, <2>1, <3>1 DEF Execution!SetCache
    <3>3. failures' \in Nat /\ failures' >= failures
      BY <1>0, <1>1
    <3>4. QED  BY <2>2, <3>1, <3>2, <3>3
  <2>10. CASE Execution!PullFails(d)
    <3>1. /\ failures' = failures + 1 /\ Execution!Retry(d)
          /\ thread[d] \in {"download", "copy"}
          /\ IF thread[d] = "copy" THEN Execution!SetCache(d, "none") ELSE cache' = cache
      BY <2>10 DEF Execution!PullFails, Execution!Fails
    <3>2. cache'[t] = "none"
      BY <1>0, <1>1, <2>0, <2>1, <3>1 DEF Execution!SetCache, Steady
    <3>3. QED  BY <1>0, <1>1, <2>0, <2>1, <3>1, <3>2, RetrySteady
  <2>11. QED  BY <2>3, <2>4, <2>5, <2>6, <2>7, <2>8, <2>9, <2>10
<1>6. QED  BY <1>1, <1>3, <1>4, <1>5 DEF PullInv

(* The other steps: with no thread at work nothing is half done. *)
LEMMA PullStep ==
  ASSUME RunTypes, RunInv, FilesInv, PullInv, TarballsApart, NEW N, Stages \in Seq(Seq(N)),
         Execution!Next
  PROVE  PullInv'
<1>0. /\ store \in [Names -> FileStates] /\ Tries \in Nat
      /\ cache \in [Execution!Tarballs -> FileStates]
      /\ thread \in [Deps -> Execution!Active \cup {"waiting", "done", "error"}]
      /\ tries \in [Deps -> Nat] /\ failures \in Nat /\ kills \in Nat
      /\ \A x \in Deps : Tarball[x] \in Execution!Tarballs /\ Tarball[x] \in Names
      /\ storage \in {"S3", "LocalDisk"}
      /\ \A d \in Deps : /\ store[Tarball[d]] # "partial"
                         /\ d \notin Source => store[Tarball[d]] = "whole"
  BY DEF RunTypes, Names, Execution!Tarballs, TarballsApart, PullInv
<1>1. CASE Execution!StartRun
  <2>1. /\ \A d \in Deps : thread'[d] = "waiting" /\ tries'[d] = 0
        /\ phase = "idle" /\ UNCHANGED <<storage, store, failures, kills>>
    BY <1>1 DEF Execution!StartRun
  <2>2. \A t \in Execution!Tarballs : cache'[t] \in {"none", cache[t]}
    <3>1. PICK keep :
            cache' = [t \in Execution!Tarballs |-> IF t \in keep THEN cache[t] ELSE "none"]
      BY <1>1 DEF Execution!StartRun, Execution!Purged
    <3>2. QED  BY <3>1
  <2>3. kills = 0 => \A d \in Deps : cache'[Tarball[d]] # "partial"
    BY <1>0, <2>1, <2>2 DEF PullInv, Steady
  <2>4. kills = 0 => \A d \in Deps : Steady(d)'
    BY <1>0, <2>1, <2>3 DEF Steady
  <2>5. QED  BY <1>0, <2>1, <2>4 DEF PullInv
<1>2. CASE Execution!Threads
  BY <1>2, ThreadSteady DEF Execution!Threads
<1>3. CASE Execution!Crash
  <2>1. UNCHANGED <<storage, store>> /\ kills' = kills + 1
    BY <1>3 DEF Execution!Crash, Execution!config, Execution!files
  <2>2. kills' # 0
    BY <1>0, <2>1
  <2>3. QED  BY <1>0, <2>1, <2>2 DEF PullInv
<1>4. ASSUME phase = "pull" => \A d \in Deps : thread[d] \in {"done", "error"},
             phase' # "pull", UNCHANGED <<storage, kills, cache, thread, tries>>,
             failures' = failures \/ failures' = failures + 1,
             \A d \in Deps : store'[Tarball[d]] \in {"whole", store[Tarball[d]]}
      PROVE  PullInv'
  <2>1. ASSUME kills = 0, NEW d \in Deps  PROVE Steady(d)'
    <3>1. Steady(d) /\ cache[Tarball[d]] # "partial" /\ tries[d] \in Nat
      BY <1>0, <1>4, <2>1 DEF PullInv, Steady
    <3>2. QED  BY <1>0, <1>4, <3>1 DEF Steady
  <2>2. QED  BY <1>0, <1>4, <2>1 DEF PullInv
<1>5. CASE Execution!Pulled \/ Execution!RunCommand \/ Execution!StageEnds \/ Execution!Final
           \/ Execution!Terminal \/ Execution!Report
  <2>1. /\ phase = "pull" => \A d \in Deps : thread[d] \in {"done", "error"}
        /\ phase' # "pull" /\ UNCHANGED <<storage, store, kills, cache, thread, tries, failures>>
    BY <1>5 DEF Execution!Pulled, Execution!RunCommand, Execution!StageEnds, Execution!Final,
         Execution!Terminal, Execution!Report, Execution!config, Execution!files,
         Execution!pulling, Execution!counts
  <2>2. QED  BY <1>4, <2>1
<1>6. CASE Execution!Upload \/ Execution!UploadDone
  <2>1. PICK x \in Execution!Artifacts : x = Execution!Artifact
    BY <1>6, ArtifactIs
  <2>2. /\ phase # "pull" /\ phase' # "pull" /\ UNCHANGED <<storage, kills, cache, thread, tries>>
        /\ failures' = failures \/ failures' = failures + 1
        /\ store' = store \/ \E f : store' = [store EXCEPT ![Execution!Key(x)] = f]
    BY <1>6, <2>1 DEF Execution!Upload, Execution!UploadDone, Execution!config, Execution!pulling,
         Execution!Fails
  <2>3. \A d \in Deps : store'[Tarball[d]] = store[Tarball[d]]
    BY <1>0, <2>1, <2>2 DEF TarballsApart
  <2>4. QED  BY <1>4, <2>2, <2>3
<1>7. CASE Execution!ClearBuild
  <2>1. /\ phase = "idle" /\ phase' = phase
        /\ UNCHANGED <<storage, kills, cache, thread, tries, failures>>
    BY <1>7 DEF Execution!ClearBuild, Execution!pulling, Execution!counts
  <2>2. \A d \in Deps : store'[Tarball[d]] = store[Tarball[d]]
    BY <1>0, <1>7 DEF Execution!ClearBuild, TarballsApart
  <2>3. QED  BY <1>4, <2>1, <2>2
<1>8. ASSUME NEW t \in Execution!Tarballs, Execution!OtherUpload(t)  PROVE PullInv'
  <2>1. /\ phase' = phase /\ UNCHANGED <<storage, kills, cache, thread, tries>>
        /\ failures' = failures + 1 /\ store' = [store EXCEPT ![t] = "whole"]
    BY <1>8 DEF Execution!OtherUpload, Execution!config, Execution!pulling, Execution!Fails
  <2>2. \A d \in Deps : store'[Tarball[d]] \in {"whole", store[Tarball[d]]}
    BY <1>0, <2>1
  <2>3. failures' \in Nat /\ failures' >= failures
    BY <1>0, <2>1
  <2>4. kills = 0 => \A d \in Deps : Steady(d)'
    BY <1>0, <2>1, <2>2, <2>3, SteadyStays DEF PullInv
  <2>5. QED  BY <1>0, <2>1, <2>2, <2>4 DEF PullInv
<1>9. QED  BY <1>1, <1>2, <1>3, <1>5, <1>6, <1>7, <1>8 DEF Execution!Next, Execution!Main

(* The start. *)
LEMMA RunInit ==
  ASSUME Execution!Init, TarballsApart
  PROVE  RunTypes /\ RunInv /\ FilesInv /\ PullInv
<1>1. RunTypes
  BY DEF Execution!Init, RunTypes, Names, FileStates
<1>2. RunInv
  BY DEF Execution!Init, RunInv
<1>3. FilesInv
  BY DEF Execution!Init, FilesInv
<1>4. PullInv
  <2>1. \A d \in Deps : /\ Tarball[d] \in Execution!Tarballs
                        /\ store[Tarball[d]] \in {"none", "whole"}
                        /\ d \notin Source => store[Tarball[d]] = "whole"
    BY DEF Execution!Init, Execution!Tarballs
  <2>2. \A d \in Deps : Steady(d)
    BY <2>1 DEF Execution!Init, Steady
  <2>3. QED  BY <2>1, <2>2 DEF Execution!Init, PullInv, TarballsApart
<1>5. QED  BY <1>1, <1>2, <1>3, <1>4

(* The invariants say what is reported of a run. *)
LEMMA RunReports ==
  ASSUME RunTypes, RunInv, FilesInv, PullInv, NEW N, Stages \in Seq(Seq(N)), TarballsApart
  PROVE  Execution!SuccessIsReal /\ Execution!ArtifactsThere /\ Execution!PullingTolerates
<1>1. Execution!SuccessIsReal
  <2>1. DOMAIN Stages = 1 .. Len(Stages)
    OBVIOUS
  <2>2. QED  BY <2>1 DEF Execution!SuccessIsReal, RunInv, Success, AllWhole
<1>2. Execution!ArtifactsThere
  <2>1. result = <<TRUE>> => Execution!Artifacts \subseteq recorded
    BY DEF RunInv, Success
  <2>2. QED  BY <2>1 DEF Execution!ArtifactsThere, FilesInv, Undisturbed
<1>3. Execution!PullingTolerates
  BY DEF Execution!PullingTolerates, PullInv, Steady, RunTypes, TarballsApart
<1>4. QED  BY <1>1, <1>2, <1>3

(* For any dependencies, stages and bounds, whatever fails and whenever the    *)
(* worker is killed: a success is one, with the image, every input and every   *)
(* stage; what is recorded of a build is in the storage as a whole, on a disk  *)
(* as long as no copy was cut off; and a worker that was not killed gives up   *)
(* a dependency only after as many failures as there are attempts.            *)
THEOREM ReportsAreTrue ==
  ASSUME NEW N, Stages \in Seq(Seq(N)), TarballsApart
  PROVE  Execution!Spec =>
           [](Execution!SuccessIsReal /\ Execution!ArtifactsThere /\ Execution!PullingTolerates)
<1> DEFINE I == RunTypes /\ RunInv /\ FilesInv /\ PullInv
<1>1. Execution!Init => I
  BY RunInit
<1>2. I /\ [Execution!Next]_(Execution!vars) => I'
  <2> SUFFICES ASSUME I, [Execution!Next]_(Execution!vars)  PROVE I'
    OBVIOUS
  <2>1. CASE Execution!Next
    <3>1. RunTypes' /\ RunInv'
      BY <2>1, RunTypesStep, RunStep
    <3>2. FilesInv' /\ PullInv'
      BY <2>1, FilesStep, PullStep
    <3>3. QED  BY <3>1, <3>2
  <2>2. CASE UNCHANGED Execution!vars
    <3>1. RunTypes' /\ RunInv'
      BY <2>2 DEF Execution!vars, RunTypes, RunInv, Success, AllWhole, Uploaded
    <3>2. FilesInv'
      BY <2>2 DEF Execution!vars, FilesInv, Undisturbed, Execution!Artifact
    <3>3. PullInv'
      <4>1. ASSUME NEW d \in Deps, Steady(d)  PROVE Steady(d)'
        BY <2>2, <4>1 DEF Execution!vars, Steady
      <4>2. UNCHANGED <<storage, store, kills>>
        BY <2>2 DEF Execution!vars
      <4>3. QED  BY <4>1, <4>2 DEF PullInv
    <3>4. QED  BY <3>1, <3>2, <3>3
  <2>3. QED  BY <2>1, <2>2
<1>3. I => Execution!SuccessIsReal /\ Execution!ArtifactsThere /\ Execution!PullingTolerates
  BY RunReports
<1> HIDE DEF I
<1>4. QED  BY <1>1, <1>2, <1>3, PTL DEF Execution!Spec
===============================================================================
