---------------------------- MODULE AmiCreation ----------------------------
(***************************************************************************)
(* How AwsMachineManagement and AwsCloudAPI turn the setup script of a      *)
(* Windows test into an image: an instance (the creator) runs the script,   *)
(* leaves a log in S3 and stops; the server, which looks every thirty        *)
(* seconds, makes an image of it, waits until that is available and          *)
(* terminates the creator. All of this lives in the cloud (external) and is  *)
(* looked up again and again; a crash of the server loses only its sets.     *)
(***************************************************************************)
EXTENDS Integers, FiniteSets

CONSTANTS
    Configs,     \* WindowsVM configurations: a base ami and the hash of a script
    Keys,        \* base ami and hash as they appear in tags and S3 keys
    KeyOf,       \* the key under which bootAmiCreator files a configuration
    Instances,   \* identities of creators
    MaxCrashes   \* bound on crashes in the middle of making an image

VARIABLES
    creator,    \* the instances tagged as image creators
    log,        \* objects in S3: the scripts and the bootstrap logs
    img,        \* images
    available, creating, invalid,   \* windowsOsConfigs...
    crashes

vars == <<creator, log, img, available, creating, invalid, crashes>>
osConfigs == <<available, creating, invalid>>

Init ==
    /\ creator = [i \in Instances |-> [key |-> CHOOSE k \in Keys : TRUE, state |-> "none"]]
    /\ log = [k \in Keys |-> {}]
    /\ img = [k \in Keys |-> [state |-> "none", tagged |-> FALSE]]
    /\ available = {} /\ creating = {} /\ invalid = {}
    /\ crashes = 0

(* machineIdsOfAllWorkers(producingAmis) that are not terminated, by key. *)
CreatorsOf(k) == {i \in Instances : /\ creator[i].key = k
                                    /\ creator[i].state \notin {"none", "terminated"}}

(* listWindowsImages finds images by their tags. *)
Listed(k) == img[k].tagged
Usable(k) == Listed(k) /\ img[k].state = "available"

(* Mutant: any image will do. *)
StatusOfImage(k) ==
    CASE log[k] = {} -> "Unknown"
      [] Usable(k) -> "Complete"
      [] ~Usable(k) /\ "fail" \in log[k] -> "Failed"
      [] OTHER -> "In progress"

(* listWindowsOsConfigs: what the objects of a key mean. Keys are listed in  *)
(* alphabetical order, so that a log of success comes after one of failure.  *)
Status(k) ==
    CASE log[k] = {}                                  -> "Unknown"
      [] "success" \in log[k] /\ Usable(k)            -> "Complete"
      [] "success" \in log[k] /\ ~Usable(k)           -> "In progress"
      [] "success" \notin log[k] /\ "fail" \in log[k] -> "Failed"
      [] log[k] = {"scripts"}                         -> "In progress"

(* updateOsConfigsAvailable *)
UpdateOsConfigsAvailable ==
    /\ available' = {k \in Keys : Status(k) = "Complete"}
    /\ creating' = {k \in Keys : Status(k) = "In progress"}
    /\ invalid' = {k \in Keys : Status(k) = "Failed"}
    /\ UNCHANGED <<creator, log, img, crashes>>

WantsToSeeSetupScript(c) == c \notin invalid \cup available \cup creating

(* ensureOsConfigAvailable and bootAmiCreator, which looks for creators and  *)
(* images under the configuration and files them under its key.             *)
EnsureOsConfigAvailable(c) ==
    /\ WantsToSeeSetupScript(c)
    /\ creating' = creating \cup {c}
    /\ IF CreatorsOf(c) # {} \/ Usable(c)
       THEN UNCHANGED <<log, creator>>
       ELSE \E i \in Instances :
              /\ creator[i].state \in {"none", "terminated"}
              /\ creator' = [creator EXCEPT ![i] = [key |-> KeyOf[c], state |-> "running"]]
              /\ log' = [log EXCEPT ![KeyOf[c]] = @ \cup {"scripts"}]
    /\ UNCHANGED <<img, available, invalid, crashes>>

---------------------------------------------------------------------------
(* gatherAmis *)

Set(i, state) == creator' = [creator EXCEPT ![i].state = state]

(* checkAmiStateTransition: the image is there, the creator can go. *)
ImageAvailable(k, i) ==
    /\ i \in CreatorsOf(k) /\ Listed(k) /\ img[k].state = "available"
    /\ Set(i, "terminated")
    /\ UNCHANGED <<log, img, osConfigs, crashes>>

(* The creator has stopped: an image is made, unless one of that name is     *)
(* there already, and then tagged. A creator that failed was terminated just *)
(* before, yet is taken for stopped as its state was looked up earlier.      *)
CreateImage(k, i) ==
    /\ i \in CreatorsOf(k) /\ ~Listed(k) /\ creator[i].state = "stopped"
    /\ LET made == IF img[k].state = "none" THEN "pending" ELSE img[k].state
       IN  \/ img' = [img EXCEPT ![k] = [state |-> made, tagged |-> TRUE]]
              /\ UNCHANGED crashes
           \/ img' = [img EXCEPT ![k].state = made]
              /\ crashes < MaxCrashes /\ crashes' = crashes + 1
    /\ IF Status(k) = "Failed" THEN Set(i, "terminated") ELSE UNCHANGED creator
    /\ UNCHANGED <<log, osConfigs>>

(* The creator has failed and goes on running. *)
ScriptFailed(k, i) ==
    /\ i \in CreatorsOf(k) /\ ~Listed(k) /\ creator[i].state = "running"
    /\ Status(k) = "Failed"
    /\ Set(i, "terminated")
    /\ UNCHANGED <<log, img, osConfigs, crashes>>

(* A creator that has been up for two hours: the branch refers to a name     *)
(* that is not defined, gatherAmis logs the exception and goes on.           *)
TooLong(k, i) ==
    /\ i \in CreatorsOf(k) /\ ~Listed(k) /\ creator[i].state = "hung"
    /\ UNCHANGED vars

---------------------------------------------------------------------------
(* The creators and the cloud *)

(* windows_ami_creator.ps1: the install script, its log, and the end. An     *)
(* exception leaves the instance running.                                   *)
ScriptEnds(i) ==
    /\ creator[i].state = "running" /\ log[creator[i].key] \cap {"success", "fail"} = {}
    /\ \E out \in {"success", "fail"} :
          /\ log' = [log EXCEPT ![creator[i].key] = @ \cup {out}]
          /\ \/ Set(i, "stopped")
             \/ out = "fail" /\ UNCHANGED creator
    /\ UNCHANGED <<img, osConfigs, crashes>>

CreatorHangs(i) ==
    /\ creator[i].state = "running"
    /\ Set(i, "hung")
    /\ UNCHANGED <<log, img, osConfigs, crashes>>

SnapshotDone(k) ==
    /\ img[k].state = "pending"
    /\ img' = [img EXCEPT ![k].state = "available"]
    /\ UNCHANGED <<creator, log, osConfigs, crashes>>

GatherAmis(k) ==
    \E i \in Instances : \/ ImageAvailable(k, i) \/ CreateImage(k, i)
                         \/ ScriptFailed(k, i)

Next ==
    \/ UpdateOsConfigsAvailable
    \/ \E c \in Configs : EnsureOsConfigAvailable(c)
    \/ \E k \in Keys : GatherAmis(k) \/ SnapshotDone(k)
    \/ \E k \in Keys, i \in Instances : TooLong(k, i)
    \/ \E i \in Instances : ScriptEnds(i) \/ CreatorHangs(i)

Spec == Init /\ [][Next]_vars

---------------------------------------------------------------------------
(* However often the server asks for an image and forgets, at most one       *)
(* creator works on it.                                                     *)
OneCreator == \A k \in Keys : Cardinality(CreatorsOf(k)) <= 1

(* A configuration is only ever booted from an image whose script succeeded, *)
(* although one is also made of a creator that failed and stopped.           *)
BootedFromGoodImages == \A k \in available : "success" \in log[k] /\ Usable(k)

(* Both: one instance works on an image, and only a good one is booted from. *)
ImagesSound == BootedFromGoodImages /\ OneCreator

=============================================================================
