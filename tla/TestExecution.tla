--------------------------- MODULE TestExecution ---------------------------
(***************************************************************************)
(* How a worker runs a test (WorkerState.runTest): it pulls dependencies in   *)
(* parallel threads through its build cache, runs the stages of the          *)
(* definition and uploads the artifacts, all against the artifact storage    *)
(* that it shares with other workers. The build cache and the storage        *)
(* survive the worker, whose process may be killed at any time.              *)
(*                                                                         *)
(* The storage is S3, where a file is there as a whole or not at all, or a    *)
(* directory (LocalDisk) where files are copied. Files are "none", "partial"  *)
(* or "whole". What the commands of a test do is theirs to decide.           *)
(***************************************************************************)
EXTENDS Integers, Sequences, FiniteSets

CONSTANTS
    Deps, Source,      \* dependencies; those on source, not on builds
    Tarball,           \* of a dependency: its file
    Stages,            \* sequence: artifacts of the stages, as sequences
    Kinds,             \* of tests: Build, Test, Deployment
    Storages,          \* S3, LocalDisk
    Tries,             \* attempts at a dependency
    Cores,             \* threads that pull at once
    MaxCached,         \* max_build_cache_depth
    MaxRuns, MaxFailures, MaxCrashes   \* bounds

VARIABLES
    storage, kind,     \* what is configured, what is run
    store, cache,      \* files
    phase,             \* of the run
    thread, tries,     \* of dependencies
    inputs,            \* what dependencies were unpacked from, in this run
    image,             \* whether the docker image was built
    stage, art,        \* the next stage, the next artifact of it
    ok,                \* is_success
    ran,               \* stages of this run that succeeded
    recorded,          \* recordArtifactUploaded, in this run
    result,            \* of the last run that was reported
    runs, failures, crashes

vars == <<storage, kind, store, cache, phase, thread, tries, inputs, image, stage, art, ok,
          ran, recorded, result, runs, failures, crashes>>
files == <<store, cache>>
counts == <<runs, failures, crashes>>
pulling == <<thread, tries, inputs, image>>
config == <<storage, kind>>
staging == <<stage, art, ok, ran, recorded>>

(* artifactKeyForBuild; a build is cleared under another name. *)
Key(name) == <<name, ".tar.gz">>
Cleared(name) == <<name>>

Tarballs == {Tarball[d] : d \in Deps}
Artifacts == UNION {{Stages[i][j] : j \in DOMAIN Stages[i]} : i \in DOMAIN Stages}
Exists(f) == f # "none"
Fails == failures < MaxFailures /\ failures' = failures + 1

(* Builds that others made are there; sources may be.                        *)
Init ==
    /\ storage \in Storages /\ kind \in Kinds
    /\ store \in [Tarballs \cup {Key(a) : a \in Artifacts} -> {"none", "whole"}]
    /\ \A a \in Artifacts : store[Key(a)] = "none"
    /\ \A d \in Deps \ Source : store[Tarball[d]] = "whole"
    /\ cache = [t \in Tarballs |-> "none"]
    /\ phase = "idle" /\ thread = [d \in Deps |-> "waiting"] /\ tries = [d \in Deps |-> 0]
    /\ inputs = [d \in Deps |-> "none"] /\ image = FALSE
    /\ stage = 1 /\ art = 1 /\ ok = TRUE /\ ran = {} /\ recorded = {}
    /\ result = <<>> /\ runs = 0 /\ failures = 0 /\ crashes = 0

---------------------------------------------------------------------------
(* runTest *)

AllExist == \A a \in Artifacts : Exists(store[Key(a)])

(* purge_build_cache: the oldest go, any may be. *)
Purged(c) ==
    LET there == {t \in Tarballs : Exists(c[t])}
    IN  {[t \in Tarballs |-> IF t \in keep THEN c[t] ELSE "none"] :
            keep \in {s \in SUBSET there :
                        IF Cardinality(there) > MaxCached THEN Cardinality(s) = MaxCached
                        ELSE s = there}}

(* cleanup, and "Build already exists" if it does. *)
StartRun ==
    /\ phase = "idle" /\ runs < MaxRuns /\ runs' = runs + 1
    /\ cache' \in Purged(cache)
    /\ thread' = [d \in Deps |-> "waiting"] /\ tries' = [d \in Deps |-> 0]
    /\ inputs' = [d \in Deps |-> "none"] /\ image' \in BOOLEAN
    /\ stage' = 1 /\ art' = 1 /\ ok' = TRUE /\ ran' = {} /\ result' = <<>>
    /\ IF kind = "Build" /\ AllExist THEN phase' = "report" /\ recorded' = Artifacts
       ELSE phase' = "pull" /\ recorded' = {}
    /\ UNCHANGED <<storage, kind, store, failures, crashes>>

---------------------------------------------------------------------------
(* getEnvironmentAndDependencies: a thread for each dependency *)

Active == {"look", "download", "copy", "unpack", "make", "making"}
Go(d, to) == thread' = [thread EXCEPT ![d] = to]
SetCache(d, f) == cache' = [cache EXCEPT ![Tarball[d]] = f]

StartThread(d) ==
    /\ phase = "pull" /\ thread[d] = "waiting"
    /\ Cardinality({x \in Deps : thread[x] \in Active}) < Cores
    /\ Go(d, "look")
    /\ UNCHANGED <<config, files, phase, tries, inputs, image, staging, result, counts>>

(* callFun, after an exception. *)
Retry(d) ==
    /\ tries' = [tries EXCEPT ![d] = @ + 1]
    /\ Go(d, IF tries[d] + 1 = Tries THEN "error" ELSE "look")

(* grabDependency: what has to be done for d. A missing build is an error     *)
(* that is not tried again; a missing source is made from git.              *)
Look(d) ==
    /\ phase = "pull" /\ thread[d] = "look"
    /\ LET t == Tarball[d]
       IN  Go(d, IF Exists(store[t])
                 THEN IF Exists(cache[t]) THEN "unpack" ELSE "download"
                 ELSE IF d \in Source THEN "make" ELSE "error")
    /\ UNCHANGED <<config, files, phase, tries, inputs, image, staging, result, counts>>

(* download_build. A copy refuses to overwrite, and is there before it is     *)
(* complete.                                                                *)
Download(d) ==
    /\ phase = "pull" /\ thread[d] = "download"
    /\ LET t == Tarball[d]
       IN  CASE storage = "S3" /\ Exists(store[t]) ->
                    SetCache(d, store[t]) /\ Go(d, "unpack") /\ UNCHANGED tries
             [] storage = "LocalDisk" /\ ~Exists(cache[t]) /\ Exists(store[t]) ->
                    SetCache(d, "partial") /\ Go(d, "copy") /\ UNCHANGED tries
             [] OTHER -> Retry(d) /\ UNCHANGED cache
    /\ UNCHANGED <<config, store, phase, inputs, image, staging, result, counts>>

CopyDone(d) ==
    /\ phase = "pull" /\ thread[d] = "copy"
    /\ SetCache(d, store[Tarball[d]]) /\ Go(d, "unpack")
    /\ UNCHANGED <<config, store, phase, tries, inputs, image, staging, result, counts>>

(* A mistake: what a failed copy has written so far is left. *)
PullFailsDirty(d) ==
    /\ phase = "pull" /\ thread[d] \in {"download", "copy"}
    /\ Fails
    /\ UNCHANGED cache
    /\ Retry(d)
    /\ UNCHANGED <<config, store, phase, inputs, image, staging, result, runs, crashes>>

(* The download fails; filecopy removes what it has written. *)
PullFails(d) ==
    /\ phase = "pull" /\ thread[d] \in {"download", "copy"}
    /\ Fails
    /\ IF thread[d] = "copy" THEN SetCache(d, "none") ELSE UNCHANGED cache
    /\ Retry(d)
    /\ UNCHANGED <<config, store, phase, inputs, image, staging, result, runs, crashes>>

(* extract_package: raises if the file is not complete. *)
Unpack(d) ==
    /\ phase = "pull" /\ thread[d] = "unpack"
    /\ IF cache[Tarball[d]] = "whole"
       THEN Go(d, "done") /\ inputs' = [inputs EXCEPT ![d] = "whole"] /\ UNCHANGED tries
       ELSE Retry(d) /\ UNCHANGED inputs
    /\ UNCHANGED <<config, files, phase, image, staging, result, counts>>

(* resetToCommitInDir, and the tarball of it, begun ... *)
Make(d) ==
    /\ phase = "pull" /\ thread[d] = "make"
    /\ \/ SetCache(d, "partial") /\ Go(d, "making") /\ UNCHANGED <<tries, failures>>
       \/ Fails /\ Retry(d) /\ UNCHANGED cache
    /\ UNCHANGED <<config, store, phase, inputs, image, staging, result, runs, crashes>>

(* ... and completed; a failure to upload it does not matter. *)
Made(d) ==
    /\ phase = "pull" /\ thread[d] = "making"
    /\ SetCache(d, "whole") /\ Go(d, "done")
    /\ inputs' = [inputs EXCEPT ![d] = "whole"]
    /\ LET t == Tarball[d]
       IN  \/ /\ storage = "S3" \/ ~Exists(store[t])
              /\ store' = [store EXCEPT ![t] = "whole"] /\ UNCHANGED failures
           \/ storage = "LocalDisk" /\ Exists(store[t]) /\ UNCHANGED <<store, failures>>
           \/ Fails /\ UNCHANGED store
    /\ UNCHANGED <<config, phase, tries, image, staging, result, runs, crashes>>

(* All threads have ended. Without an image the run fails, but only after it   *)
(* has tried to collect its output; with a failed dependency at once.        *)
Pulled ==
    /\ phase = "pull" /\ \A d \in Deps : thread[d] \in {"done", "error"}
    /\ LET good == \A d \in Deps : thread[d] = "done"
       IN  /\ ok' = (good /\ image)
           /\ phase' = CASE ~good -> "report"
                         [] kind = "Deployment" -> IF image THEN "terminal" ELSE "report"
                         [] OTHER -> IF image /\ Stages # <<>> THEN "command" ELSE "final"
    /\ UNCHANGED <<config, files, pulling, stage, art, ran, recorded, result, counts>>

---------------------------------------------------------------------------
(* _runStage *)

(* The command, and the cleanup; a timeout is a failure. A build uploads only   *)
(* after a success, a test always.                                          *)
RunCommand ==
    /\ phase = "command"
    /\ \E good \in BOOLEAN :
          /\ ok' = good
          /\ ran' = IF good THEN ran \cup {stage} ELSE ran
          /\ phase' = IF good \/ kind = "Test" THEN "upload" ELSE "final"
    /\ art' = 1
    /\ UNCHANGED <<config, files, pulling, stage, recorded, result, counts>>

Artifact == Stages[stage][art]

(* What a stage has after the upload of one artifact. *)
UploadEnds(good) ==
    /\ ok' = (ok /\ good)
    /\ recorded' = IF good THEN recorded \cup {Artifact} ELSE recorded
    /\ art' = art + 1

(* _upload_artifact. What a test uploads is kept under the name of the run.   *)
Upload ==
    /\ phase = "upload" /\ art <= Len(Stages[stage])
    /\ \/ /\ kind = "Test" \/ storage = "S3"
          /\ store' = IF kind = "Test" THEN store ELSE [store EXCEPT ![Key(Artifact)] = "whole"]
          /\ UploadEnds(TRUE) /\ UNCHANGED <<failures, phase>>
       \/ /\ kind = "Build" /\ storage = "LocalDisk" /\ ~Exists(store[Key(Artifact)])
          /\ store' = [store EXCEPT ![Key(Artifact)] = "partial"]
          /\ phase' = "uploading" /\ UNCHANGED <<failures, ok, recorded, art>>
       \/ /\ kind = "Build" /\ storage = "LocalDisk" /\ Exists(store[Key(Artifact)])
          /\ UploadEnds(FALSE) /\ UNCHANGED <<failures, store, phase>>
       \/ Fails /\ UploadEnds(FALSE) /\ UNCHANGED <<store, phase>>
    /\ UNCHANGED <<config, cache, pulling, stage, ran, result, runs, crashes>>

UploadDone ==
    /\ phase = "uploading" /\ phase' = "upload"
    /\ \/ /\ store' = [store EXCEPT ![Key(Artifact)] = "whole"]
          /\ UploadEnds(TRUE) /\ UNCHANGED failures
       \/ Fails /\ store' = [store EXCEPT ![Key(Artifact)] = "none"] /\ UploadEnds(FALSE)
    /\ UNCHANGED <<config, cache, pulling, stage, ran, result, runs, crashes>>

StageEnds ==
    /\ phase = "upload" /\ art > Len(Stages[stage])
    /\ IF ok /\ stage < Len(Stages) THEN phase' = "command" /\ stage' = stage + 1
       ELSE phase' = "final" /\ UNCHANGED stage
    /\ UNCHANGED <<config, files, pulling, art, ok, ran, recorded, result, counts>>

(* finalTestArtifactUpload: nothing that happens there fails the run. *)
Final ==
    /\ phase = "final" /\ phase' = "report"
    /\ UNCHANGED <<config, files, pulling, staging, result, counts>>

(* _run_deployment: until the container ends. *)
Terminal ==
    /\ phase = "terminal" /\ phase' = "report" /\ ok' = FALSE
    /\ UNCHANGED <<config, files, pulling, stage, art, ran, recorded, result, counts>>

(* test_result.json and the log are uploaded, if possible. *)
Report ==
    /\ phase = "report" /\ phase' = "idle"
    /\ result' = <<ok>>
    /\ UNCHANGED <<config, files, pulling, staging, counts>>

---------------------------------------------------------------------------
(* The process ends, and is started again: it is killed, or the test was      *)
(* canceled.                                                                *)
Crash ==
    /\ crashes < MaxCrashes /\ crashes' = crashes + 1
    /\ phase # "idle" /\ phase' = "idle"
    /\ UNCHANGED <<config, files, pulling, staging, result, runs, failures>>

(* Another worker uploads the source that this one needs. *)
OtherUpload(t) ==
    /\ phase = "pull" /\ store[t] = "none" /\ \E d \in Source : Tarball[d] = t
    /\ Fails /\ store' = [store EXCEPT ![t] = "whole"]
    /\ UNCHANGED <<config, cache, phase, pulling, staging, result, runs, crashes>>

(* clearTestRun: what is stored under the full name of an artifact is         *)
(* removed, while no run is on.                                             *)
ClearBuild ==
    /\ phase = "idle" /\ kind = "Build" /\ result # <<>>
    /\ result' = <<>> /\ recorded' = {}
    /\ LET names == {Cleared(a) : a \in Artifacts}
       IN  store' = [f \in DOMAIN store |-> IF f \in names THEN "none" ELSE store[f]]
    /\ UNCHANGED <<storage, kind, cache, phase, pulling, stage, art, ok, ran, counts>>

Threads == \E d \in Deps : \/ StartThread(d) \/ Look(d) \/ Download(d) \/ CopyDone(d)
                           \/ Unpack(d) \/ Make(d) \/ Made(d) \/ PullFails(d)
Main == \/ Pulled \/ RunCommand \/ Upload \/ UploadDone \/ StageEnds \/ Final \/ Terminal
        \/ Report
Next == \/ StartRun \/ Threads \/ Main \/ Crash \/ ClearBuild
        \/ \E t \in Tarballs : OtherUpload(t)

Spec == Init /\ [][Next]_vars

---------------------------------------------------------------------------
(* A success is one: the image was built, every input was complete, and every *)
(* stage succeeded; or it is a build that was there already.                *)
SuccessIsReal == result = <<TRUE>> =>
    \/ kind = "Build" /\ ran = {} /\ recorded = Artifacts
    \/ /\ image /\ \A d \in Deps : inputs[d] = "whole"
       /\ ran = DOMAIN Stages

(* What the server is told about was uploaded, and a build that succeeds has   *)
(* all its artifacts. On a disk this fails after a crash in a copy.         *)
ArtifactsThere == (kind = "Build" /\ (storage = "S3" \/ crashes = 0)) =>
    /\ \A a \in recorded : store[Key(a)] = "whole"
    /\ result = <<TRUE>> => \A a \in Artifacts : store[Key(a)] = "whole"

(* Failures of the network are made up for: while the worker was not killed,  *)
(* pulling fails only after as many of them as there are attempts.           *)
PullingTolerates == (crashes = 0 /\ failures < Tries) => \A d \in Deps : thread[d] # "error"
=============================================================================
