--------------------------- MODULE DockerWatcher ---------------------------
(***************************************************************************)
(* One command of a test in docker (_run_test_command_linux): the image is    *)
(* found or built, a DockerWatcher runs the command in a container, and the  *)
(* containers that the command makes in turn go through the sockets of the   *)
(* watcher, which notes them so as to remove them in the end. What is left   *)
(* over is removed before the next test.                                    *)
(*                                                                         *)
(* Root is the container of the command. A request of a container passes its  *)
(* socket ("proxy"), the docker daemon and, with the answer, the socket      *)
(* again ("reply"); the watcher may be shutting down meanwhile. The socket    *)
(* knows requests by regular expressions: it passes on, as it is, one that    *)
(* gives a new container a name with a dot, and one that starts a container   *)
(* by its name.                                                            *)
(***************************************************************************)
EXTENDS Integers, FiniteSets

CONSTANTS
    Root, Nested,      \* containers
    None,
    HasRepo,           \* whether a docker_image_repo is configured
    MaxFailures        \* bound on failures of docker

VARIABLES
    image,             \* "unknown", "pulled", "there", "failed"
    container,         \* what docker knows of the containers
    parent,            \* who made a container
    socketOf,          \* containerID of the socket that a container has
    mapped,            \* mappedVolumesByParentID
    booted,            \* _containers_booted
    named,             \* containers whose name begins with name_prefix
    request,           \* of a container: kind, child, whether known, where it is; None
    network,           \* target_network exists
    sockets,           \* the socket threads still serve
    phase,             \* of the command
    toRemove,          \* what shutdown has still to remove
    result,            \* of the command
    late,              \* containers being started, or not removed, at the cleanup
    failures

vars == <<image, container, parent, socketOf, mapped, booted, named, request, network,
          sockets, phase, toRemove, result, late, failures>>

Containers == {Root} \cup Nested
Fails == failures < MaxFailures /\ failures' = failures + 1
Running == {c \in Containers : container[c] = "running"}

Init ==
    /\ image = "unknown" /\ container = [c \in Containers |-> "none"]
    /\ parent = [c \in Containers |-> None] /\ socketOf = [c \in Containers |-> None]
    /\ mapped = {} /\ booted = {} /\ named = {} /\ request = [c \in Containers |-> None]
    /\ network = FALSE /\ sockets = FALSE
    /\ phase = "image" /\ toRemove = {} /\ result = None /\ late = {} /\ failures = 0

---------------------------------------------------------------------------
(* from_dockerfile_as_string: a repository is asked first; a failed pull does *)
(* not matter, a failed build does. The push may fail.                      *)
Pull ==
    /\ phase = "image" /\ image = "unknown"
    /\ \/ HasRepo /\ image' = "there" /\ UNCHANGED failures
       \/ IF HasRepo THEN Fails /\ image' = "missing" ELSE image' = "missing" /\ UNCHANGED failures
    /\ UNCHANGED <<named, late, container, parent, socketOf, mapped, booted, request, network,
                   sockets, phase, toRemove, result>>

Build ==
    /\ phase = "image" /\ image = "missing"
    /\ \/ image' = "there" /\ UNCHANGED failures
       \/ image' = "failed" /\ Fails
    /\ UNCHANGED <<named, late, container, parent, socketOf, mapped, booted, request, network,
                   sockets, phase, toRemove, result>>

(* getDockerImage: no image, no command. *)
NoImage ==
    /\ phase = "image" /\ image = "failed"
    /\ phase' = "done" /\ result' = FALSE
    /\ UNCHANGED <<named, late, image, container, parent, socketOf, mapped, booted, request, network,
                   sockets, toRemove, failures>>

---------------------------------------------------------------------------
KnowRoot ==
    /\ socketOf' = [socketOf EXCEPT ![Root] = Root] /\ mapped' = mapped \cup {Root}
    /\ named' = named \cup {Root}

(* DockerWatcher.run, under the watcher's lock. docker may fail to create the  *)
(* container, or to connect or start it, which is then not noted; one that    *)
(* has started is noted in the next step.                                   *)
Run ==
    /\ phase = "image" /\ image = "there"
    /\ network' = TRUE /\ sockets' = TRUE
    /\ \/ /\ container' = [container EXCEPT ![Root] = "running"] /\ KnowRoot
          /\ phase' = "started" /\ UNCHANGED <<failures, result>>
       \/ /\ Fails /\ phase' = "shutdown" /\ result' = FALSE
          /\ \/ UNCHANGED <<container, socketOf, mapped, named>>
             \/ container' = [container EXCEPT ![Root] = "created"] /\ KnowRoot
    /\ UNCHANGED <<late, image, parent, booted, request, toRemove>>

NoteRoot ==
    /\ phase = "started" /\ phase' = "wait" /\ booted' = booted \cup {Root}
    /\ UNCHANGED <<named, late, image, container, parent, socketOf, mapped, request, network,
                   sockets, toRemove, result, failures>>
Locked == phase = "started"

(* The command, or a container that it made, ends by itself. *)
Exit(c) ==
    /\ container[c] = "running"
    /\ container' = [container EXCEPT ![c] = "exited"]
    /\ UNCHANGED <<named, late, image, parent, socketOf, mapped, booted, request, network, sockets, phase,
                   toRemove, result, failures>>

(* The loop that waits, sends heartbeats and stops what takes too long. *)
Timeout ==
    /\ phase = "wait" /\ container[Root] = "running"
    /\ container' = [container EXCEPT ![Root] = "exited"]
    /\ phase' = "shutdown" /\ result' = FALSE
    /\ UNCHANGED <<named, late, image, parent, socketOf, mapped, booted, request, network, sockets,
                   toRemove, failures>>

WaitEnds ==
    /\ phase = "wait" /\ container[Root] = "exited"
    /\ phase' = "shutdown" /\ result' \in BOOLEAN
    /\ UNCHANGED <<named, late, image, container, parent, socketOf, mapped, booted, request, network,
                   sockets, toRemove, failures>>

---------------------------------------------------------------------------
(* Requests of the containers (DockerSocketRequestHandler) *)

Send(c, r) == request' = [request EXCEPT ![c] = r]
At(c, kind, where) == request[c] # None /\ request[c].kind = kind /\ request[c].at = where

(* A container asks for a new one, or starts one that it made. One that was    *)
(* made past the watcher has no socket to ask through.                      *)
Ask(c) ==
    /\ c \in Running \cap named /\ request[c] = None /\ sockets
    /\ \E x \in Nested, known \in BOOLEAN :
          \/ /\ container[x] = "none" /\ \A d \in Containers : request[d] # None => request[d].child # x
             /\ Send(c, [kind |-> "create", child |-> x, known |-> known, at |-> "proxy"])
          \/ /\ container[x] = "created" /\ parent[x] = c
             /\ Send(c, [kind |-> "start", child |-> x, known |-> known, at |-> "proxy"])
    /\ UNCHANGED <<named, late, image, container, parent, socketOf, mapped, booted, network, sockets,
                   phase, toRemove, result, failures>>

(* modify_msg, for a request that no expression matches *)
PassOn(c) ==
    /\ \E kind \in {"create", "start"} : At(c, kind, "proxy")
    /\ ~request[c].known /\ Send(c, [request[c] EXCEPT !.at = "daemon"])
    /\ UNCHANGED <<named, late, image, container, parent, socketOf, mapped, booted, network, sockets,
                   phase, toRemove, result, failures>>

(* processCreate: the volumes of the container that asks must be known, or    *)
(* the handler fails.                                                       *)
ProcessCreate(c) ==
    /\ At(c, "create", "proxy") /\ request[c].known /\ ~Locked
    /\ Send(c, IF socketOf[c] # None /\ socketOf[c] \in mapped
               THEN [request[c] EXCEPT !.at = "daemon"] ELSE None)
    /\ UNCHANGED <<named, late, image, container, parent, socketOf, mapped, booted, network, sockets,
                   phase, toRemove, result, failures>>

(* The name that the watcher asks for begins with its prefix (mangleName_). *)
DaemonCreates(c) ==
    /\ At(c, "create", "daemon")
    /\ container' = [container EXCEPT ![request[c].child] = "created"]
    /\ parent' = [parent EXCEPT ![request[c].child] = c]
    /\ IF request[c].known
       THEN Send(c, [request[c] EXCEPT !.at = "reply"]) /\ named' = named \cup {request[c].child}
       ELSE Send(c, None) /\ UNCHANGED named
    /\ UNCHANGED <<late, image, socketOf, mapped, booted, network, sockets, phase, toRemove, result,
                   failures>>

(* onContainerIDKnown. To connect it to the network may fail, which is only   *)
(* logged. The new container's socket is not told its container.            *)
CreateReply(c) ==
    /\ At(c, "create", "reply")
    /\ mapped' = mapped \cup {request[c].child}
    /\ Send(c, None)
    /\ UNCHANGED <<named, late, image, container, parent, socketOf, booted, network, sockets, phase,
                   toRemove, result, failures>>

(* A mistake: the container is noted when it was started. *)
ProcessStartUnnoted(c) ==
    /\ At(c, "start", "proxy") /\ request[c].known /\ ~Locked
    /\ Send(c, [request[c] EXCEPT !.at = "daemon"])
    /\ UNCHANGED <<named, late, image, container, parent, socketOf, mapped, booted, network, sockets, phase,
                   toRemove, result, failures>>

(* modify_msg, new_container: noted before docker is asked. *)
ProcessStart(c) ==
    /\ At(c, "start", "proxy") /\ request[c].known /\ ~Locked
    /\ booted' = booted \cup {request[c].child}
    /\ Send(c, [request[c] EXCEPT !.at = "daemon"])
    /\ UNCHANGED <<named, late, image, container, parent, socketOf, mapped, network, sockets, phase,
                   toRemove, result, failures>>

(* A name that begins with the prefix is not the one that the container knows. *)
Found(c) == container[request[c].child] = "created" /\ (request[c].known \/ request[c].child \notin named)
DaemonStarts(c) ==
    /\ At(c, "start", "daemon")
    /\ container' = [container EXCEPT ![request[c].child] = IF Found(c) THEN "running" ELSE @]
    /\ Send(c, None)
    /\ UNCHANGED <<named, late, image, parent, socketOf, mapped, booted, network, sockets, phase, toRemove,
                   result, failures>>

---------------------------------------------------------------------------
(* DockerWatcher.shutdown: those noted so far that docker still has. *)
Shutdown ==
    /\ phase = "shutdown" /\ phase' = "removing"
    /\ toRemove' = {c \in booted : container[c] \notin {"none", "removed"}}
    /\ UNCHANGED <<named, late, image, container, parent, socketOf, mapped, booted, request, network,
                   sockets, result, failures>>

(* To remove one may fail: the rest, the network and the sockets stay, and    *)
(* the exception ends the test.                                             *)
Remove(c) ==
    /\ phase = "removing" /\ c \in toRemove
    /\ \/ /\ container' = [container EXCEPT ![c] = "removed"]
          /\ toRemove' = toRemove \ {c} /\ UNCHANGED <<phase, failures, result>>
       \/ Fails /\ phase' = "done" /\ result' = FALSE /\ UNCHANGED <<container, toRemove>>
    /\ UNCHANGED <<named, late, image, parent, socketOf, mapped, booted, request, network, sockets>>

(* A network that running containers use cannot be removed. Those that the     *)
(* command made are on it, unless to connect them failed.                   *)
Close ==
    /\ phase = "removing" /\ toRemove = {} /\ phase' = "done"
    /\ \/ Root \notin Running /\ network' = FALSE /\ sockets' = FALSE /\ UNCHANGED result
       \/ Running \cap named # {} /\ result' = FALSE /\ UNCHANGED <<network, sockets>>
    /\ UNCHANGED <<named, late, image, container, parent, socketOf, mapped, booted, request,
                   toRemove, failures>>

Starting == {request[c].child : c \in {x \in Containers : request[x] # None}}

(* killAllWithNamePrefix, before the next test: all that run under such a      *)
(* name. To remove one may fail, which is only logged.                      *)
KillAllWithNamePrefix ==
    /\ phase = "done" /\ phase' = "clean"
    /\ \E kept \in SUBSET (Running \cap named) :
          /\ failures' = failures + Cardinality(kept) /\ failures' <= MaxFailures
          /\ container' = [c \in Containers |-> IF c \in (Running \cap named) \ kept THEN "removed"
                                                ELSE container[c]]
          /\ late' = Starting \cup kept
    /\ UNCHANGED <<named, image, parent, socketOf, mapped, booted, request, network, sockets,
                   toRemove, result>>

Worker == \/ Pull \/ Build \/ NoImage \/ Run \/ NoteRoot \/ Timeout \/ WaitEnds \/ Shutdown \/ Close
          \/ \E c \in Containers : Remove(c)
Handlers == \E c \in Containers : \/ PassOn(c) \/ ProcessCreate(c) \/ DaemonCreates(c) \/ CreateReply(c)
                                  \/ ProcessStart(c) \/ DaemonStarts(c)
Next == Worker \/ Handlers \/ KillAllWithNamePrefix \/ \E c \in Containers : Ask(c) \/ Exit(c)

Spec == Init /\ [][Next]_vars

---------------------------------------------------------------------------
(* A container that runs under the prefix is one that the watcher will look    *)
(* for when it shuts down: it is noted before docker starts it, and the root   *)
(* before anyone else gets the lock.                                        *)
RunningAreNoted == Running \cap named \subseteq booted \cup (IF Locked THEN {Root} ELSE {})

(* Nothing of a test runs into the next one, but for a container that was      *)
(* just being started, that docker would not remove or that was made past the *)
(* watcher: whatever failed before, and after a timeout too.                  *)
NothingRunsOn == phase = "clean" => Running \cap named \subseteq late

(* The command has ended, with a result. *)
CommandEnded == phase \in {"done", "clean"} /\ result # None
=============================================================================
