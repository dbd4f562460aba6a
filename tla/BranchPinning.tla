--------------------------- MODULE BranchPinning ---------------------------
(***************************************************************************)
(* How the server moves pins: a branch may pin others, and when a branch     *)
(* gets a new head the branches that pin it get commits that move their      *)
(* pins, level by level (BranchPinning.py, the task UpdateBranchPins and the *)
(* page that updates pins by hand).                                         *)
(*                                                                         *)
(* Each branch has a repository of its own; which branches a branch pins does *)
(* not change. Commits are numbered. Users push to any branch at any time,   *)
(* the server learns of it by a webhook; the pushes of one update are         *)
(* separate steps, between which the server may crash.                       *)
(***************************************************************************)
EXTENDS GraphUtil

CONSTANTS
    Branches,
    Graphs,      \* what pins there may be: sets of records branch, to, auto
    MaxChain,    \* getFastForwardChain's max_commits
    MaxEvents    \* bound on what users do, and on crashes

VARIABLES
    pins,        \* the BranchPin objects
    store,       \* all commits
    remote,      \* branches of the git server
    head,        \* branches in the database
    hook,        \* pushes not yet reported
    task,        \* queued tasks
    plan,        \* commits to push, in order
    updated,     \* branches_updated
    for,         \* the task, or the page, that pushes them; Nobody
    events       \* counts what users did, and crashes

vars == <<pins, store, remote, head, hook, task, plan, updated, for, events>>

Nobody == <<>>
Top(b) == <<"UpdateBranchTopCommit", b>>
Pin(b) == <<"UpdateBranchPins", b>>
Page(b) == <<"page", b>>

Event == events < MaxEvents /\ events' = events + 1

(* Everything starts with all pins at the heads. merge: it has two parents.  *)
Init ==
    /\ pins \in Graphs
    /\ LET order == SetToSeq(Branches) IN
          /\ remote = [b \in Branches |-> CHOOSE i \in DOMAIN order : order[i] = b]
          /\ store = [i \in DOMAIN order |->
                [of |-> order[i], parent |-> 0, merge |-> FALSE, by |-> "user",
                 pins |-> [p \in {x \in pins : x.branch = order[i]} |-> remote[p.to]]]]
    /\ head = remote
    /\ hook = {} /\ task = {} /\ plan = <<>> /\ updated = {} /\ for = Nobody /\ events = 0

---------------------------------------------------------------------------
(* The graph of pins *)

Autopins(b) == {p \in pins : p.branch = b /\ p.auto}
PinsOn(b) == {p \in pins : p.to = b /\ p.auto}
AutoEdges == {<<p.to, p.branch>> : p \in {x \in pins : x.auto}}

(* pinGetPinnedToBranchAndCommit: the commit that a pin names now. *)
Current(p) == store[head[p.branch]].pins[p]

(* getFastForwardChain: the commit after old on the way to new, if every     *)
(* commit on it has one parent.                                             *)
FirstOfChain(old, new) ==
    LET Up[n \in 1..MaxChain, c \in 1..Len(store)] ==
            IF store[c].merge \/ store[c].parent = 0 \/ n = MaxChain THEN 0
            ELSE IF store[c].parent = old THEN c
            ELSE Up[n + 1, store[c].parent]
    IN  Up[1, new]

(* computePinUpdate, when b has changed: all pins on b move together, and by *)
(* one commit if they all agree where they are.                             *)
ComputePinUpdateDownstream(b) ==
    LET ps == PinsOn(b)
        sources == {Current(p) : p \in ps}
        source == CHOOSE s \in sources : TRUE
        next == FirstOfChain(source, head[b])
        desired == IF Cardinality(sources) = 1 /\ source # head[b] /\ next # 0
                   THEN next ELSE head[b]
    IN  [p \in ps |-> desired]

(* computePinUpdate from the page: the chosen pins of b, to the heads. *)
ComputePinUpdate(ps) == [p \in ps |-> head[p.to]]

---------------------------------------------------------------------------
(* executeSinglePinUpdate *)

(* The pins of b that move: those asked for, and automatic ones on branches   *)
(* that get a new commit.                                                   *)
PinsToUpdate(b, initial, new) ==
    LET moved == {p \in Autopins(b) : p.to \in DOMAIN new}
    IN  [p \in {x \in DOMAIN initial : x.branch = b} \cup moved |->
            IF p \in moved THEN new[p.to] ELSE initial[p]]

(* _updatePinsInCommitAndReturnHash: a commit on top of the known head, if    *)
(* any pin changes.                                                         *)
UpdatePinsInCommit(acc, b, initial, who) ==
    LET moves == PinsToUpdate(b, initial, acc.new)
        old == acc.store[head[b]].pins
        c == [of |-> b, parent |-> head[b], merge |-> FALSE, by |-> who[1],
              pins |-> [p \in DOMAIN old |-> IF p \in DOMAIN moves THEN moves[p] ELSE old[p]]]
        id == Len(acc.store) + 1
    IN  IF c.pins = old THEN acc
        ELSE [store |-> Append(acc.store, c),
              new |-> [x \in DOMAIN acc.new \cup {b} |-> IF x = b THEN id ELSE acc.new[x]],
              order |-> Append(acc.order, id)]

InOrder(levels) == FlattenSeq([i \in DOMAIN levels |-> SetToSeq(levels[i])])

ExecuteSinglePinUpdate(initial, who) ==
    LET levels == PlaceNodesInLevels(AutoEdges, {p.branch : p \in DOMAIN initial})
    IN  FoldLeft(LAMBDA acc, b : UpdatePinsInCommit(acc, b, initial, who),
                 [store |-> store, new |-> <<>>, order |-> <<>>],
                 InOrder(levels))

(* The levels are pushed one after the other, the branches of one level in    *)
(* any order: a level is made of sets.                                      *)
PushOrders(done, initial) ==
    LET levels == PlaceNodesInLevels(AutoEdges, {p.branch : p \in DOMAIN initial})
        level(c) == CHOOSE i \in DOMAIN levels : done.store[c].of \in levels[i]
    IN  {order \in SetToSeqs(Range(done.order)) :
            \A i, j \in DOMAIN order : i < j => level(order[i]) <= level(order[j])}

(* updateBranchPin for branch b, up to the first push of applyPinUpdates. A   *)
(* cycle that can be reached from b stops it.                               *)
UpdateBranchPin(b, initial, who) ==
    IF GraphFindCycle(AutoEdges, b) # <<>> \/ DOMAIN initial = {}
    THEN for' = Nobody /\ UNCHANGED <<store, plan, updated>>
    ELSE LET done == ExecuteSinglePinUpdate(initial, who)
         IN  /\ store' = done.store /\ updated' = DOMAIN done.new
             /\ plan' \in PushOrders(done, initial)
             /\ for' = IF done.order = <<>> THEN Nobody ELSE who

---------------------------------------------------------------------------
(* Tasks. Those that update top commits go first. *)

Takes(t) == for = Nobody /\ t \in task

(* _updateBranchTopCommit: the branch and those that pin it. *)
Followers(b) == {p.branch : p \in {x \in pins : x.to = b}}

UpdateBranchTopCommit(b) ==
    /\ Takes(Top(b))
    /\ head' = [head EXCEPT ![b] = remote[b]]
    /\ task' = (task \ {Top(b)}) \cup
               (IF head[b] = remote[b] THEN {} ELSE {Pin(x) : x \in {b} \cup Followers(b)})
    /\ UNCHANGED <<pins, store, remote, hook, plan, updated, for, events>>

(* findDownstreamBranchThatChanged: one of those that b pins. *)
Changed(b) == {p.to : p \in {x \in Autopins(b) : Current(x) # head[x.to]}}

UpdateBranchPins(b) ==
    /\ Takes(Pin(b)) /\ \A x \in Branches : Top(x) \notin task
    /\ task' = task \ {Pin(b)}
    /\ \/ Changed(b) = {} /\ UNCHANGED <<store, plan, updated, for>>
       \/ \E d \in Changed(b) : UpdateBranchPin(d, ComputePinUpdateDownstream(d), Pin(b))
    /\ UNCHANGED <<pins, remote, head, hook, events>>

(* The page, for all pins of a branch or for one. Only automatic pins are     *)
(* edges of the graph.                                                      *)
UpdateByHand(b, ps) ==
    /\ for = Nobody /\ ps # {}
    /\ Event
    /\ ps = {p \in pins : p.branch = b} \/ \E p \in pins : p.branch = b /\ ps = {p}
    /\ UpdateBranchPin(b, ComputePinUpdate(ps), Page(b))
    /\ for' # Nobody
    /\ UNCHANGED <<pins, remote, head, hook, task>>

(* A mistake: the other branches are still pushed after one that was refused. *)
PushCommitGoOn ==
    /\ for # Nobody /\ plan # <<>>
    /\ LET c == Head(plan)
           b == store[c].of
           ok == remote[b] = store[c].parent
           last == Tail(plan) = <<>>
       IN  /\ remote' = IF ok THEN [remote EXCEPT ![b] = c] ELSE remote
           /\ hook' = IF ok THEN hook \cup {b} ELSE hook
           /\ plan' = IF last THEN <<>> ELSE Tail(plan)
           /\ for' = IF last THEN Nobody ELSE for
           /\ updated' = IF last THEN {} ELSE updated
           /\ task' = IF last /\ for[1] # "page" THEN task \cup {Top(x) : x \in updated}
                      ELSE task
    /\ UNCHANGED <<pins, store, head, events>>

(* One push of applyPinUpdates, refused if someone else has pushed. All       *)
(* branches that were to change are looked at again, but not by the page: it *)
(* ends with a redirect, an exception that undoes its transaction.          *)
PushCommit ==
    /\ for # Nobody /\ plan # <<>>
    /\ LET c == Head(plan)
           b == store[c].of
           ok == remote[b] = store[c].parent
           last == Tail(plan) = <<>> \/ ~ok
       IN  /\ remote' = IF ok THEN [remote EXCEPT ![b] = c] ELSE remote
           /\ hook' = IF ok THEN hook \cup {b} ELSE hook
           /\ plan' = IF last THEN <<>> ELSE Tail(plan)
           /\ for' = IF last THEN Nobody ELSE for
           /\ updated' = IF last THEN {} ELSE updated
           /\ task' = IF last /\ for[1] # "page" THEN task \cup {Top(x) : x \in updated}
                      ELSE task
    /\ UNCHANGED <<pins, store, head, events>>

(* The server dies while it pushes; a task is found again after a restart.   *)
Crash ==
    /\ Event
    /\ for # Nobody /\ for' = Nobody /\ plan' = <<>> /\ updated' = {}
    /\ task' = IF for[1] = "page" THEN task ELSE task \cup {for}
    /\ UNCHANGED <<pins, store, remote, head, hook>>

---------------------------------------------------------------------------
(* Users and webhooks *)

UserPush(b, merge) ==
    /\ Event
    /\ store' = Append(store, [of |-> b, parent |-> remote[b], merge |-> merge,
                               by |-> "user", pins |-> store[remote[b]].pins])
    /\ remote' = [remote EXCEPT ![b] = Len(store')]
    /\ hook' = hook \cup {b}
    /\ UNCHANGED <<pins, head, task, plan, updated, for>>

(* The webhook, and the refresh of the repository. *)
Webhook(b) ==
    /\ b \in hook /\ hook' = hook \ {b}
    /\ for = Nobody
    /\ task' = IF head[b] = remote[b] THEN task ELSE task \cup {Top(b)}
    /\ UNCHANGED <<pins, store, remote, head, plan, updated, for, events>>

Next ==
    \/ \E b \in Branches : \/ UpdateBranchTopCommit(b) \/ UpdateBranchPins(b) \/ Webhook(b)
                           \/ \E m \in BOOLEAN : UserPush(b, m)
                           \/ \E ps \in SUBSET pins : UpdateByHand(b, ps)
    \/ PushCommit \/ Crash

Spec == Init /\ [][Next]_vars

---------------------------------------------------------------------------
History(c) == LET Up[x \in 0..Len(store)] == IF x = 0 THEN {} ELSE {x} \cup Up[store[x].parent]
              IN  Up[c]

(* What can be fetched: a branch never names a commit that is not, or not     *)
(* any more, in the branch it pins. The levels are pushed in order, and none *)
(* after one that was refused.                                              *)
PinnedCommitsExist == \A b \in Branches : \A p \in DOMAIN store[remote[b]].pins :
    store[remote[b]].pins[p] \in History(remote[p.to])

(* When there is nothing left to do, the database shows the branches, and    *)
(* every automatic pin is at the head of its branch, races with users and    *)
(* crashes included, unless some branch that it pins leads to a cycle or     *)
(* another branch is on its level: a push that is refused keeps the rest of  *)
(* its level from being pushed, and only the one that somebody else changed   *)
(* is looked at again.                                                      *)
Quiet == hook = {} /\ task = {} /\ for = Nobody
AloneOnLevel(b) == \A p \in Autopins(b) : \A q \in PinsOn(p.to) :
    \/ q.branch = b
    \/ {<<b, q.branch>>, <<q.branch, b>>} \cap Paths(AutoEdges) # {}
QuietMeansPinned == Quiet =>
    /\ head = remote
    /\ \A b \in Branches :
          AloneOnLevel(b) /\ (\A q \in Autopins(b) : ~Cyclic(AutoEdges, {q.to}))
             => \A p \in Autopins(b) : Current(p) = head[p.to]

(* A branch that alone pins a branch without pins and without merges is given *)
(* a commit for each commit of it, in turn.                                 *)
NoCommitSkipped == \A c \in 1..Len(store) : \A p \in DOMAIN store[c].pins :
    LET old == store[store[c].parent].pins[p]
        new == store[c].pins[p]
    IN  (/\ store[c].by = "UpdateBranchPins" /\ p.auto /\ old # new
         /\ {q \in pins : q.to = p.to} = {p} /\ {q \in pins : q.branch = p.to} = {}
         /\ \A x \in History(new) : ~store[x].merge)
        => store[new].parent = old

=============================================================================
