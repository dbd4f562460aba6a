--------------------------- MODULE CommitParsing ---------------------------
(***************************************************************************)
(* How the server learns of repositories, branches, commits and tests: the   *)
(* webhooks and the tasks RefreshRepos, RefreshBranches,                     *)
(* UpdateBranchTopCommit, UpdateCommitData, CommitTestParse and              *)
(* CheckBranchAutocreate of the TestManager, the local clones and the git    *)
(* server (external).                                                       *)
(*                                                                         *)
(* Definitions refer to commits of other repositories, which may be unknown  *)
(* when they are parsed; the commit then waits for them. What git holds is    *)
(* constant; which commits the branches of the server point at is not.       *)
(* Tasks of equal priority are taken in any order (TaskQueue has the order). *)
(***************************************************************************)
EXTENDS Integers, Sequences, SequencesExt, FiniteSets

CONSTANTS
    Commits, Repos, Branches, Tests, None,
    RepoOf,        \* of a commit, and of a branch
    LookingBack,   \* of a commit: what git log prints, itself first
    Refs,          \* of a commit: commits whose definitions it needs, transitively
    Includes,      \* of a commit: commits from which it includes files
    TestsOf,       \* of a commit: the tests that its definitions resolve to
    DepsOf,        \* of a test: the tests that it depends on
    NoFile,        \* commits without test definitions
    Old,           \* commits older than any test definitions
    PinsOf,        \* of a commit: branches that its own file pins
    MorePinsOf,    \* of a commit: those that files pin which it includes
    Template,      \* of a branch: the one that is made for it, if any, the branch
                   \* to copy from and the commit that would be pushed
    Listings,      \* what listRepos may say
    Heads,         \* what branches may point at initially
    MaxPushes      \* bound on what users do to the git server

VARIABLES
    remote,     \* branches of the git server
    tip,        \* the remote branches as the local clones know them
    clone,      \* commits in the local clones
    hook,       \* pushes that the git server has not yet reported
    db,         \* the database objects
    task,       \* queued tasks
    fetched,    \* the repository of a RefreshBranches under way
    pushes      \* counts what users did

vars == <<remote, tip, clone, hook, db, task, fetched, pushes>>
git == <<remote, tip, clone, hook>>

Task(kind, x) == [kind |-> kind, of |-> x]
Of(r) == {b \in Branches : RepoOf[b] = r}
Reachable(c) == Range(LookingBack[c])
AtServer(r) == UNION {Reachable(remote[b]) : b \in {x \in Of(r) : remote[x] # None}}
Parents(c) == IF Len(LookingBack[c]) = 1 THEN {} ELSE {LookingBack[c][2]}

Init ==
    /\ remote \in Heads
    /\ tip = [b \in Branches |-> None] /\ clone = {} /\ hook = {}
    /\ db = [repo |-> [r \in Repos |-> "unknown"], branch |-> {},
             head |-> [b \in Branches |-> None], tracks |-> [b \in Branches |-> None],
             known |-> {}, data |-> {}, parsed |-> {}, error |-> {}, noTests |-> {},
             repos |-> [c \in Commits |-> {}], pins |-> [b \in Branches |-> {}],
             needsRepo |-> {}, needsCommit |-> {},
             test |-> {}, testDep |-> {}, needsTest |-> {}, commitTest |-> {},
             new |-> {}]
    /\ task = {Task("RefreshRepos", None)} /\ fetched = None /\ pushes = 0

---------------------------------------------------------------------------
(* Unresolved dependencies. d.new collects the tasks that are queued.        *)

Queue(d, what) == [d EXCEPT !.new = @ \cup what]

Waits(d, c) == \/ \E r \in Repos : <<c, r>> \in d.needsRepo
               \/ \E x \in Commits : <<c, x>> \in d.needsCommit

(* _triggerCommitTestParse, for commits that lost a dependency. *)
TriggerCommitTestParse(d, cs) ==
    Queue(d, {Task("CommitTestParse", c) : c \in {x \in cs : ~Waits(d, x)}})

(* _createSourceDep: x was missing when c was parsed. *)
CreateSourceDep(d, c, x) ==
    IF d.repo[RepoOf[x]] = "unknown"
    THEN [d EXCEPT !.needsRepo = @ \cup {<<c, RepoOf[x]>>}]
    ELSE IF x \notin d.data THEN [d EXCEPT !.needsCommit = @ \cup {<<c, x>>}] ELSE d

(* _createRepo, for all that are new *)
CreateRepos(d, rs) ==
    LET waiting == {c \in Commits : \E r \in rs : <<c, r>> \in d.needsRepo}
        there == [d EXCEPT !.repo = [r \in Repos |-> IF r \in rs THEN "active" ELSE @[r]],
                           !.needsRepo = {w \in @ : w[2] \notin rs}]
    IN  TriggerCommitTestParse(there, waiting)

(* _lookupCommitByHash, _triggerCommitDataUpdate *)
LookupCommits(d, cs) ==
    Queue([d EXCEPT !.known = @ \cup cs],
          {Task("UpdateCommitData", c) : c \in cs \ d.data})

---------------------------------------------------------------------------
(* Tests *)

(* _checkAllTestDependencies: what new tests depend on. *)
DepsOfNew(new) == {w \in new \X Tests : w[2] \in DepsOf[w[1]]}

(* _createTestDep: linked if the other one exists. *)
Linked(deps, exist) == {w \in deps : w[2] \in exist}

(* _markTestCreated: who waited for the new ones. *)
Marked(d, new) == {w \in d.needsTest : w[2] \in new}

(* _createTest *)
CreateTests(d, c) ==
    LET new == TestsOf[c] \ d.test
        exist == d.test \cup new
        deps == DepsOfNew(new)
    IN  [d EXCEPT !.test = exist,
                  !.testDep = @ \cup Linked(deps, exist) \cup Marked(d, new),
                  !.needsTest = ((@ \cup deps) \ Linked(deps, exist)) \ Marked(d, new),
                  !.commitTest = @ \cup {<<c, t>> : t \in TestsOf[c]}]

(* What the resolver can see of a commit. *)
There(d, local, x) == d.repo[RepoOf[x]] # "unknown" /\ x \in local

(* _parseCommitTests. The pins are taken from the commit's own file first,   *)
(* those of included files come when all goes well. A commit that other       *)
(* definitions are taken from raises MissingDependencyException if it is      *)
(* missing, the nearest one first; an included file just cannot be found.     *)
Parse(d, local, c) ==
    LET own == [d EXCEPT !.repos[c] = PinsOf[c]]
        reached == {c} \cup {x \in Refs[c] : There(d, local, x)}
        broken == \E x \in reached : \E i \in Includes[x] : ~There(d, local, i)
        missing == {x \in Refs[c] : ~There(d, local, x)}
        nearest == {x \in missing : \A y \in missing : x \notin Refs[y]}
        whole == [own EXCEPT !.repos[c] = PinsOf[c] \cup MorePinsOf[c]]
    IN  IF c \in d.parsed THEN d
        ELSE IF c \in NoFile THEN [d EXCEPT !.parsed = @ \cup {c}, !.noTests = @ \cup {c}]
        ELSE IF broken THEN [own EXCEPT !.parsed = @ \cup {c}, !.error = @ \cup {c}]
        ELSE IF missing # {} THEN CreateSourceDep(own, c, CHOOSE x \in nearest : TRUE)
        ELSE [CreateTests(whole, c) EXCEPT !.parsed = @ \cup {c}]

(* _recalculateBranchPins *)
RecalculateBranchPins(d, bs) ==
    [d EXCEPT !.pins = [b \in Branches |->
                          IF b \notin bs THEN @[b]
                          ELSE IF d.head[b] \in d.data THEN d.repos[d.head[b]] ELSE {}]]

HeadAt(d, c) == {b \in d.branch : d.head[b] = c}

(* _updateCommitDataForHash; a commit too old to have definitions is not      *)
(* looked into, nor marked as parsed. Only imports know of a commit            *)
(* beforehand that it has no file (knownNoTestFile).                         *)
LoadCommit(d, local, c) ==
    LET known == LookupCommits(d, {c} \cup Parents(c))
        waiting == {x \in Commits : <<x, c>> \in d.needsCommit}
        there == [known EXCEPT !.data = @ \cup {c},
                               !.needsCommit = {w \in @ : w[2] # c}]
        queued == TriggerCommitTestParse(there, waiting)
        parsed == IF c \in Old THEN [queued EXCEPT !.noTests = @ \cup {c}, !.error = @ \cup {c}]
                  ELSE Parse(queued, local, c)
    IN  IF c \in d.data THEN d ELSE RecalculateBranchPins(parsed, HeadAt(d, c))

(* _updateCommitData *)
LoadHistory(d, c) ==
    LET n == Len(LookingBack[c])
        after[i \in 0 .. n] ==
            IF i = 0 THEN d ELSE LoadCommit(after[i - 1], clone, LookingBack[c][i])
    IN  IF c \in d.data \/ c \notin clone THEN d ELSE after[n]

---------------------------------------------------------------------------
(* Tasks *)

(* pendingVeryHigh ... pendingVeryLow; the first refresh of a repository is   *)
(* of very low priority.                                                    *)
Urgency(k) ==
    CASE k \in {"RefreshRepos", "RefreshBranches", "UpdateBranchTopCommit"} -> 1
      [] k \in {"UpdateCommitData", "CommitTestParse"} -> 2
      [] k = "CheckBranchAutocreate" -> 3
      [] k = "FirstRefresh" -> 4

(* A task is taken; what it does to the database, and queues, is committed.  *)
Takes(kind, x) ==
    /\ fetched = None /\ Task(kind, x) \in task
    /\ \A t \in task : Urgency(kind) <= Urgency(t.kind)
Commit(kind, x, d) ==
    /\ db' = [d EXCEPT !.new = {}]
    /\ task' = (task \ {Task(kind, x)}) \cup d.new
    /\ UNCHANGED <<fetched, pushes>>

RefreshRepos ==
    /\ Takes("RefreshRepos", None)
    /\ \E listed \in Listings :
          LET new == {r \in listed : db.repo[r] = "unknown"}
              gone == [db EXCEPT !.repo = [r \in Repos |->
                          IF @[r] = "unknown" THEN @[r]
                          ELSE IF r \in listed THEN "active" ELSE "inactive"]]
          IN  Commit("RefreshRepos", None,
                     Queue(CreateRepos(gone, new), {Task("FirstRefresh", r) : r \in listed}))
    /\ UNCHANGED git

(* _refreshBranches fetches (or clones) ... *)
FetchOrigin(kind, r) ==
    /\ Takes(kind, r)
    /\ fetched' = Task(kind, r)
    /\ tip' = [b \in Branches |-> IF b \in Of(r) THEN remote[b] ELSE tip[b]]
    /\ clone' = clone \cup AtServer(r)
    /\ task' = task \ {fetched'}
    /\ UNCHANGED <<remote, hook, db, pushes>>

(* _branchDeleted, which also deletes the branch that was made for this one. *)
BranchesDeleted(d, bs) ==
    LET Without(f, none) == [b \in Branches |-> IF b \in bs THEN none ELSE f[b]]
    IN  [d EXCEPT !.branch = @ \ bs, !.head = Without(@, None), !.pins = Without(@, {}),
                  !.tracks = Without(@, None)]

TrackingBranches(bs) == {x \in db.branch : db.tracks[x] \in bs}

(* ... and compares what the server says now. *)
ListBranches ==
    /\ fetched # None
    /\ LET r == fetched.of
           listed == {b \in Of(r) : remote[b] # None}
           gone == {b \in db.branch \cap Of(r) : b \notin listed}
           left == BranchesDeleted(db, gone)
           now == [left EXCEPT !.branch = @ \cup listed]
           dirty == {b \in listed : now.head[b] # remote[b]}
       IN  /\ remote' = [b \in Branches |-> IF b \in TrackingBranches(gone) THEN None
                                            ELSE remote[b]]
           /\ hook' = hook \cup {RepoOf[b] : b \in TrackingBranches(gone)}
           /\ db' = now
           /\ task' = task
                      \cup {Task("CheckBranchAutocreate", b) : b \in listed \ db.branch}
                      \cup {Task("UpdateBranchTopCommit", b) : b \in dirty}
    /\ fetched' = None
    /\ UNCHANGED <<tip, clone, pushes>>

(* The branch, or its ref in the clone, may be gone: the task raises.        *)
UpdateBranchTopCommit(b) ==
    /\ Takes("UpdateBranchTopCommit", b)
    /\ LET moved == [LookupCommits(db, {tip[b]}) EXCEPT !.head[b] = tip[b]]
           new == IF tip[b] = db.head[b] THEN db ELSE RecalculateBranchPins(moved, {b})
       IN  Commit("UpdateBranchTopCommit", b,
                  IF b \notin db.branch \/ tip[b] = None THEN db
                  ELSE LoadHistory(new, tip[b]))
    /\ UNCHANGED git

UpdateCommitData(c) ==
    /\ Takes("UpdateCommitData", c)
    /\ Commit("UpdateCommitData", c, LoadHistory(db, c))
    /\ UNCHANGED git

CommitTestParse(c) ==
    /\ Takes("CommitTestParse", c)
    /\ Commit("CommitTestParse", c, Parse(db, clone, c))
    /\ UNCHANGED git

(* _checkBranchAutocreate, _createNewBranchFromTemplate: the new branch is    *)
(* pushed, and recorded at once together with the one that it tracks.        *)
CheckBranchAutocreate(b) ==
    /\ Takes("CheckBranchAutocreate", b)
    /\ LET tm == Template[b]
           good == /\ b \in db.branch /\ db.tracks[b] = None /\ tm # None
                   /\ tm.source \in db.branch /\ db.head[tm.source] \in db.data
                   /\ tm.new \notin db.branch /\ remote[tm.new] = None
       IN  /\ Commit("CheckBranchAutocreate", b,
                     IF good THEN Queue([db EXCEPT !.branch = @ \cup {tm.new},
                                                   !.tracks[tm.new] = b],
                                        {Task("UpdateBranchTopCommit", tm.new)})
                     ELSE db)
           /\ IF good THEN /\ remote' = [remote EXCEPT ![tm.new] = tm.commit]
                           /\ tip' = [tip EXCEPT ![tm.new] = tm.commit]
                           /\ clone' = clone \cup Reachable(tm.commit)
                           /\ hook' = hook \cup {RepoOf[b]}
              ELSE UNCHANGED git

---------------------------------------------------------------------------
(* The git server and its users *)

(* The webhook of the repository was installed when it was first refreshed.  *)
Push(b, c) ==
    /\ pushes < MaxPushes /\ pushes' = pushes + 1
    /\ remote[b] # c /\ (c # None => RepoOf[c] = RepoOf[b])
    /\ remote' = [remote EXCEPT ![b] = c]
    /\ hook' = hook \cup {RepoOf[b]}
    /\ UNCHANGED <<tip, clone, db, task, fetched>>

(* A mistake: a refresh under way is taken to be enough. *)
WebhookUnlessBusy(r) ==
    /\ r \in hook /\ hook' = hook \ {r}
    /\ task' = IF db.repo[r] = "unknown" \/ fetched # None THEN task
               ELSE task \cup {Task("RefreshBranches", r)}
    /\ UNCHANGED <<remote, tip, clone, db, fetched, pushes>>

(* markBranchListDirty, which asserts that the repository is known. *)
Webhook(r) ==
    /\ r \in hook /\ hook' = hook \ {r}
    /\ task' = IF db.repo[r] = "unknown" THEN task ELSE task \cup {Task("RefreshBranches", r)}
    /\ UNCHANGED <<remote, tip, clone, db, fetched, pushes>>

(* markRepoListDirty, from the page that lists the repositories. *)
Refresh ==
    /\ pushes < MaxPushes /\ pushes' = pushes + 1
    /\ task' = task \cup {Task("RefreshRepos", None)}
    /\ UNCHANGED <<git, db, fetched>>

(* _forceTriggerCommitTestParse, from the page of a commit. *)
ForceParse(c) ==
    /\ fetched = None /\ c \in db.data /\ pushes < MaxPushes /\ pushes' = pushes + 1
    /\ LET again == Parse([db EXCEPT !.parsed = @ \ {c}, !.noTests = @ \ {c}], clone, c)
           d == RecalculateBranchPins(again, HeadAt(db, c))
       IN  db' = [d EXCEPT !.new = {}] /\ task' = task \cup d.new
    /\ UNCHANGED <<git, fetched>>

Tasks ==
    \/ RefreshRepos \/ ListBranches
    \/ \E r \in Repos : FetchOrigin("RefreshBranches", r) \/ FetchOrigin("FirstRefresh", r)
    \/ \E b \in Branches : UpdateBranchTopCommit(b) \/ CheckBranchAutocreate(b)
    \/ \E c \in Commits : UpdateCommitData(c) \/ CommitTestParse(c)

Next ==
    \/ Tasks \/ Refresh
    \/ \E b \in Branches, c \in Commits \cup {None} : Push(b, c)
    \/ \E r \in Repos : Webhook(r)
    \/ \E c \in Commits : ForceParse(c)

Spec == Init /\ [][Next]_vars

---------------------------------------------------------------------------
(* A commit that is not parsed yet, and not known to have no tests, waits for *)
(* something that really is not there, or its parsing is queued: whatever the *)
(* order in which branches and commits of several repositories became known,  *)
(* none is forgotten.                                                       *)
NoCommitForgotten == \A c \in db.data \ (db.parsed \cup db.noTests) :
    \/ Task("CommitTestParse", c) \in task
    \/ \E r \in Repos : <<c, r>> \in db.needsRepo /\ db.repo[r] = "unknown"
    \/ \E x \in Commits : <<c, x>> \in db.needsCommit /\ x \notin db.data

(* A test is linked to each test it depends on exactly if that exists, and   *)
(* else waits for it: neither order of creation loses the link.             *)
TestDepsExact == \A t \in db.test : \A x \in DepsOf[t] :
    IF x \in db.test THEN <<t, x>> \in db.testDep /\ <<t, x>> \notin db.needsTest
    ELSE <<t, x>> \in db.needsTest /\ <<t, x>> \notin db.testDep

(* The pins of a branch are those of the commit at its head, whichever of    *)
(* the two the server learnt of first; but if the commit had to wait for     *)
(* another one and was parsed later, in a task of its own, then they stay     *)
(* those of its own file: CommitTestParse does not look at the branches.      *)
PinsMatchHead == \A b \in db.branch :
    LET c == db.head[b]
    IN  IF c \notin db.data THEN db.pins[b] = {}
        ELSE db.pins[b] \in {db.repos[c]} \cup IF c \in db.parsed THEN {PinsOf[c]} ELSE {}

(* When all is quiet the database shows the branches of the git server, also *)
(* if they changed between the fetch and the listing, and everything they    *)
(* reach is loaded.                                                         *)
Quiet == hook = {} /\ fetched = None /\ task = {}
QuietMeansCurrent == Quiet =>
    /\ db.branch = {b \in Branches : remote[b] # None /\ db.repo[RepoOf[b]] # "unknown"}
    /\ \A b \in db.branch : /\ db.head[b] = remote[b]
                            /\ Reachable(remote[b]) \subseteq db.data

=============================================================================
