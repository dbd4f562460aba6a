---------------------------- MODULE ImportExport ----------------------------
(***************************************************************************)
(* Moving a test-looper's history to another installation                  *)
(* (data_model/ImportExport.py, TestManager._importTestRun, and the        *)
(* --export and --import modes of server/test-looper-server.py).           *)
(*                                                                         *)
(* export walks the source database inside one view, so the source is a    *)
(* value that Init chooses.  importResults works on the destination in     *)
(* transactions of BatchSize commits (100 in the code); the process may    *)
(* die in between and the operator then starts the import again with the   *)
(* same file.  `db' is what the destination's store holds, `work' what the *)
(* open transaction sees.                                                  *)
(***************************************************************************)
EXTENDS Integers, FiniteSets, FiniteSetsExt

CONSTANTS
  Commits, Tests, Runs, Branches,
  RepoOf,       \* the repo of a commit
  Parents,      \* the parents of a commit
  TestsOf,      \* commit.data.tests in the source
  HeadOf,         \* the commit a branch points at
  Priority,     \* userPriority of the source's commits
  RunTest,      \* the test a run belongs to
  Destinations, \* what the destination may have: the repos it lists, the
                \* commits of its clones, the tests it finds in a commit
  BatchSize,    \* commits per transaction
  MaxCrashes    \* bound: deaths of the importing process

VARIABLES
  runs,       \* source: what became of each run
  underTest,  \* source: branches with isUnderTest
  dst,        \* the destination's source control
  phase,      \* what the process is doing
  toCheck,    \* export: commitsToCheck
  file,       \* the exported file: a commit's tests that are dumped under it
  db,         \* destination, committed
  work,       \* destination, inside the open transaction
  left,       \* import: commits of the file not yet reached
  curRepo,    \* import: the repo whose commits are being read
  seen,       \* import: commits of this repo so far
  errors,     \* import: the errors listed so far
  crashes

vars == <<runs, underTest, dst, phase, toCheck, file, db, work, left,
          curRepo, seen, errors, crashes>>

Outcomes == {"active", "passed", "failed", "canceled"}
Repos == {RepoOf[c] : c \in Commits}
NoRepo == "none"

EmptyDatabase == [data      |-> {},
                  priority  |-> [c \in Commits |-> 0],
                  underTest |-> {},
                  runs      |-> {},
                  counters  |-> [t \in Tests |->
                     [activeRuns |-> 0, totalRuns |-> 0, successes |-> 0]]]

-----------------------------------------------------------------------------
(* export *)

Init ==
  /\ runs \in [Runs -> Outcomes]
  /\ underTest \in SUBSET Branches
  /\ dst \in Destinations
  /\ phase = "export"
  /\ toCheck = {HeadOf[b] : b \in Branches}
  /\ file = [c \in {} |-> {}]
  /\ db = EmptyDatabase
  /\ work = EmptyDatabase
  /\ left = {}
  /\ curRepo = NoRepo
  /\ seen = 0
  /\ errors = {}
  /\ crashes = 0

Exported == DOMAIN file
Dumped == UNION {file[c] : c \in Exported}

\* commitsToCheck.pop(): any commit of the set.  A test that several commits
\* share is written under the one that is reached first.
ExportCommit(c) ==
  /\ phase = "export"
  /\ c \in toCheck
  /\ toCheck' = (toCheck \ {c}) \union (Parents[c] \ (Exported \union {c}))
  /\ file' = [x \in Exported \union {c} |->
                IF x = c THEN TestsOf[c] \ Dumped ELSE file[x]]
  /\ UNCHANGED <<runs, underTest, dst, phase, db, work, left, curRepo, seen,
                 errors, crashes>>

\* walkTest leaves canceled runs out of the file.
WalkTest(t) == {r \in Runs : RunTest[r] = t /\ runs[r] # "canceled"}

ExportDone ==
  /\ phase = "export"
  /\ toCheck = {}
  /\ phase' = "refresh"
  /\ UNCHANGED <<runs, underTest, dst, toCheck, file, db, work, left, curRepo,
                 seen, errors, crashes>>

-----------------------------------------------------------------------------
(* importResults *)

\* The first transaction: _refreshRepos, _refreshBranches, and an error for
\* every repo that the destination does not know.
ImportRepos ==
  /\ phase = "refresh"
  /\ phase' = "import"
  /\ errors' = {<<"UnknownRepo", r>> : r \in Repos \ dst.repos}
  /\ left' = Exported
  /\ curRepo' = NoRepo
  /\ work' = db
  /\ UNCHANGED <<runs, underTest, dst, toCheck, file, db, seen, crashes>>

KnownBranch(b) == RepoOf[HeadOf[b]] \in dst.repos /\ HeadOf[b] \in dst.commits

\* The next repo of the file, in any order: a transaction for the branches,
\* then one is opened for the commits.
ImportBranches(r) ==
  /\ phase = "import"
  /\ curRepo = NoRepo
  /\ \E c \in left : RepoOf[c] = r
  /\ LET bs == {b \in Branches : RepoOf[HeadOf[b]] = r}
         known == {b \in bs : KnownBranch(b)}
     IN  /\ errors' = errors \union {<<"UnknownBranch", b>> : b \in bs \ known}
         /\ db' = [db EXCEPT !.underTest = (@ \ known) \union (known \cap underTest)]
         /\ work' = db'
  /\ curRepo' = r
  /\ seen' = 0
  /\ UNCHANGED <<runs, underTest, dst, phase, toCheck, file, left, crashes>>

\* TestManager._importTestRun creates the run and counts it for its test.
NewTestRun(d, r) ==
  LET n == d.counters[RunTest[r]]
      One(S) == IF runs[r] \in S THEN 1 ELSE 0
  IN  [d EXCEPT
        !.runs = @ \union {r},
        !.counters[RunTest[r]] =
          [activeRuns |-> n.activeRuns + One({"active"}),
           totalRuns  |-> n.totalRuns  + One({"passed", "failed"}),
           successes  |-> n.successes  + One({"passed"})]]

\* A bug for comparison: the identity is not looked up first.
ImportTestRunBlindly(d, r) == NewTestRun(d, r)

\* ImportExport._importTestRun: a run that is there already is only reported.
ImportTestRun(d, r) == IF r \in d.runs THEN d ELSE NewTestRun(d, r)

ImportTest(d, t) ==
  LET Add(r, acc) == ImportTestRun(acc, r)
  IN  FoldSet(Add, d, WalkTest(t))

\* _updateSingleCommitData fills in commit.data when the clone has the commit.
UpdateSingleCommitData(d, c) ==
  IF c \in dst.commits THEN [d EXCEPT !.data = @ \union {c}] ELSE d

\* every BatchSize-th commit first closes the transaction of the ones before
Checkpoint == IF (seen + 1) % BatchSize = 0 THEN work ELSE db

ImportCommit(c) ==
  LET d == UpdateSingleCommitData(work, c)
      known == file[c] \cap dst.tests[c]
      Add(t, acc) == ImportTest(acc, t)
  IN  /\ phase = "import"
      /\ c \in left
      /\ RepoOf[c] = curRepo
      /\ curRepo \in dst.repos
      /\ c \in d.data \/ file[c] = {}
      /\ seen' = seen + 1
      /\ db' = Checkpoint
      /\ work' = [FoldSet(Add, d, known) EXCEPT !.priority[c] = Priority[c]]
      /\ errors' = errors \union {<<"UnknownTest", t>> : t \in file[c] \ known}
                          \union {<<"TestAlreadyExists", r>> :
                                    r \in {x \in work.runs : RunTest[x] \in known}}
      /\ left' = left \ {c}
      /\ UNCHANGED <<runs, underTest, dst, phase, toCheck, file, curRepo, crashes>>

\* A repo nobody knows (repo.commits of None), or tests of a commit that the
\* clone lacks (commit.data.tests of a null): the loop raises.  `finally'
\* still commits what the transaction holds and the exception ends the import.
ImportRaises(c) ==
  /\ phase = "import"
  /\ c \in left
  /\ RepoOf[c] = curRepo
  /\ \/ curRepo \notin dst.repos
     \/ c \notin UpdateSingleCommitData(work, c).data /\ file[c] # {}
  /\ phase' = "raised"
  /\ db' = IF curRepo \in dst.repos
           THEN [work EXCEPT !.priority[c] = Priority[c]] ELSE work
  /\ work' = db'
  /\ UNCHANGED <<runs, underTest, dst, toCheck, file, left, curRepo, seen, errors,
                 crashes>>

\* No commits left in this repo: the last transaction is closed.
RepoDone ==
  /\ phase = "import"
  /\ curRepo # NoRepo
  /\ \A c \in left : RepoOf[c] # curRepo
  /\ db' = work
  /\ curRepo' = NoRepo
  /\ UNCHANGED <<runs, underTest, dst, phase, toCheck, file, work, left, seen,
                 errors, crashes>>

ImportDone ==
  /\ phase = "import"
  /\ curRepo = NoRepo
  /\ left = {}
  /\ phase' = "ended"
  /\ UNCHANGED <<runs, underTest, dst, toCheck, file, db, work, left, curRepo,
                 seen, errors, crashes>>

\* The importing process dies; the operator starts it again.  What the open
\* transaction held is gone.
Crash ==
  /\ phase = "import"
  /\ crashes < MaxCrashes
  /\ crashes' = crashes + 1
  /\ phase' = "refresh"
  /\ work' = db
  /\ curRepo' = NoRepo
  /\ errors' = {}
  /\ UNCHANGED <<runs, underTest, dst, toCheck, file, db, left, seen>>

Next ==
  \/ \E c \in Commits : ExportCommit(c) \/ ImportCommit(c) \/ ImportRaises(c)
  \/ \E r \in Repos : ImportBranches(r)
  \/ ExportDone \/ ImportRepos \/ RepoDone \/ ImportDone \/ Crash

Spec == Init /\ [][Next]_vars

-----------------------------------------------------------------------------
(* What the destination counted for a test, recounted from its runs. *)
Recount(d, t) ==
  LET of(S) == Cardinality({r \in d.runs : RunTest[r] = t /\ runs[r] \in S})
  IN  [activeRuns |-> of({"active"}), totalRuns |-> of({"passed", "failed"}),
       successes |-> of({"passed"})]

(***************************************************************************)
(* An import that ends brought over every run of the source that was not   *)
(* canceled, except those of a test it reports as unknown; the counters    *)
(* of every test count each imported run once, however often the process   *)
(* died in the middle of a batch and was started again, and also in the    *)
(* part that an aborted import leaves behind.                              *)
(***************************************************************************)
ImportedExactly ==
  /\ phase = "ended" =>
       \A c \in Exported, t \in Tests :
         t \in TestsOf[c] =>
           WalkTest(t) \subseteq db.runs \/ <<"UnknownTest", t>> \in errors
  /\ \A t \in Tests : db.counters[t] = Recount(db, t)
  /\ \A r \in db.runs : runs[r] # "canceled"

(***************************************************************************)
(* Commits keep the priority the user gave them and branches whether they  *)
(* are under test, once the import has ended.                              *)
(***************************************************************************)
SettingsKept ==
  phase = "ended" =>
    /\ \A c \in Exported : db.priority[c] = Priority[c]
    /\ \A b \in Branches : KnownBranch(b) => (b \in db.underTest <=> b \in underTest)
=============================================================================
