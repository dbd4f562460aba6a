------------------------------ MODULE MCServer ------------------------------
(* Components of the server side by side. A behaviour is one of a single    *)
(* component; those other than the output of tests share the variables       *)
(* s1 ... s13, and keep the ones they have no use for.                      *)
EXTENDS Streams, FiniteSets, TLC

CONSTANTS None

VARIABLES part, s1, s2, s3, s4, s5, s6, s7, s8, s9, s10, s11, s12, s13

from11 == <<s11, s12, s13>>
from9 == <<s9, s10, from11>>
slots == <<s1, s2, s3, s4, s5, s6, s7, s8, from9>>

From11 == s11 = 0 /\ s12 = 0 /\ s13 = 0
From9 == s9 = 0 /\ s10 = 0 /\ From11
Slots == s1 = 0 /\ s2 = 0 /\ s3 = 0 /\ s4 = 0 /\ s5 = 0 /\ s6 = 0 /\ s7 = 0 /\ s8 = 0 /\ From9

---------------------------------------------------------------------------
(* A repository A, whose commits refer to those of a library L, and a branch *)
(* "at" that is made for the branch "aw".                                   *)
LCommits == {"l1", "l2"}
ACommits == {"a1", "a2", "a3"}
RepoOf == [x \in LCommits \cup {"lm"} |-> "L"]
             @@ [x \in ACommits \cup {"am", "aw", "at"} |-> "A"]
Nowhere == [am |-> None, aw |-> None, at |-> None, lm |-> None]
Heads == {[Nowhere EXCEPT !.am = "a2", !.lm = "l1", !.aw = x] : x \in {None, "a3"}}

Parsing == INSTANCE CommitParsing WITH
    Commits <- ACommits \cup LCommits, Repos <- {"A", "L"},
    Branches <- DOMAIN Nowhere, Tests <- {"t1", "t2", "t3"}, RepoOf <- RepoOf,
    LookingBack <- [a1 |-> <<"a1">>, a2 |-> <<"a2", "a1">>, a3 |-> <<"a3", "a1">>,
                    l1 |-> <<"l1">>, l2 |-> <<"l2", "l1">>],
    Refs <- [a1 |-> {"l1"}, a2 |-> {"l2"}, a3 |-> {}, l1 |-> {}, l2 |-> {}],
    Includes <- [c \in ACommits \cup LCommits |-> {}],
    TestsOf <- [a1 |-> {"t1"}, a2 |-> {"t1", "t2"}, a3 |-> {}, l1 |-> {"t3"}, l2 |-> {}],
    DepsOf <- [t1 |-> {"t3"}, t2 |-> {"t1", "t3"}, t3 |-> {}],
    NoFile <- {"l2"}, Old <- {"a3"},
    PinsOf <- [a1 |-> {"lm"}, a2 |-> {"lm"}, a3 |-> {"lm"}, l1 |-> {}, l2 |-> {}],
    MorePinsOf <- [a1 |-> {}, a2 |-> {"aw"}, a3 |-> {}, l1 |-> {}, l2 |-> {}],
    Template <- [Nowhere EXCEPT !.aw = [new |-> "at", source |-> "am", commit |-> "a3"]],
    Listings <- {{"A"}, {"A", "L"}}, Heads <- Heads, MaxPushes <- 1,
    remote <- s1, tip <- s2, clone <- s3, hook <- s4, db <- s5, task <- s6,
    fetched <- s7, pushes <- s8

---------------------------------------------------------------------------
(* Three branches: a triangle and a chain of automatic pins, two graphs with *)
(* a cycle, and a triangle with a pin that is not automatic.                 *)
Auto(b, t) == [branch |-> b, to |-> t, auto |-> TRUE]
ByHand(b, t) == [branch |-> b, to |-> t, auto |-> FALSE]
PinGraphs == { {Auto("b", "a"), Auto("c", "a"), Auto("c", "b")},
               {Auto("b", "a"), Auto("c", "b")},
               {Auto("a", "b"), Auto("b", "a"), Auto("c", "a")},
               {Auto("a", "b"), Auto("b", "a"), Auto("a", "c")},
               {Auto("b", "a"), ByHand("c", "b"), Auto("c", "a")} }

Pinning == INSTANCE BranchPinning WITH
    Branches <- {"a", "b", "c"}, Graphs <- PinGraphs, MaxChain <- 4, MaxEvents <- 2,
    pins <- s1, store <- s2, remote <- s3, head <- s4, hook <- s5, task <- s6,
    plan <- s7, updated <- s8, for <- s9, events <- s10

---------------------------------------------------------------------------
(* Three commits in two repositories, three tests, three runs of two of them; *)
(* the destination may miss a repository, a commit or a test.                *)
SourceTests == [c1 |-> {"t1"}, c2 |-> {"t1", "t2"}, c3 |-> {"t3"}]
Same == [repos |-> {"r1", "r2"}, commits |-> DOMAIN SourceTests, tests |-> SourceTests]

Import == INSTANCE ImportExport WITH
    Commits <- DOMAIN SourceTests, Tests <- {"t1", "t2", "t3"},
    Runs <- {"x1", "x2", "x3"}, Branches <- {"b1", "b2"},
    RepoOf <- [c1 |-> "r1", c2 |-> "r1", c3 |-> "r2"],
    Parents <- [c1 |-> {}, c2 |-> {"c1"}, c3 |-> {}], TestsOf <- SourceTests,
    HeadOf <- [b1 |-> "c2", b2 |-> "c3"], Priority <- [c1 |-> 0, c2 |-> 1, c3 |-> 1],
    RunTest <- [x1 |-> "t1", x2 |-> "t1", x3 |-> "t2"],
    Destinations <- {Same, [Same EXCEPT !.repos = {"r1"}],
                     [Same EXCEPT !.commits = {"c1", "c3"}],
                     [Same EXCEPT !.tests["c2"] = {"t1"}]},
    BatchSize <- 2, MaxCrashes <- 1,
    runs <- s1, underTest <- s2, dst <- s3, phase <- s4, toCheck <- s5, file <- s6,
    db <- s7, work <- s8, left <- s9, curRepo <- s10, seen <- s11, errors <- s12,
    crashes <- s13

---------------------------------------------------------------------------
MCInit ==
    /\ Init
    /\ \/ part = "log" /\ Slots
       \/ /\ kind = "test"
          /\ \/ part = "parsing" /\ Parsing!Init /\ From9
             \/ part = "pinning" /\ Pinning!Init /\ From11
             \/ part = "import" /\ Import!Init

MCNext ==
    /\ UNCHANGED part
    /\ \/ part = "log" /\ Next /\ UNCHANGED slots
       \/ /\ UNCHANGED vars
          /\ \/ part = "parsing" /\ Parsing!Next /\ UNCHANGED from9
             \/ part = "pinning" /\ Pinning!Next /\ UNCHANGED from11
             \/ part = "import" /\ Import!Next

MCSpec == MCInit /\ [][MCNext]_<<part, vars, slots>>

WatchersAlike == Permutations(Watchers)

---------------------------------------------------------------------------
(* In whatever order repositories, branches, commits and tests become known,  *)
(* no commit is left unparsed, no dependency between tests is lost, pins      *)
(* follow heads, and when all is quiet the database shows the git server      *)
(* (NoCommitForgotten, TestDepsExact, PinsMatchHead, QuietMeansCurrent).      *)
CommitsKnown ==
    part = "parsing" => /\ Parsing!NoCommitForgotten /\ Parsing!TestDepsExact
                        /\ Parsing!PinsMatchHead /\ Parsing!QuietMeansCurrent

(* Through races with users, refused pushes and crashes, no branch names a    *)
(* commit that is not in the branch it pins, every automatic pin reaches the  *)
(* head in the end, and no commit is skipped where none may be               *)
(* (PinnedCommitsExist, QuietMeansPinned, NoCommitSkipped).                  *)
PinsFollow ==
    part = "pinning" => /\ Pinning!PinnedCommitsExist /\ Pinning!QuietMeansPinned
                        /\ Pinning!NoCommitSkipped

(* However often an import dies in the middle of a batch and is started       *)
(* again, every run comes over and is counted once, and priorities and        *)
(* branches keep their settings (ImportedExactly, SettingsKept).             *)
HistoryMoves == part = "import" => Import!ImportedExactly /\ Import!SettingsKept
=============================================================================
