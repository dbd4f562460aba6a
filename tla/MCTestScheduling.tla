-------------------------- MODULE MCTestScheduling --------------------------
(* Instances of TestScheduling for TLC. *)
EXTENDS TestScheduling, TLC

CONSTANTS c1, c2, c3, build, test

(* A build and a test that needs its artifact, in two commits of unrelated *)
(* history: the test's commit is not on a branch at first.                 *)
TwoCommits == {c1, c2}
OneBranch == {1}
OnFirst == [b \in Branches |-> c1]
BuildAndTest == {build, test}
BuildInFirst == [c \in Commits |-> IF c = c1 THEN {build} ELSE {test}]
BothInFirst == [c \in Commits |-> IF c = c1 THEN {build, test} ELSE {test}]
TestNeedsBuild == {<<test, build, 1>>}

Kinds == [t \in Tests |-> IF t = build THEN "Build" ELSE "Test"]
OneArtifact == [t \in Tests |-> IF t = build THEN 1 ELSE 0]
NoRetries == [t \in Tests |-> 0]
TwoTries == [t \in Tests |-> IF t = build THEN 2 ELSE 0]
OneCategory == [t \in Tests |-> "linux"]
OwnCategories == [t \in Tests |-> IF t = build THEN "linux" ELSE "windows"]

(* Two branches, a history of two commits and one that replaces it; all    *)
(* three commits share a test.                                             *)
ThreeCommits == {c1, c2, c3}
Line == {<<c2, c1>>}
TwoBranches == {1, 2}
OnSecond == [b \in Branches |-> IF b = 2 THEN c2 ELSE NoCommit]
TestInAll == [c \in Commits |-> {test}]

=============================================================================
