------------------------ MODULE TestDefinitionScript ------------------------
(***************************************************************************)
(* From a test definition file, once its macros are expanded, to tests and *)
(* environments (extract_tests and extract_tests_from_str in               *)
(* data_model/TestDefinitionScript.py).                                    *)
(*                                                                         *)
(* Names of tests and dependency strings are the sequences of their parts  *)
(* between slashes.  A part in Substituted contains a variable reference.  *)
(***************************************************************************)
EXTENDS Integers, Sequences, FiniteSets, SequencesExt

CONSTANTS
  Scripts,        \* the scripts that are tried
  Substituted     \* parts with a '$'

VARIABLES
  script,         \* version, repos, external, environments, builds, tests, deployments
  environments,   \* environments read so far
  allTests,       \* tests converted so far
  todo,           \* names and definitions that are left, in order
  phase

vars == <<script, environments, allTests, todo, phase>>

ValidVersions == {4}
ReservedNames == {"data", "source", "HEAD"}

AllRepos == DOMAIN script.repos \union script.external

\* TestDefinition.TestDependency, with what it is about
Source(path) == <<"Source", path>>
InternalBuild(name) == <<"InternalBuild", name>>
UnresolvedSource(repo, path) == <<"UnresolvedSource", repo, path>>
UnresolvedExternalBuild(repo, name) == <<"UnresolvedExternalBuild", repo, name>>
Invalid == <<"Invalid">>

IsSource(deps) == Len(deps) = 1 \/ deps[2] = "source"
Path(deps) == SubSeq(deps, 3, Len(deps))

(* map_environment_dep *)
MapEnvironmentDep(deps) ==
  CASE deps[1] \in Substituted -> Invalid
    [] deps[1] = "HEAD" /\ IsSource(deps) -> Source(Path(deps))
    [] deps[1] = "HEAD" /\ ~IsSource(deps) ->
         IF Len(deps) < 3 THEN Invalid ELSE InternalBuild(Tail(deps))
    [] deps[1] \in AllRepos \ {"HEAD"} /\ IsSource(deps) ->
         UnresolvedSource(deps[1], Path(deps))
    [] deps[1] \in AllRepos \ {"HEAD"} /\ ~IsSource(deps) ->
         IF Len(deps) < 3 THEN Invalid ELSE UnresolvedExternalBuild(deps[1], Tail(deps))
    [] OTHER -> Invalid

\* A bug for comparison: a name of two parts is taken for a build of this commit.
ConvertBuildDepShort(deps) ==
  CASE deps[1] \in Substituted -> Invalid
    [] Len(deps) = 2 -> InternalBuild(deps)
    [] deps[1] = "HEAD" -> IF IsSource(deps) THEN Source(Path(deps)) ELSE InternalBuild(Tail(deps))
    [] deps[1] \in AllRepos -> IF IsSource(deps) THEN UnresolvedSource(deps[1], Path(deps))
                               ELSE UnresolvedExternalBuild(deps[1], Tail(deps))
    [] OTHER -> InternalBuild(deps)

(* convert_build_dep *)
ConvertBuildDep(deps) ==
  CASE deps[1] \in Substituted -> Invalid
    [] deps[1] = "HEAD" /\ deps[1] \notin Substituted ->
         IF IsSource(deps) THEN Source(Path(deps)) ELSE InternalBuild(Tail(deps))
    [] deps[1] \in AllRepos \ {"HEAD"} /\ IsSource(deps) ->
         UnresolvedSource(deps[1], Path(deps))
    [] deps[1] \in AllRepos \ {"HEAD"} /\ ~IsSource(deps) ->
         IF Len(deps) < 3 THEN Invalid ELSE UnresolvedExternalBuild(deps[1], Tail(deps))
    [] OTHER -> InternalBuild(deps)

-----------------------------------------------------------------------------
Init ==
  /\ script \in Scripts
  /\ environments = [e \in {} |-> Invalid]
  /\ allTests = [t \in {} |-> Invalid]
  /\ todo = <<>>
  /\ phase = "version"

Raise ==
  /\ phase' = "raised"
  /\ UNCHANGED <<script, environments, allTests, todo>>

\* extract_tests_from_str: looper_version; then the repos of extract_tests: no
\* reserved name, and a reference is a repo and a commit.
ReposValid == \A r \in DOMAIN script.repos :
  r \notin ReservedNames /\ Len(script.repos[r]) >= 2 /\ Last(script.repos[r]) # ""

CheckRepos ==
  /\ phase = "version"
  /\ IF script.version \in ValidVersions /\ ReposValid
     THEN /\ phase' = "environments"
          /\ UNCHANGED <<script, environments, allTests, todo>>
     ELSE Raise

(* parseEnvironment: a base of one part is an environment of this commit, one *)
(* of two parts names a repo.                                                *)
ImportOf(parts) == IF Len(parts) = 1 THEN <<"Reference", parts[1]>>
                   ELSE <<"UnresolvedReference", parts[1], parts[2]>>

ParseEnvironment(e) ==
  LET d == script.environments[e]
      deps == {MapEnvironmentDep(x) : x \in d.dependencies}
  IN  /\ phase = "environments"
      /\ e \notin DOMAIN environments
      /\ IF Invalid \in deps \/ \E b \in d.base : Len(b) > 2 THEN Raise
         ELSE /\ environments' = [x \in DOMAIN environments \union {e} |->
                   IF x = e THEN [imports |-> {ImportOf(b) : b \in d.base},
                                  dependencies |-> deps]
                   ELSE environments[x]]
              /\ UNCHANGED <<script, allTests, todo, phase>>

EnvironmentsDone ==
  /\ phase = "environments"
  /\ DOMAIN environments = DOMAIN script.environments
  /\ phase' = "tests"
  /\ todo' = script.builds \o script.tests \o script.deployments
  /\ UNCHANGED <<script, environments, allTests>>

(* convert_def: the environment is the last part of the name unless it is     *)
(* given; a command makes one more stage, which is ordered last and keeps the *)
(* output directory as its unnamed artifact.                                 *)
ConvertedDef(name, d) ==
  [environment  |-> IF d.environment = "" THEN Last(name) ELSE d.environment,
   dependencies |-> {ConvertBuildDep(x) : x \in d.dependencies},
   artifacts    |-> IF d.command THEN d.artifacts \union {""} ELSE d.artifacts]

ConvertDef ==
  /\ phase = "tests"
  /\ todo # <<>>
  /\ LET name == Head(todo).name
         c == ConvertedDef(name, Head(todo))
     IN  IF name[1] \in AllRepos \/ Invalid \in c.dependencies \/ c.environment \in Substituted
         THEN Raise
         ELSE /\ allTests' = [t \in DOMAIN allTests \union {name} |->
                                IF t = name THEN c ELSE allTests[t]]
              /\ todo' = Tail(todo)
              /\ UNCHANGED <<script, environments, phase>>

Extracted ==
  /\ phase = "tests"
  /\ todo = <<>>
  /\ phase' = "done"
  /\ UNCHANGED <<script, environments, allTests, todo>>

Next ==
  \/ CheckRepos \/ EnvironmentsDone \/ ConvertDef \/ Extracted
  \/ \E e \in DOMAIN script.environments : ParseEnvironment(e)

Spec == Init /\ [][Next]_vars

-----------------------------------------------------------------------------
(***************************************************************************)
(* In a file that is accepted every test can be depended on by its name    *)
(* or by HEAD/name, although names, repos and the words HEAD and source    *)
(* share one syntax; and what an environment may depend on means the same  *)
(* build or source when a test depends on it.                              *)
(***************************************************************************)
NamesMeanOneThing ==
  phase = "done" =>
    /\ \A n \in DOMAIN allTests :
         InternalBuild(n) \in {ConvertBuildDep(n), ConvertBuildDep(<<"HEAD">> \o n)}
    /\ \A e \in DOMAIN script.environments :
         \A x \in script.environments[e].dependencies :
           ConvertBuildDep(x) = MapEnvironmentDep(x)
=============================================================================
