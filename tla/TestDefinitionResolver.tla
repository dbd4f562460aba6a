----------------------- MODULE TestDefinitionResolver -----------------------
(***************************************************************************)
(* How the tests of a commit are found: its repo references are resolved, the  *)
(* files that it includes are read (postIncludeDefinitions_), and the tests    *)
(* that they define are given their environments, checked, enabled and        *)
(* hashed (testDefinitionsFor).                                             *)
(*                                                                         *)
(* A file is a pair of a repo and a path. An include directive has a path, the *)
(* way it begins ("." or "/", or a repo), and what it adds to the variables,   *)
(* which are a number here. The name of a test is a sequence of parts; what a  *)
(* dependency names is a test and, behind it, an artifact. Dictionaries are    *)
(* walked in any order.                                                     *)
(***************************************************************************)
EXTENDS Integers, Sequences, SequencesExt, FiniteSets, TLC

CONSTANTS
    Here, Other,       \* the commit's repo, and one that it refers to
    Paths,             \* files in each of them
    MaxAttempts,       \* MAX_INCLUDE_ATTEMPTS
    Inputs,            \* pairs of what the files contain and of the repo references
    OtherRepos         \* references of the other repo's commit, resolved

Files == {Here, Other} \X Paths
Root == <<Here, "root">>

VARIABLES
    script,            \* the files: includes, and tests with their definitions
    repoDefs,          \* the references as they are written
    phase,
    queue,             \* includes that are still to be read
    everIncluded,      \* keys of those that were read
    attempts,
    tests,             \* the definitions so far
    todo,              \* tests that the present loop has still to see
    hash,              \* hashes of resolved_tests
    raised

vars == <<script, repoDefs, phase, queue, everIncluded, attempts, tests, todo, hash, raised>>

Init ==
    /\ \E i \in Inputs : script = i[1] /\ repoDefs = i[2]
    /\ phase = "raw" /\ queue = <<>> /\ everIncluded = {} /\ attempts = 0
    /\ tests = <<>> /\ todo = {} /\ hash = <<>> /\ raised = ""

Raise(why) == raised' = why /\ phase' = "raised"

---------------------------------------------------------------------------
(* resolveRepoDefinitions_: an import is followed through the references of     *)
(* the repos on its way. To follow one that goes round in circles ends with   *)
(* the depth of the stack.                                                  *)
Unresolved == "unresolved"

RECURSIVE ResolveRepoRef(_, _)
ResolveRepoRef(name, depth) ==
    LET ref == repoDefs[name]
        first == ResolveRepoRef(ref.path[1], depth - 1)
    IN  IF ref.kind = "Reference" THEN ref.to ELSE
        IF depth = 0 \/ ref.path[1] \notin DOMAIN repoDefs THEN Unresolved ELSE
        IF Len(ref.path) = 1 \/ first = Unresolved THEN first ELSE
        IF ref.path[2] \in DOMAIN OtherRepos[first] THEN OtherRepos[first][ref.path[2]]
        ELSE Unresolved

Repos == [r \in DOMAIN repoDefs |-> ResolveRepoRef(r, Cardinality(DOMAIN repoDefs) + 1)]

---------------------------------------------------------------------------
(* unprocessedTestsEnvsAndReposFor_, and the start of postIncludeDefinitions_ *)
ReadRaw ==
    /\ phase = "raw"
    /\ IF \E r \in DOMAIN repoDefs : Repos[r] = Unresolved
       THEN Raise("repo reference") /\ UNCHANGED <<queue, tests>>
       ELSE /\ phase' = "include" /\ UNCHANGED raised
            /\ queue' = [i \in DOMAIN script[Root].includes |->
                            [directive |-> script[Root].includes[i], variables |-> 0]]
            /\ tests' = script[Root].tests
    /\ UNCHANGED <<script, repoDefs, everIncluded, attempts, todo, hash>>

(* resolveIncludeString_: a path without a repo is one of the commit's own     *)
(* repo, wherever the directive stands.                                     *)
IncludeTarget(d) == <<IF d.begin = "repo" THEN Other ELSE Here, d.path>>

Key(item) == [file |-> IncludeTarget(item.directive),
              variables |-> item.variables + item.directive.adds]

(* A mistake: a file that was read with other variables counts as read. *)
SeenFile(key) == \E k \in everIncluded : k.file = key.file

Seen(key) == key \in everIncluded

(* One round of the loop over the includes. *)
Include ==
    /\ phase = "include" /\ queue # <<>>
    /\ LET key == Key(Head(queue))
           new == script[key.file].tests
           more == [i \in DOMAIN script[key.file].includes |->
                       [directive |-> script[key.file].includes[i], variables |-> key.variables]]
       IN  IF Seen(key)
           THEN queue' = Tail(queue) /\ UNCHANGED <<everIncluded, attempts, tests, raised, phase>>
           ELSE /\ attempts' = attempts + 1
                /\ IF attempts' > MaxAttempts
                   THEN Raise("too many") /\ UNCHANGED <<queue, everIncluded, tests>>
                   ELSE /\ everIncluded' = everIncluded \cup {key}
                        /\ IF script[key.file] = [includes |-> <<>>, tests |-> <<>>]
                           THEN Raise("no such file") /\ UNCHANGED <<queue, tests>> ELSE
                           IF \E t \in DOMAIN new : t \in DOMAIN tests
                           THEN Raise("defined twice") /\ UNCHANGED <<queue, tests>>
                           ELSE /\ queue' = Tail(queue) \o more /\ tests' = tests @@ new
                                /\ UNCHANGED <<raised, phase>>
    /\ UNCHANGED <<script, repoDefs, todo, hash>>

---------------------------------------------------------------------------
(* resolveTestNameToTestAndArtifact: the shortest prefix that is a test *)
Resolves(name) == Prefixes(name) \cap DOMAIN tests # {}
Target(name) == CHOOSE p \in Prefixes(name) \cap DOMAIN tests :
                   \A q \in Prefixes(name) \cap DOMAIN tests : Len(p) <= Len(q)
ArtifactOf(name) == SubSeq(name, Len(Target(name)) + 1, Len(name))
ValidDependency(name) == Resolves(name) /\ ArtifactOf(name) \in tests[Target(name)].artifacts

Children(t) == {Target(d) : d \in tests[t].dependencies}

RECURSIVE Below(_, _)
Below(ts, n) == IF n = 0 THEN ts ELSE Below(ts \cup UNION {Children(t) : t \in ts}, n - 1)
Descendants(ts) == Below(ts, Cardinality(DOMAIN tests))

(* The tests get their environments; assertTestsNoncircular_. *)
Check ==
    /\ phase = "include" /\ queue = <<>>
    /\ IF \E t \in DOMAIN tests : \E d \in tests[t].dependencies : ~ValidDependency(d)
       THEN Raise("dependency") /\ UNCHANGED todo ELSE
       IF \E t \in DOMAIN tests : t \in Descendants(Children(t))
       THEN Raise("circular") /\ UNCHANGED todo
       ELSE phase' = "enable" /\ todo' = DOMAIN tests /\ UNCHANGED raised
    /\ UNCHANGED <<script, repoDefs, queue, everIncluded, attempts, tests, hash>>

(* ensureChildrenNotDisabled: it goes on below a test only if that was         *)
(* disabled.                                                                *)
RECURSIVE DisabledBelow(_, _)
DisabledBelow(ts, n) ==
    LET kids == {c \in UNION {Children(t) : t \in ts} : tests[c].disabled}
    IN  IF n = 0 THEN ts ELSE DisabledBelow(ts \cup kids, n - 1)
EnsureChildren(t) == DisabledBelow({t}, Cardinality(DOMAIN tests)) \ {t}

(* ensureAllAppropriateChildrenEnabled_, one test of the loop *)
Enable(t) ==
    /\ phase = "enable" /\ t \in todo /\ todo' = todo \ {t}
    /\ tests' = IF tests[t].disabled THEN tests
                ELSE [x \in DOMAIN tests |-> IF x \in EnsureChildren(t)
                                             THEN [tests[x] EXCEPT !.disabled = FALSE]
                                             ELSE tests[x]]
    /\ UNCHANGED <<script, repoDefs, phase, queue, everIncluded, attempts, hash, raised>>

Enabled ==
    /\ phase = "enable" /\ todo = {}
    /\ phase' = "resolve" /\ todo' = DOMAIN tests
    /\ UNCHANGED <<script, repoDefs, queue, everIncluded, attempts, tests, hash, raised>>

---------------------------------------------------------------------------
(* assertArtifactSetValid *)
ArtifactSetValid(t) == <<>> \in tests[t].artifacts => tests[t].artifacts = {<<>>}

(* The hash of a test covers its definition and the hashes of what it needs. *)
RECURSIVE HashOf(_)
HashOf(t) ==
    [of |-> tests[t], needs |-> {<<d, HashOf(Target(d))>> : d \in tests[t].dependencies}]

(* resolveTest, with those that it needs and that have no hash yet *)
ResolveTest(t) ==
    /\ phase = "resolve" /\ t \in todo
    /\ LET all == Descendants({t}) \cap todo
       IN  IF \E x \in all : ~ArtifactSetValid(x)
           THEN Raise("artifacts") /\ UNCHANGED <<todo, hash>>
           ELSE /\ hash' = hash @@ [x \in all |-> HashOf(x)] /\ todo' = todo \ all
                /\ UNCHANGED <<phase, raised>>
    /\ UNCHANGED <<script, repoDefs, queue, everIncluded, attempts, tests>>

Finish ==
    /\ phase = "resolve" /\ todo = {} /\ phase' = "done"
    /\ UNCHANGED <<script, repoDefs, queue, everIncluded, attempts, tests, todo, hash, raised>>

Next == \/ ReadRaw \/ Include \/ Check \/ Enabled \/ Finish
        \/ \E t \in DOMAIN tests : Enable(t) \/ ResolveTest(t)

Spec == Init /\ [][Next]_vars

---------------------------------------------------------------------------
(* What the directives lead to, whichever order they are followed in *)
RECURSIVE Closure(_, _)
Closure(keys, n) ==
    LET from(k) == {Key([directive |-> d, variables |-> k.variables]) :
                       d \in Range(script[k.file].includes)}
    IN  IF n = 0 THEN keys ELSE Closure(keys \cup UNION {from(k) : k \in keys}, n - 1)
Reachable == Closure({Key([directive |-> d, variables |-> 0]) : d \in Range(script[Root].includes)},
                     MaxAttempts + 1)

(* Every file that is reached is read, once for each set of variables, and the  *)
(* tests are those of these files; only a name that two of them define, or    *)
(* more files than are allowed, or one that is missing, stops it, so that      *)
(* files that include each other do no harm.                                *)
IncludesExact ==
    /\ phase \notin {"raw", "include", "raised"} =>
          /\ everIncluded = Reachable
          /\ DOMAIN tests = DOMAIN script[Root].tests \cup
                               UNION {DOMAIN script[k.file].tests : k \in Reachable}
    /\ raised = "too many" => Cardinality(Reachable) > MaxAttempts
    /\ raised = "defined twice" => \E k \in Reachable : \E t \in DOMAIN script[k.file].tests :
          \/ t \in DOMAIN script[Root].tests
          \/ \E j \in Reachable : j # k /\ t \in DOMAIN script[j.file].tests

(* "make sure that any internally-defined tests that an enabled test depends    *)
(* on are marked enabled": these, at any depth, and no others.               *)
EnabledExact == phase \in {"resolve", "done"} =>
    LET written(t) == IF t \in DOMAIN script[Root].tests THEN script[Root].tests[t]
                      ELSE LET k == CHOOSE k \in Reachable : t \in DOMAIN script[k.file].tests
                           IN  script[k.file].tests[t]
    IN  {t \in DOMAIN tests : ~tests[t].disabled}
           = Descendants({t \in DOMAIN tests : ~written(t).disabled})
=============================================================================
