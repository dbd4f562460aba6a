--------------------------- MODULE MCDefinitions ---------------------------
(* How test definition files become tests, component by component. A         *)
(* behaviour is one of a single component: expanding the macros of a file,    *)
(* reading the tests in it, following its includes, resolving environments,   *)
(* substituting variables, writing and reading the result, and the graph      *)
(* algorithms on graphs of three nodes. Beside them, the objects of the       *)
(* database that such a tree of definitions ends up in. Components other than *)
(* those objects share the variables d1 ... d11, and keep the ones they have  *)
(* no use for.                                                              *)
EXTENDS DatabaseObjects, TLC

CONSTANTS v1, v2, o1, o2
Symmetry == Permutations({v1, v2}) \cup Permutations({o1, o2})

VARIABLES part, d1, d2, d3, d4, d5, d6, d7, d8, d9, d10, d11

from8 == <<d8, d9, d10, d11>>
from6 == <<d6, d7, from8>>
from5 == <<d5, from6>>
slots == <<d1, d2, d3, d4, from5>>

From11 == d11 = 0
From8 == d8 = 0 /\ d9 = 0 /\ d10 = 0 /\ From11
From6 == d6 = 0 /\ d7 = 0 /\ From8
From5 == d5 = 0 /\ From6
From3 == d3 = 0 /\ d4 = 0 /\ From5

---------------------------------------------------------------------------
(* Two environments with an image, three that import any two others or one   *)
(* that is missing; variables refer to one another across them.              *)
EnvVariables ==
    LET one == "B" :> <<"1", "">>  two == "A" :> <<"2", "">>  ref == "A" :> <<"${}", "B">>
    IN  [e1 |-> one, e2 |-> two, e3 |-> ref @@ ("B" :> <<"3", "">>),
         e4 |-> ref @@ ("B" :> <<"4", "">>), e5 |-> ref]
Importable == {"e2", "e3", "e4", "e5"}

Envs == INSTANCE TestEnvironments WITH
    Bases <- {"e1", "e2"}, Mixed <- {"e3", "e4", "e5"}, Missing <- "none",
    Variables <- EnvVariables,
    Timeout <- [e1 |-> 0, e2 |-> 20, e3 |-> 30, e4 |-> 40, e5 |-> 0],
    Imports <- {<<>>, <<"none">>} \cup {<<x>> : x \in {"e2", "e3", "e4"}}
                  \cup {p \in Importable \X Importable : p[1] # p[2]},
    imports <- d1, variables <- d2, resolved <- d3, raised <- d4

---------------------------------------------------------------------------
(* Three files that include one another in every way, two at a time; three   *)
(* tests with any dependencies and any of them disabled; two references of    *)
(* every kind, also circular.                                               *)
Definition(deps, arts, off) == [dependencies |-> deps, artifacts |-> arts, disabled |-> off]
PlainTest == Definition({}, {<<>>}, FALSE)
FileOf(includes, tests) == [includes |-> includes, tests |-> tests]
Directives == {[begin |-> ".", path |-> "x", adds |-> 0], [begin |-> ".", path |-> "x", adds |-> 1],
               [begin |-> "repo", path |-> "x", adds |-> 0]}
IncludeLists == {<<>>} \cup {<<d>> : d \in Directives} \cup (Directives \X Directives)
FileNames == {"here", "other"} \X {"root", "x"}
Repository(root, x, otherX) ==
    [f \in FileNames |-> CASE f = <<"here", "root">> -> root
                           [] f = <<"here", "x">> -> x
                           [] f = <<"other", "x">> -> otherX
                           [] OTHER -> FileOf(<<>>, <<>>)]
TestNames == {<<"a">>, <<"a", "b">>, <<"c">>}
NoFile == FileOf(<<>>, <<>>)
Including == {Repository(FileOf(i, <<"a">> :> PlainTest), FileOf(j, <<>>), FileOf(k, t :> PlainTest)) :
                 i, j, k \in IncludeLists, t \in {<<"a">>, <<"c">>}}
Depending == {Repository(FileOf(<<>>, [n \in TestNames |-> Definition(d[n],
                            IF n = <<"a">> THEN s ELSE {<<>>}, x[n])]), NoFile, NoFile) :
                 d \in [TestNames -> {{}, {<<"a">>}, {<<"a", "b">>}, {<<"c">>}, {<<"a">>, <<"c">>}}],
                 x \in [TestNames -> BOOLEAN], s \in {{<<>>}, {<<>>, <<"b">>}}}
Reference == [kind |-> "Reference", path |-> <<>>, to |-> "l1"]
RepoRefs == {Reference} \cup {[kind |-> "Import", path |-> p, to |-> ""] :
                                 p \in {<<"r">>, <<"s">>, <<"s", "q">>, <<"r", "z">>}}
Plain == Repository(FileOf(<<>>, <<"a">> :> PlainTest), NoFile, NoFile)

Resolver == INSTANCE TestDefinitionResolver WITH
    Here <- "here", Other <- "other", Paths <- {"root", "x"}, MaxAttempts <- 3,
    Inputs <- ((Including \cup Depending) \X {"r" :> Reference})
                 \cup ({Plain} \X {("r" :> x) @@ ("s" :> y) : x, y \in RepoRefs}),
    OtherRepos <- ("l1" :> ("q" :> "l2")) @@ ("l2" :> <<>>),
    script <- d1, repoDefs <- d2, phase <- d3, queue <- d4, everIncluded <- d5,
    attempts <- d6, tests <- d7, todo <- d8, hash <- d9, raised <- d10

---------------------------------------------------------------------------
(* Up to two variables with every definition of a dozen, also ones whose      *)
(* reference is put together by another reference.                           *)
Use(v) == <<"${", v, "}">>
UseOf(text) == <<"${">> \o text \o <<"}">>

Substitution == INSTANCE VariableSubstitution WITH
    Names <- {"A", "B"}, MaxRounds <- 5,
    Texts <- {<<>>, <<"x">>, <<"A">>, <<"B">>, <<"${">>, Use("A"), Use("B"), Use("C"),
              UseOf(Use("A")), UseOf(Use("B")), Use("A") \o Use("B"), Use("B") \o Use("C")},
    Extras <- {<<>>, [v \in {"C"} |-> <<"x">>]},
    vardefs <- d1, extra <- d2, given <- d3, before <- d4, round <- d5, deps <- d6,
    levels <- d7, dirty <- d8, newDirty <- d9, todo <- d10, phase <- d11

---------------------------------------------------------------------------
(* Sections with define, foreach over lists and over several lists at once,   *)
(* squash, merge and case, nested two deep; and includes.                    *)
Word(c) == <<<<"lit", c>>>>
RefTo(c) == <<"ref", Word(c)>>
Text(t) == <<"str", t>>
ListOf(s) == <<"list", s>>
Entry(k, v) == <<"dict", [n \in {k} |-> v]>>
Entries(a, x, b, y) == <<"dict", [k \in {Word(a), Word(b)} |-> IF k = Word(a) THEN x ELSE y]>>
X == Text(Word("x"))
Y == Text(Word("y"))
UseA == Text(<<RefTo("A")>>)
UseB == Text(<<RefTo("B")>>)
Keys == {<<RefTo("A")>>, <<RefTo("A"), RefTo("B")>>, <<RefTo("B"), <<"lit", "x">>>>}
Leaves == {Entry(k, v) : k \in Keys, v \in {UseA, UseB, Text(<<<<"lit", "x">>, RefTo("A")>>)}}
Cases == {Entry(k, Entries("case", UseA, "in", Entries("x", Y, "y", X))) : k \in Keys}
Lists == {<<X, Y>>, <<X, X>>, <<Y>>, <<<<"int", "3">>, X>>}
Define(f, d) == Entries("define", f, "in", d)
Foreach(f, d) == Entries("foreach", f, "repeat", d)
EachOf(n, s) == ListOf([i \in DOMAIN s |-> Entry(Word(n), s[i])])
Once == {Define(Entry(Word("A"), v), d) : v \in {X, UseB}, d \in Leaves}
     \cup {Foreach(EachOf("A", s), d) : s \in Lists, d \in Leaves}
     \cup {Foreach(Entries("A", ListOf(s), "B", ListOf(t)), d) : s, t \in Lists, d \in Leaves}
Twice == {Define(Entry(Word("B"), v), d) : v \in {X, UseA}, d \in Once}
     \cup {Foreach(EachOf("B", s), d) : s \in Lists, d \in Once}
     \cup {Entry(Word("merge"), ListOf(<<c, d>>)) : c \in Leaves, d \in Once}
Squashed == {Foreach(Entries("squash", Entry(Word(n), X), "over", EachOf("A", s)), d) :
                n \in {"A", "B"}, s \in Lists, d \in Leaves \cup Cases}
DefineLists == {<<>>, <<Entry(Word("A"), X)>>, <<Entry(Word("A"), X), Entry(Word("B"), UseA)>>,
                <<Entry(Word("A"), X), Entry(Word("A"), Y)>>}
IncludeSections == {ListOf(<<>>), ListOf(<<UseA>>), Foreach(EachOf("B", <<X, Y>>), ListOf(<<UseB>>)),
    ListOf(<<Entries("path", UseA, "variables", Entry(Word("B"), X))>>)}

Macros == INSTANCE MacroExpander WITH
    NameOrder <- <<Word("A"), Word("B")>>,
    Files <- [defines : DefineLists, builds : Leaves \cup Once \cup Twice \cup Squashed,
              includes : {ListOf(<<>>)}]
        \cup [defines : DefineLists, builds : {Entry(Word("A"), X)}, includes : IncludeSections],
    file <- d1, defined <- d2, builds <- d3, includes <- d4, phase <- d5

---------------------------------------------------------------------------
(* A build and a test with names that look like repositories, HEAD or source, *)
(* and dependencies of every form.                                          *)
Names == {<<"b", "e">>, <<"b">>, <<"HEAD", "e">>, <<"source", "e">>, <<"r", "e">>, <<"q", "b", "e">>}
DepNames == Names \cup {<<"HEAD", "source">>, <<"HEAD">>, <<"r">>, <<"r", "source", "p">>,
                        <<"r", "b", "e">>, <<"$", "b">>, <<"HEAD", "b", "e">>}
Written(n, deps, command) == [name |-> n, dependencies |-> deps, environment |-> "",
                              command |-> command, artifacts |-> {}]

Script == INSTANCE TestDefinitionScript WITH
    Substituted <- {"$"},
    Scripts <- {[version |-> 4, repos |-> refs, external |-> ext,
                 environments |-> [e |-> [base |-> b, dependencies |-> {ed}]],
                 builds |-> <<Written(n, {d}, TRUE)>>, tests |-> <<Written(m, {}, FALSE)>>,
                 deployments |-> <<>>] :
                   refs \in {<<>>, [r |-> <<"o", "n", "h">>], [r |-> <<"h">>], [HEAD |-> <<"o", "h">>]},
                   ext \in {{}, {"q"}}, b \in {{}, {<<"f">>, <<"r", "e">>}},
                   ed \in DepNames, n \in Names, d \in DepNames, m \in {<<"t", "e">>, <<"b", "e">>}},
    script <- d1, environments <- d2, allTests <- d3, todo <- d4, phase <- d5

---------------------------------------------------------------------------
(* Alternatives with three options that have any of three fields, and values   *)
(* of all of them; and a string and a dictionary by themselves. Some of their  *)
(* letters are not ASCII, and two keys only differ in these.                 *)
Names3 == {<<"A">>, <<"B">>, <<"C">>}
On == <<"instance", <<"on">>, <<>>>>
Off == <<"instance", <<"off">>, <<>>>>
DictType == <<"dict", <<"alt", (<<"on">> :> <<>>) @@ (<<"off">> :> <<>>)>>>>
FieldType == [x |-> <<"str">>, y |-> <<"nullable", <<"list", <<"str">>>>>>, z |-> DictType]
Key == <<"k">>
AccentedKey == <<"e'", "k">>
Dicts == {<<"dict", <<>>>>, <<"dict", Key :> On>>, <<"dict", (Key :> On) @@ (AccentedKey :> Off)>>}
FieldValues ==
    [x |-> {<<"str", <<"A">>>>, <<"str", <<"A", "e'">>>>, <<"str", <<>>>>},
     y |-> {<<"null">>, <<"some", <<"list", <<>>>>>>,
            <<"some", <<"list", <<<<"str", <<"a">>>>, <<"str", <<"e'">>>>>>>>>>},
     z |-> Dicts]
Values(T) ==
    IF T = DictType THEN Dicts ELSE
    IF T = <<"str">> THEN {<<t, s>> : t \in {"str", "unicode"}, s \in {<<"A">>, <<"A", "e'">>}} ELSE
    UNION {{<<"instance", o, f>> :
               f \in {r \in [DOMAIN T[2][o] -> UNION {FieldValues[n] : n \in DOMAIN FieldType}] :
                        \A n \in DOMAIN r : r[n] \in FieldValues[n]}} : o \in DOMAIN T[2]}

Json == INSTANCE AlgebraicJson WITH
    Alternatives <- {<<"str">>, DictType} \cup
        {<<"alt", [o \in Names3 |-> [f \in has[o] |-> FieldType[f]]]>> :
            has \in [Names3 -> SUBSET DOMAIN FieldType]},
    NonAscii <- {"e'"}, Keys <- {Key, AccentedKey},
    ValuesOf <- Values,
    type <- d1, value <- d2, allowExtraFields <- d3, legacy <- d4, json <- d5, read <- d6,
    phase <- d7

---------------------------------------------------------------------------
(* All graphs with three nodes: edges d1, and a set of roots d2. *)
Graphs == INSTANCE GraphUtil
Nodes == 1..3

---------------------------------------------------------------------------
MCInit ==
    /\ Init
    /\ \/ part = "objects" /\ d1 = 0 /\ d2 = 0 /\ From3
       \/ part = "environments" /\ Envs!Init /\ From5
       \/ part = "includes" /\ Resolver!Init /\ From11
       \/ part = "variables" /\ Substitution!Init
       \/ part = "macros" /\ Macros!Init /\ From6
       \/ part = "script" /\ Script!Init /\ From6
       \/ part = "json" /\ Json!Init /\ From8
       \/ part = "graphs" /\ d1 \in SUBSET (Nodes \X Nodes) /\ d2 \in SUBSET Nodes /\ From3

MCNext ==
    /\ UNCHANGED part
    /\ \/ part = "objects" /\ Next /\ UNCHANGED slots
       \/ /\ UNCHANGED vars
          /\ \/ part = "environments" /\ Envs!Next /\ UNCHANGED from5
             \/ part = "includes" /\ Resolver!Next /\ UNCHANGED d11
             \/ part = "variables" /\ Substitution!Next
             \/ part = "macros" /\ Macros!Next /\ UNCHANGED from6
             \/ part = "script" /\ Script!Next /\ UNCHANGED from6
             \/ part = "json" /\ Json!Next /\ UNCHANGED from8

MCSpec == MCInit /\ [][MCNext]_<<part, vars, slots>>

---------------------------------------------------------------------------

(* Every file that includes lead to is read once for each set of variables,   *)
(* circles do no harm, and exactly the tests that an enabled one needs are    *)
(* enabled (TestDefinitionResolver!IncludesExact, EnabledExact).              *)
IncludesFollowed == part = "includes" => Resolver!IncludesExact /\ Resolver!EnabledExact

(* Variables that refer to one another, also by names that are put together   *)
(* from others, are expanded fully and in few rounds, and cycles are reported *)
(* (VariableSubstitution!FullyExpanded, SubstitutionEnds).                   *)
VariablesExpand ==
    part = "variables" => Substitution!FullyExpanded /\ Substitution!SubstitutionEnds

(* The directives of a file expand to the entries that they stand for         *)
(* (MacroExpander!ExpandsToMeaning).                                        *)
MacrosExpand == part = "macros" => Macros!ExpandsToMeaning

(* The name of a test means that test wherever it is used                     *)
(* (TestDefinitionScript!NamesMeanOneThing).                                *)
NamesAreUnambiguous == part = "script" => Script!NamesMeanOneThing

(* What is written as JSON is read back as it was, but for the characters that *)
(* are not ASCII (AlgebraicJson!ReadBack).                                   *)
JsonReadBack == part = "json" => Json!ReadBack

(* "nodes never flow into their own group or an earlier group", and cycles    *)
(* are found exactly where there are some (GraphUtil!LevelsCorrect,           *)
(* CycleCorrect).                                                           *)
GraphsSorted ==
    part = "graphs" => /\ Graphs!LevelsCorrect(d1, d2)
                       /\ \A root \in d2 : Graphs!CycleCorrect(d1, root)
=============================================================================
