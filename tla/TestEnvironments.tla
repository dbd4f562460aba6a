--------------------------- MODULE TestEnvironments ---------------------------
(***************************************************************************)
(* How the environments of a commit are resolved (environmentsFor): those     *)
(* that import others are merged with them, in the order in which a class    *)
(* would find its ancestors, and the variables are put in. An object of the  *)
(* algebraic library that is asked for a copy with other fields              *)
(* (_withReplacement) takes over these fields itself, so that what one        *)
(* environment's resolution leaves behind is seen by the next; in which       *)
(* order they come is up to a dictionary.                                   *)
(*                                                                         *)
(* The definition of a variable is a value, or Ref(w) for the text ${w}; a    *)
(* test is an environment that imports its own one and the mixins.           *)
(***************************************************************************)
EXTENDS Integers, Sequences, SequencesExt, FiniteSets, TLC

CONSTANTS
    Bases,             \* environments with an image of their own
    Mixed,             \* those that import others
    Missing,           \* a name that is not there
    Variables,         \* what an environment defines
    Timeout,           \* its test_timeout; 0 if it has none
    Imports            \* the lists of imports to consider

Envs == Bases \cup Mixed
Ref(w) == <<"${}", w>>
IsRef(d) == d[1] = "${}"

VARIABLES
    imports,           \* envDef.base
    variables,         \* of the environments as they are in memory
    resolved,          \* resolved_envs
    raised             \* why the resolution failed, and at which environment

vars == <<imports, variables, resolved, raised>>

NotYet == [order |-> <<>>]
NoneValue == <<"", "">>

(* parseEnvironment, and the environments that environmentsFor makes for the  *)
(* tests with mixins.                                                       *)
Init ==
    /\ imports \in [Envs -> Imports]
    /\ \A e \in Envs : (e \in Bases => imports[e] = <<>>) /\ e \notin Range(imports[e])
    /\ variables = Variables
    /\ resolved = [e \in Envs |-> NotYet] /\ raised = NoneValue

---------------------------------------------------------------------------
(* merge: the first head that is in no tail, again and again. Inconsistent if  *)
(* there is none.                                                           *)
Inconsistent == <<Missing>>

Candidate(seqs, s) == \A i \in DOMAIN seqs : Head(s) \notin Range(Tail(seqs[i]))

RECURSIVE Merge(_)
Merge(seqs) ==
    LET nonempty == SelectSeq(seqs, LAMBDA s : s # <<>>)
        good == {i \in DOMAIN nonempty : Candidate(nonempty, nonempty[i])}
        cand == Head(nonempty[CHOOSE i \in good : \A j \in good : i <= j])
        rest == Merge([i \in DOMAIN nonempty |->
                          IF Head(nonempty[i]) = cand THEN Tail(nonempty[i]) ELSE nonempty[i]])
    IN  IF nonempty = <<>> THEN <<>> ELSE
        IF good = {} \/ rest = Inconsistent THEN Inconsistent ELSE <<cand>> \o rest


LastToFirst(e) == Reverse(imports[e])

(* method_resolution_order: the last import comes first. *)
RECURSIVE MRO(_)
MRO(e) ==
    LET back == LastToFirst(e)
        above == [i \in DOMAIN back |-> MRO(back[i])]
    IN  IF \E i \in DOMAIN above : above[i] = Inconsistent THEN Inconsistent
        ELSE Merge(<<<<e>>>> \o above \o [i \in DOMAIN back |-> <<back[i]>>])

(* import_dep: everything that an environment imports, directly or not *)
RECURSIVE ImportDeps(_, _)
ImportDeps(es, n) ==
    IF n = 0 THEN es
    ELSE ImportDeps(es \cup UNION {Range(imports[e]) : e \in es \cap Envs}, n - 1)
Reached(e) == ImportDeps({e}, Cardinality(Envs))

(* assertGraphHasNoCycles *)
Circular(e) == \E d \in Reached(e) \cap Envs : \E x \in Range(imports[d]) \cap Envs : d \in Reached(x)

---------------------------------------------------------------------------
First(order, p(_)) == LET found == SelectSeq(order, p) IN IF found = <<>> THEN Missing ELSE found[1]

(* merge_dicts, from the far end of the order *)
MergedVariables(defs, order) ==
    LET names == UNION {DOMAIN defs[e] : e \in Range(order)}
    IN  [v \in names |-> defs[First(order, LAMBDA e : v \in DOMAIN defs[e])][v]]

PickFirstNonzero(order) ==
    LET e == First(order, LAMBDA x : Timeout[x] # 0) IN IF e = Missing THEN 0 ELSE Timeout[e]

(* apply_environment_substitutions, with references that are not circular *)
RECURSIVE Value(_, _)
Value(defs, d) == IF IsRef(d) /\ d[2] \in DOMAIN defs THEN Value(defs, defs[d[2]]) ELSE d
Substituted(defs) == [v \in DOMAIN defs |-> Value(defs, defs[v])]

(* merge_environments *)
MergedFrom(defs, order) ==
    [order |-> order, variables |-> Substituted(MergedVariables(defs, order)),
     timeout |-> PickFirstNonzero(order),
     stages |-> Reverse(order),
     setup |-> Reverse(SelectSeq(order, LAMBDA e : e \in Mixed)),
     image |-> First(order, LAMBDA e : e \in Bases)]

(* resolveEnvironment. One with an image is changed in place. *)
ResolveBase(e) ==
    /\ e \in Bases /\ resolved[e] = NotYet /\ raised = NoneValue
    /\ resolved' = [resolved EXCEPT ![e] = MergedFrom(variables, <<e>>)]
    /\ variables' = [variables EXCEPT ![e] = Substituted(@)]
    /\ UNCHANGED <<imports, raised>>

(* One that imports others is a new object once it is merged. *)
ResolveMixed(e) ==
    /\ e \in Mixed /\ resolved[e] = NotYet /\ raised = NoneValue
    /\ IF Missing \in Reached(e) THEN raised' = <<"Can't find environment", e>> /\ UNCHANGED resolved
       ELSE IF Circular(e) THEN raised' = <<"Circular", e>> /\ UNCHANGED resolved
       ELSE IF MRO(e) = Inconsistent THEN raised' = <<"Inconsistent hierarchy", e>> /\ UNCHANGED resolved
       ELSE IF Cardinality(Reached(e) \cap Bases) > 1
            THEN raised' = <<"two environments", e>> /\ UNCHANGED resolved
       ELSE /\ resolved' = [resolved EXCEPT ![e] = MergedFrom(variables, MRO(e))]
            /\ UNCHANGED raised
    /\ UNCHANGED <<imports, variables>>

Next == \E e \in Envs : ResolveBase(e) \/ ResolveMixed(e)
Spec == Init /\ [][Next]_vars

---------------------------------------------------------------------------
Resolved == {e \in Envs : resolved[e] # NotYet}
Before(order, a, b) == \E i, j \in DOMAIN order : i < j /\ order[i] = a /\ order[j] = b

(* The order has each environment once, after whatever inherits from it, and   *)
(* it keeps the order of each that is imported; and if none was found, there  *)
(* is none. A test's own environment and mixins are found in this way.       *)
OrderCorrect ==
    /\ \A e \in Resolved : LET o == resolved[e].order IN
          /\ Range(o) = Reached(e) /\ Len(o) = Cardinality(Reached(e))
          /\ \A d \in Range(o) : \A x \in Range(imports[d]) : Before(o, d, x)
          /\ \A d \in Range(imports[e]) : MRO(d) = SelectSeq(o, LAMBDA x : x \in Reached(d))
    /\ raised[1] = "Inconsistent hierarchy" =>
          \A o \in SetToSeqs(Reached(raised[2])) : \E d \in Range(imports[raised[2]]) :
              MRO(d) # SelectSeq(o, LAMBDA x : x \in Reached(d))

(* Of two imports the last one comes first: what only the other one brings     *)
(* comes after all that this one brings, unless it has to wait for something   *)
(* that both bring. (docs/testDefinitions.md says that "the first mixin        *)
(* dominates the second".)                                                  *)
LastImportWins == \A e \in Resolved : LET o == resolved[e].order IN
    \A i, j \in DOMAIN imports[e] : i < j =>
        LET earlier == Reached(imports[e][i])  later == Reached(imports[e][j])
        IN  \A x \in earlier \ later, y \in later : Before(o, x, y) =>
                \E z \in earlier \cap later : Before(o, x, z) /\ (z = y \/ Before(o, z, y))

(* What counts is what the first in that order says that says anything: what   *)
(* it said in the file, whatever was resolved before, and in the diamond too. *)
FirstIn(e, x, says(_)) ==
    says(x) /\ \A y \in Reached(e) \ {x} : says(y) => Before(resolved[e].order, x, y)
NearestWins == \A e \in Resolved : LET r == resolved[e] IN
    /\ IF r.timeout = 0 THEN \A x \in Reached(e) : Timeout[x] = 0
       ELSE \E x \in Reached(e) : Timeout[x] = r.timeout /\ FirstIn(e, x, LAMBDA y : Timeout[y] # 0)
    /\ DOMAIN r.variables = UNION {DOMAIN Variables[x] : x \in Reached(e)}
    /\ \A v \in DOMAIN r.variables : \E x \in Reached(e) :
          /\ FirstIn(e, x, LAMBDA y : v \in DOMAIN Variables[y])
          /\ LET d == Variables[x][v]
             IN  r.variables[v] = IF IsRef(d) /\ d[2] \in DOMAIN r.variables
                                  THEN r.variables[d[2]] ELSE d
=============================================================================
