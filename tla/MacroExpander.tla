--------------------------- MODULE MacroExpander ---------------------------
(***************************************************************************)
(* The preprocessing directives of test definition files (MacroExpander,   *)
(* IncludesMacroExpander and extract_postprocessed_test_definitions in     *)
(* data_model/TestDefinitionScript.py).                                    *)
(*                                                                         *)
(* A document is <<"str", t>>, <<"int", n>> (n as it is written),          *)
(* <<"list", s>>, <<"dict", f>>                                            *)
(* or <<"none">>.  A text t is a sequence of pieces: Lit(c), or Ref(k) for *)
(* the reference to the variable that the key k names.  Keys are texts.    *)
(***************************************************************************)
EXTENDS Integers, Sequences, FiniteSets, SequencesExt

CONSTANTS
  NameOrder,     \* the variable names in the order sorted() gives them
  Files          \* the files that are tried: their outer defines, the builds
                 \* section and the includes section

VARIABLES file, defined, builds, includes, phase
vars == <<file, defined, builds, includes, phase>>

Lit(c) == <<"lit", c>>
Ref(k) == <<"ref", k>>
Word(c) == <<Lit(c)>>
Str(t) == <<"str", t>>
List(s) == <<"list", s>>
Dict(f) == <<"dict", f>>
NoneValue == <<"none">>
Raises == <<"raises">>
Empty == [k \in {} |-> NoneValue]

IsDict(j) == j[1] = "dict"
IsList(j) == j[1] = "list"
HasKeys(j, names) == IsDict(j) /\ DOMAIN j[2] = {Word(n) : n \in names}
At(j, name) == j[2][Word(name)]

\* f with the entries of g, which Python's dict.update lets win
Updated(f, g) == [k \in DOMAIN f \union DOMAIN g |->
                    IF k \in DOMAIN g THEN g[k] ELSE f[k]]
Disjoint(f, g) == DOMAIN f \cap DOMAIN g = {}

-----------------------------------------------------------------------------
(* flatten *)
RECURSIVE Flatten(_)
Flatten(j) == IF ~IsList(j) THEN <<j>>
              ELSE FlattenSeq([i \in DOMAIN j[2] |-> Flatten(j[2][i])])

(* dictionary_cross_product: every way to take one value for each key; each  *)
(* key has a list here.                                                     *)
RECURSIVE DictionaryCrossProduct(_)
DictionaryCrossProduct(f) ==
  IF DOMAIN f = {} THEN <<Dict(Empty)>>
  ELSE LET key == CHOOSE k \in DOMAIN f : TRUE
           subs == DictionaryCrossProduct([k \in DOMAIN f \ {key} |-> f[k]])
       IN  FlattenSeq([i \in DOMAIN f[key][2] |->
             [n \in DOMAIN subs |->
                Dict(Updated(subs[n][2], [k \in {key} |-> f[key][2][i]]))]])

Replace(text, k, v) ==
  FlattenSeq([i \in DOMAIN text |-> IF text[i] = Ref(k) THEN v ELSE <<text[i]>>])

Mentions(text, k) == \E i \in DOMAIN text : text[i] = Ref(k)

AsText(v) == IF v[1] = "int" THEN Word(v[2]) ELSE v[2]

(* A string: the variables are put in one after the other, in the order of  *)
(* their names.  One that is not a string must make up the whole of it.     *)
RECURSIVE ExpandString(_, _, _)
ExpandString(text, variables, names) ==
  IF names = <<>> THEN Str(text)
  ELSE LET k == Head(names) IN
    IF k \notin DOMAIN variables \/ ~Mentions(text, k)
      THEN ExpandString(text, variables, Tail(names))
    ELSE IF variables[k][1] \in {"str", "int"}
      THEN ExpandString(Replace(text, k, AsText(variables[k])), variables, Tail(names))
    ELSE IF text = <<Ref(k)>> THEN variables[k] ELSE Raises

\* A bug for comparison: a key that is there already is overwritten.
AddEntriesOverwriting(res, f) ==
  IF res = Raises \/ ~IsDict(res) THEN Raises ELSE Dict(Updated(res[2], f))

\* Entries are added to a dictionary; none may be there already.
AddEntries(res, f) ==
  IF res = Raises \/ ~IsDict(res) THEN Raises
  ELSE IF Disjoint(res[2], f) THEN Dict(Updated(res[2], f)) ELSE Raises

(* merge, once its arguments are expanded; also how foreach collects.  The   *)
(* first one decides whether all must be lists or dictionaries.             *)
Merge(s) ==
  IF s = <<>> \/ Raises \in Range(s) THEN Raises
  ELSE IF \A i \in DOMAIN s : IsList(s[i]) THEN List(FlattenSeq([i \in DOMAIN s |-> s[i][2]]))
  ELSE IF \A i \in DOMAIN s : IsDict(s[i])
  THEN FoldLeft(LAMBDA res, d : AddEntries(res, d[2]), Dict(Empty), s)
  ELSE Raises

Squash(s, squashover) ==
  IF \E i \in DOMAIN s : ~IsDict(s[i]) \/ AddEntries(s[i], squashover) = Raises
  THEN Raises ELSE List([i \in DOMAIN s |-> AddEntries(s[i], squashover)])

(* IncludesMacroExpander: a string, or a path with variables of its own, is  *)
(* a file to include with the variables in scope there.                     *)
RECURSIVE ExpandMacros(_, _, _, _)
Include(path, variables, own) ==
  Dict([k \in {Word("path"), Word("variables")} |->
          IF k = Word("path") THEN ExpandString(path, variables, NameOrder)
          ELSE Dict(Updated(variables, own))])

(* expand_macros; `inc' tells the includes section, `isVarDef' the parts of  *)
(* a directive that define variables.                                       *)
ExpandMacros(j, variables, isVarDef, inc) ==
  LET Here(x) == ExpandMacros(x, variables, isVarDef, inc)
      Definition(x) == ExpandMacros(x, variables, TRUE, inc)
      InScope(x, more) ==
        IF more = Raises \/ ~IsDict(more) \/ ~Disjoint(variables, more[2]) THEN Raises
        ELSE ExpandMacros(x, Updated(variables, more[2]), isVarDef, inc)
  IN
  IF j[1] = "str" THEN
       IF inc /\ ~isVarDef THEN Include(j[2], variables, Empty)
       ELSE ExpandString(j[2], variables, NameOrder)
  ELSE IF inc /\ HasKeys(j, {"path", "variables"}) THEN
       Include(At(j, "path")[2], variables,
               ExpandMacros(At(j, "variables"), variables, FALSE, FALSE)[2])
  ELSE IF IsList(j) THEN
       LET s == [i \in DOMAIN j[2] |-> Here(j[2][i])]
       IN  IF Raises \in Range(s) THEN Raises ELSE List(s)
  ELSE IF HasKeys(j, {"define", "in"}) THEN
       InScope(At(j, "in"), Definition(At(j, "define")))
  ELSE IF HasKeys(j, {"squash", "over"}) THEN
       LET squashover == Definition(At(j, "squash"))
           over == Here(At(j, "over"))
       IN  IF Raises \in {squashover, over} \/ ~IsDict(squashover) THEN Raises
           ELSE Squash(Flatten(over), squashover[2])
  ELSE IF HasKeys(j, {"case", "in"}) THEN
       LET toLookup == Here(At(j, "case"))
           lookupIn == Here(At(j, "in"))
       IN  IF toLookup[1] # "str" \/ ~IsDict(lookupIn) THEN Raises
           ELSE IF toLookup[2] \in DOMAIN lookupIn[2] THEN lookupIn[2][toLookup[2]]
           ELSE Raises
  ELSE IF HasKeys(j, {"merge"}) THEN
       IF ~IsList(At(j, "merge")) THEN Raises
       ELSE Merge([i \in DOMAIN At(j, "merge")[2] |-> Here(At(j, "merge")[2][i])])
  ELSE IF HasKeys(j, {"foreach", "repeat"}) THEN
       LET over == Definition(At(j, "foreach"))
           items == IF IsDict(over) THEN DictionaryCrossProduct(over[2]) ELSE Flatten(over)
           copies == [i \in DOMAIN items |-> InScope(At(j, "repeat"), items[i])]
           collected == SelectSeq(copies, LAMBDA c : IsDict(c) \/ IsList(c))
       IN  IF over = Raises \/ ~(IsDict(At(j, "repeat")) \/ IsList(At(j, "repeat")))
              \/ Raises \in Range(copies)
           THEN Raises
           ELSE IF collected = <<>> THEN NoneValue ELSE Merge(collected)
  ELSE IF IsDict(j) THEN
       LET keys == [k \in DOMAIN j[2] |-> Here(Str(k))]
           vals == [k \in DOMAIN j[2] |-> Here(j[2][k])]
           from(t) == CHOOSE k \in DOMAIN keys : keys[k][2] = t
       IN  IF \E k \in DOMAIN j[2] : keys[k][1] # "str" \/ vals[k] = Raises THEN Raises
           ELSE Dict([t \in {keys[k][2] : k \in DOMAIN keys} |-> vals[from(t)]])
  ELSE j

-----------------------------------------------------------------------------
(* extract_postprocessed_test_definitions *)

Init ==
  /\ file \in Files
  /\ defined = Dict(Empty)
  /\ builds = NoneValue
  /\ includes = NoneValue
  /\ phase = "define"

\* One turn of the loop over the defines at the top of the file.
Define ==
  /\ phase = "define"
  /\ file.defines # <<>>
  /\ LET more == ExpandMacros(Head(file.defines), defined[2], TRUE, FALSE)
         all == IF more = Raises THEN Raises ELSE AddEntries(defined, more[2])
     IN  IF all = Raises
         THEN phase' = "raised" /\ UNCHANGED defined
         ELSE defined' = all /\ UNCHANGED phase
  /\ file' = [file EXCEPT !.defines = Tail(@)]
  /\ UNCHANGED <<builds, includes>>

\* expandKey for each of the sections.
Expand ==
  /\ phase = "define"
  /\ file.defines = <<>>
  /\ builds' = ExpandMacros(file.builds, defined[2], FALSE, FALSE)
  /\ includes' = ExpandMacros(file.includes, defined[2], FALSE, TRUE)
  /\ phase' = IF Raises \in {builds', includes'} THEN "raised" ELSE "done"
  /\ UNCHANGED <<file, defined>>

Next == Define \/ Expand
Spec == Init /\ [][Next]_vars

-----------------------------------------------------------------------------
(* What the directives mean, without an order: a set of entries, all the     *)
(* variables being put in at once.  The values given to variables mention    *)
(* only variables in scope there: docs/testDefinitions.md leaves the result  *)
(* undefined for others.                                                    *)

AtOnce(text, variables) ==
  FlattenSeq([i \in DOMAIN text |->
    IF text[i][1] = "ref" /\ text[i][2] \in DOMAIN variables
    THEN AsText(variables[text[i][2]]) ELSE <<text[i]>>])

\* the dictionaries of variables that a foreach goes through
Bindings(over) ==
  IF HasKeys(over, {"squash", "over"})
  THEN {Updated(d[2], At(over, "squash")[2]) : d \in Range(At(over, "over")[2])}
  ELSE IF IsDict(over)
  THEN {g \in [DOMAIN over[2] -> UNION {Range(over[2][k][2]) : k \in DOMAIN over[2]}] :
          \A k \in DOMAIN g : g[k] \in Range(over[2][k][2])}
  ELSE {d[2] : d \in Range(over[2])}

TextMeaning(j, variables) ==
  IF HasKeys(j, {"case", "in"})
  THEN AsText(At(j, "in")[2][AtOnce(AsText(At(j, "case")), variables)])
  ELSE AtOnce(AsText(j), variables)

RECURSIVE Meaning(_, _)
Meaning(j, variables) ==
  LET Sub(f) == [k \in DOMAIN f |-> Str(AtOnce(AsText(f[k]), variables))]
      With(f) == Updated(variables, Sub(f))
  IN
  IF HasKeys(j, {"define", "in"}) THEN Meaning(At(j, "in"), With(At(j, "define")[2]))
  ELSE IF HasKeys(j, {"merge"}) THEN
    UNION {Meaning(At(j, "merge")[2][i], variables) : i \in DOMAIN At(j, "merge")[2]}
  ELSE IF HasKeys(j, {"foreach", "repeat"}) THEN
    UNION {Meaning(At(j, "repeat"), With(g)) : g \in Bindings(At(j, "foreach"))}
  ELSE {<<AtOnce(k, variables), TextMeaning(j[2][k], variables)>> : k \in DOMAIN j[2]}

(***************************************************************************)
(* When a file is accepted, its builds section has exactly the entries     *)
(* that the directives stand for: a foreach over several lists gives one   *)
(* for each combination, and none is lost or overwritten by another,       *)
(* although variables are put in one after the other; every include gets   *)
(* all the variables that are in scope where it is written.                *)
(***************************************************************************)
ExpandsToMeaning ==
  phase = "done" =>
    /\ builds # NoneValue =>
         {<<k, builds[2][k][2]>> : k \in DOMAIN builds[2]}
           = Meaning(file.builds, defined[2])
    /\ \A i \in DOMAIN includes[2] :
         DOMAIN defined[2] \subseteq DOMAIN At(includes[2][i], "variables")[2]
=============================================================================
