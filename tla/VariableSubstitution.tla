------------------------ MODULE VariableSubstitution ------------------------
(***************************************************************************)
(* apply_variable_substitutions_and_merge_repeatedly: the definitions of      *)
(* variables are put into each other, level by level, and again until nothing *)
(* changes, so that ${${A}} is found too. Sets and dictionaries are walked in  *)
(* any order.                                                               *)
(*                                                                         *)
(* A text is a sequence of tokens: "${", "}", names and anything else.        *)
(***************************************************************************)
EXTENDS Integers, Sequences, FiniteSets, TLC

CONSTANTS
    Names,
    Texts,             \* definitions to consider
    Extras,            \* extra_variables to consider
    MaxRounds          \* bound on the rounds

VARIABLES
    vardefs,
    extra,
    given,             \* vardefs at first ...
    before,            \* ... and at the start of this round
    round,
    deps,              \* deps of this round
    levels,            \* levels of this round; -1 for None
    dirty, newDirty,   \* of compute_graph_levels
    todo,              \* variables whose uses are still to be replaced
    phase

vars == <<vardefs, extra, given, before, round, deps, levels, dirty, newDirty, todo, phase>>

Pattern(v) == <<"${", v, "}">>
OccursAt(text, v, i) == i + 2 <= Len(text) /\ SubSeq(text, i, i + 2) = Pattern(v)
References(text, v) == \E i \in DOMAIN text : OccursAt(text, v, i)

Defined == DOMAIN vardefs

(* variables_referenced, and only those that there are *)
VariablesReferenced(text) == {v \in Defined : References(text, v)}

(* substitute_variables, with one variable *)
RECURSIVE SubstituteVariable(_, _, _)
SubstituteVariable(text, v, d) ==
    IF ~References(text, v) THEN text
    ELSE LET i == CHOOSE i \in DOMAIN text : OccursAt(text, v, i) /\
                      \A j \in 1..i - 1 : ~OccursAt(text, v, j)
         IN  SubSeq(text, 1, i - 1) \o d
                \o SubstituteVariable(SubSeq(text, i + 3, Len(text)), v, d)

Init ==
    /\ \E some \in SUBSET Names : vardefs \in [some -> Texts]
    /\ extra \in Extras
    /\ given = vardefs /\ before = vardefs /\ round = 0
    /\ deps = [v \in Defined |-> {}] /\ levels = [v \in Defined |-> -1]
    /\ dirty = {} /\ newDirty = {} /\ todo = {} /\ phase = "round"

(* The graph of the references *)
StartRound ==
    /\ phase = "round" /\ round < MaxRounds
    /\ round' = round + 1 /\ before' = vardefs /\ phase' = "levels"
    /\ deps' = [v \in Defined |-> VariablesReferenced(vardefs[v])]
    /\ levels' = [v \in Defined |-> -1] /\ dirty' = Defined /\ newDirty' = {}
    /\ UNCHANGED <<vardefs, extra, given, todo>>

Uses(v) == {u \in Defined : v \in deps[u]}

(* compute_level *)
ComputeLevel(v) ==
    LET known == {levels[d] : d \in deps[v]}
    IN  IF known = {} THEN 0 ELSE IF -1 \in known THEN -1
        ELSE (CHOOSE m \in known : \A n \in known : n <= m) + 1

(* A mistake: what uses the variable is not looked at again. *)
VisitOnce(v) ==
    /\ phase = "levels" /\ v \in dirty /\ dirty' = dirty \ {v}
    /\ levels' = [levels EXCEPT ![v] = ComputeLevel(v)]
    /\ UNCHANGED <<vardefs, extra, given, before, round, deps, newDirty, todo, phase>>

(* compute_graph_levels, one variable of a pass *)
Visit(v) ==
    /\ phase = "levels" /\ v \in dirty /\ dirty' = dirty \ {v}
    /\ levels' = [levels EXCEPT ![v] = ComputeLevel(v)]
    /\ newDirty' = IF levels'[v] # levels[v] THEN newDirty \cup Uses(v) ELSE newDirty
    /\ UNCHANGED <<vardefs, extra, given, before, round, deps, todo, phase>>

NextPass ==
    /\ phase = "levels" /\ dirty = {} /\ newDirty # {}
    /\ dirty' = newDirty /\ newDirty' = {}
    /\ UNCHANGED <<vardefs, extra, given, before, round, deps, levels, todo, phase>>

LevelsDone ==
    /\ phase = "levels" /\ dirty = {} /\ newDirty = {}
    /\ IF \E v \in Defined : levels[v] = -1 THEN phase' = "cyclic" /\ UNCHANGED todo
       ELSE phase' = "replace" /\ todo' = Defined
    /\ UNCHANGED <<vardefs, extra, given, before, round, deps, levels, dirty, newDirty>>

InTurn(v) == \A u \in todo : levels[v] <= levels[u]

(* A variable is put in where it is used. *)
Replace(v) ==
    /\ phase = "replace" /\ v \in todo /\ InTurn(v)
    /\ todo' = todo \ {v}
    /\ vardefs' = [u \in Defined |-> IF u \in Uses(v)
                                   THEN SubstituteVariable(vardefs[u], v, vardefs[v])
                                   ELSE vardefs[u]]
    /\ UNCHANGED <<extra, given, before, round, deps, levels, dirty, newDirty, phase>>

WithExtra(text) ==
    IF DOMAIN extra = {} THEN text
    ELSE LET e == CHOOSE e \in DOMAIN extra : TRUE IN SubstituteVariable(text, e, extra[e])

(* Then the extra variables, which must not be defined otherwise. It is over    *)
(* when a round has changed nothing.                                        *)
EndRound ==
    /\ phase = "replace" /\ todo = {}
    /\ vardefs' = [v \in Defined |-> WithExtra(vardefs[v])] @@ extra
    /\ phase' = IF \E e \in DOMAIN extra : vardefs'[e] # extra[e] THEN "defined twice" ELSE
                IF vardefs' = before THEN "done" ELSE "round"
    /\ UNCHANGED <<extra, given, before, round, deps, levels, dirty, newDirty, todo>>

Next == \/ StartRound \/ NextPass \/ LevelsDone \/ EndRound
        \/ \E v \in Defined : Visit(v) \/ Replace(v)
Spec == Init /\ [][Next]_vars

---------------------------------------------------------------------------
(* What a text comes to if the first reference in it is replaced again and       *)
(* again                                                                    *)
RECURSIVE Expanded(_, _)
Expanded(text, n) ==
    LET refs == {i \in DOMAIN text : \E v \in DOMAIN given : OccursAt(text, v, i)}
        i == CHOOSE i \in refs : \A j \in refs : i <= j
    IN  IF refs = {} \/ n = 0 THEN text
        ELSE Expanded(SubSeq(text, 1, i - 1) \o given[text[i + 1]]
                         \o SubSeq(text, i + 3, Len(text)), n - 1)

(* Whatever the order, the outcome is the same: what comes out is the full      *)
(* expansion of what was given, nested references included, and nothing of it *)
(* can still be replaced.                                                   *)
FullyExpanded == phase = "done" => \A v \in Defined :
    /\ VariablesReferenced(vardefs[v]) = {}
    /\ DOMAIN extra = {} => vardefs[v] = Expanded(given[v], 20)

(* "The process is guaranteed to terminate": it does, before the bound, and a   *)
(* cycle is reported only if the expansion would not come to an end.         *)
SubstitutionEnds ==
    /\ phase = "round" => round < MaxRounds
    /\ phase = "cyclic" => \E v \in Defined : VariablesReferenced(Expanded(given[v], 20)) # {}
=============================================================================
