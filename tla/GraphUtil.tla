----------------------------- MODULE GraphUtil -----------------------------
(***************************************************************************)
(* The graph algorithms of GraphUtil: what is reachable, the division of a   *)
(* graph into levels, and the search for a cycle. A graph is a set of edges, *)
(* pairs <<node, child>>.                                                   *)
(***************************************************************************)
EXTENDS Integers, Sequences, SequencesExt, FiniteSets

Children(E, n) == {e[2] : e \in {x \in E : x[1] = n}}

(* findAllNodes: the depth first walk. *)
RECURSIVE Walk(_, _, _)
Walk(E, todo, seen) ==
    IF todo = <<>> THEN seen
    ELSE IF Head(todo) \in seen THEN Walk(E, Tail(todo), seen)
    ELSE Walk(E, SetToSeq(Children(E, Head(todo))) \o Tail(todo), seen \cup {Head(todo)})
FindAllNodes(E, roots) == Walk(E, SetToSeq(roots), {})

(* No groups: the exception. *)
Raised == <<>>

(* A mistake: a node is ready when the first of its parents was placed. *)
GroupsFirstParent(E, group, waits) ==
    {n \in DOMAIN waits : waits[n] \cap group # {}}

(* The nodes that lose their last parent when a group has been placed. *)
NextGroup(E, group, waits) ==
    {n \in DOMAIN waits : waits[n] \cap group # {} /\ waits[n] \subseteq group}

(* waits is reverse_edges: what the nodes not yet placed wait for. *)
RECURSIVE Groups(_, _, _)
Groups(E, group, waits) ==
    LET next == NextGroup(E, group, waits)
        left == [n \in DOMAIN waits \ next |-> waits[n] \ group]
        rest == Groups(E, next, left)
    IN  IF next # {} THEN IF rest = Raised THEN Raised ELSE <<group>> \o rest
        ELSE IF DOMAIN left # {} THEN Raised ELSE <<group>>

(* placeNodesInLevels *)
PlaceNodesInLevels(E, roots) ==
    LET all == FindAllNodes(E, roots)
        reverse == [n \in all |-> {p \in all : n \in Children(E, p)}]
        ready == {n \in all : reverse[n] = {}}
    IN  Groups(E, ready, [n \in all \ ready |-> reverse[n]])

(* check, the search below node: a cycle, and the nodes known to have none.   *)
(* above is the path that leads to node.                                    *)
RECURSIVE Check(_, _, _, _), CheckAll(_, _, _, _)
Check(E, node, above, clear) ==
    IF node \in clear THEN [cycle |-> <<>>, clear |-> clear]
    ELSE LET path == Append(above, node)
             below == CheckAll(E, SetToSeq(Children(E, node)), path, clear)
         IN  IF below.cycle # <<>> THEN below
             ELSE [below EXCEPT !.clear = @ \cup {node}]
CheckAll(E, nodes, path, clear) ==
    IF nodes = <<>> THEN [cycle |-> <<>>, clear |-> clear]
    ELSE IF Head(nodes) \in Range(path)
         THEN [cycle |-> Append(path, Head(nodes)), clear |-> clear]
    ELSE LET first == Check(E, Head(nodes), path, clear)
         IN  IF first.cycle # <<>> THEN first
             ELSE CheckAll(E, Tail(nodes), path, first.clear)

(* graphFindCycle: the path that ends in a cycle, or <<>>. *)
GraphFindCycle(E, root) == Check(E, root, <<>>, {}).cycle

---------------------------------------------------------------------------
(* References *)
Paths(E) == LET N == {e[1] : e \in E} \cup {e[2] : e \in E}
                R[k \in 0..Cardinality(N)] ==
                    IF k = 0 THEN E
                    ELSE R[k-1] \cup {w \in N \X N : \E m \in N : <<w[1], m>> \in R[k-1]
                                                                 /\ <<m, w[2]>> \in R[k-1]}
            IN  R[Cardinality(N)]
ReachableFrom(E, roots) == roots \cup {w[2] : w \in {p \in Paths(E) : p[1] \in roots}}
Cyclic(E, roots) == \E n \in ReachableFrom(E, roots) : <<n, n>> \in Paths(E)

(* "nodes never flow into their own group or an earlier group. Throw if this *)
(* has a cycle": the groups divide what the roots reach, every edge leads to *)
(* a later one, and the exception comes exactly for a cycle.                 *)
LevelsCorrect(E, roots) ==
    LET g == PlaceNodesInLevels(E, roots)
    IN  IF Cyclic(E, roots) THEN g = Raised
        ELSE /\ g # Raised
             /\ UNION Range(g) = ReachableFrom(E, roots)
             /\ \A i, j \in DOMAIN g : i # j => g[i] \cap g[j] = {}
             /\ \A i, j \in DOMAIN g : \A e \in E :
                   e[1] \in g[i] /\ e[2] \in g[j] => i < j

(* A cycle is reported exactly if one can be reached, and what is reported is *)
(* a path of the graph that comes back to one of its nodes.                  *)
CycleCorrect(E, root) ==
    LET c == GraphFindCycle(E, root)
    IN  /\ (c = <<>>) = ~Cyclic(E, {root})
        /\ c # <<>> => /\ c[1] = root
                       /\ \A i \in 1..Len(c)-1 : <<c[i], c[i+1]>> \in E
                       /\ \E i \in 1..Len(c)-1 : c[i] = c[Len(c)]
=============================================================================
