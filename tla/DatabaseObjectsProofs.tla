------------------------ MODULE DatabaseObjectsProofs ------------------------
(* Proofs about DatabaseObjects, for every set of objects, values, indexed  *)
(* values and views, and all bounds.                                        *)
EXTENDS DatabaseObjects, SequenceTheorems, WellFoundedInduction, TLAPS

(* Induction up to a bound, for a set in place of a property. *)
LEMMA CountingUp ==
  ASSUME NEW n \in Nat, NEW T, 0 \in T, \A i \in 0 .. n - 1 : i \in T => i + 1 \in T
  PROVE  \A i \in 0 .. n : i \in T
<1> SUFFICES ASSUME NEW j \in 0 .. n, j \notin T  PROVE FALSE
  OBVIOUS
<1> DEFINE Bad == {i \in 0 .. n : i \notin T}
<1> DEFINE R == OpToRel(<, Nat)
<1>1. Bad \subseteq Nat /\ Bad # {}
  OBVIOUS
<1>2. \E x \in Bad : \A y \in Bad : ~(<<y, x>> \in R)
  <2> HIDE DEF Bad, R
  <2>1. IsWellFoundedOn(R, Nat)
    BY NatLessThanWellFounded DEF R
  <2>2. QED  BY <1>1, <2>1, WFMin
<1>3. PICK x \in Bad : \A y \in Bad : ~(y < x)
  BY <1>1, <1>2 DEF OpToRel
<1>4. x # 0 /\ x - 1 \in 0 .. n - 1 /\ x - 1 < x
  OBVIOUS
<1>5. x - 1 \in T
  BY <1>3, <1>4
<1>6. QED  BY <1>4, <1>5

------------------------------------------------------------------------------
(* Without *)

KeptStep(list, o, F, i) ==
    IF i = 0 THEN <<>>
    ELSE IF list[i] # o THEN Append(F[i - 1], list[i]) ELSE F[i - 1]

(* The recursion of Without is well defined. *)
LEMMA KeptExists ==
  ASSUME NEW list, NEW o, NEW n \in Nat
  PROVE  \E F : F = [i \in 0 .. n |-> KeptStep(list, o, F, i)]
<1> DEFINE T == {m \in 0 .. n : \E F : F = [i \in 0 .. m |-> KeptStep(list, o, F, i)]}
<1>1. 0 \in T
  <2> DEFINE G == [i \in 0 .. 0 |-> <<>>]
  <2>1. G = [i \in 0 .. 0 |-> KeptStep(list, o, G, i)]
    BY DEF KeptStep
  <2>2. QED  BY <2>1
<1>2. ASSUME NEW m \in 0 .. n - 1, m \in T  PROVE m + 1 \in T
  <2>1. PICK F : F = [i \in 0 .. m |-> KeptStep(list, o, F, i)]
    BY <1>2
  <2> DEFINE G == [i \in 0 .. m + 1 |->
                     IF i = m + 1 THEN KeptStep(list, o, F, m + 1) ELSE F[i]]
  <2>2. \A i \in 0 .. m + 1 : G[i] = KeptStep(list, o, G, i)
    <3> TAKE i \in 0 .. m + 1
    <3>1. i # 0 => i - 1 \in 0 .. m /\ G[i - 1] = F[i - 1]
      OBVIOUS
    <3>2. i # m + 1 => F[i] = KeptStep(list, o, F, i)
      BY <2>1
    <3>3. KeptStep(list, o, G, i) = KeptStep(list, o, F, i)
      BY <3>1 DEF KeptStep
    <3>4. QED  BY <3>2, <3>3
  <2>3. G = [i \in 0 .. m + 1 |-> KeptStep(list, o, G, i)]
    BY <2>2
  <2>4. \E H : H = [i \in 0 .. m + 1 |-> KeptStep(list, o, H, i)]
    BY <2>3
  <2>5. QED  BY <2>4
<1>3. n \in T
  <2> HIDE DEF T
  <2> QED  BY <1>1, <1>2, CountingUp
<1>4. QED  BY <1>3

(* What is kept of a list without repetitions: all objects but one, once.  *)
LEMMA WithoutKeeps ==
  ASSUME NEW E, NEW list \in Seq(E), IsInjective(list), NEW o
  PROVE  /\ Without(list, o) \in Seq(E)
         /\ ToSet(Without(list, o)) = ToSet(list) \ {o}
         /\ IsInjective(Without(list, o))
<1> DEFINE F == CHOOSE G : G = [i \in 0 .. Len(list) |-> KeptStep(list, o, G, i)]
<1>0. Len(list) \in Nat /\ DOMAIN list = 1 .. Len(list)
  OBVIOUS
<1>1. F = [i \in 0 .. Len(list) |-> KeptStep(list, o, F, i)]
  BY <1>0, KeptExists
<1>2. Without(list, o) = F[Len(list)]
  BY DEF Without, KeptStep
<1> HIDE DEF F
<1> DEFINE Good(i) ==
             /\ F[i] \in Seq(E)
             /\ \A k \in 1 .. Len(F[i]) : \E j \in 1 .. i : F[i][k] = list[j] /\ list[j] # o
             /\ \A j \in 1 .. i : list[j] # o => \E k \in 1 .. Len(F[i]) : F[i][k] = list[j]
             /\ \A k, l \in 1 .. Len(F[i]) : F[i][k] = F[i][l] => k = l
<1> DEFINE T == {i \in 0 .. Len(list) : Good(i)}
<1>3. 0 \in T
  BY <1>0, <1>1 DEF KeptStep
<1>4. ASSUME NEW i \in 0 .. Len(list) - 1, i \in T  PROVE i + 1 \in T
  <2>0. Good(i)
    BY <1>4
  <2>1. i + 1 \in 1 .. Len(list) /\ i + 1 \in 0 .. Len(list) /\ list[i + 1] \in E
    BY <1>0
  <2>2. F[i + 1] = IF list[i + 1] # o THEN Append(F[i], list[i + 1]) ELSE F[i]
    <3>1. F[i + 1] = KeptStep(list, o, F, i + 1)
      BY <1>1, <2>1
    <3>2. i + 1 # 0 /\ i + 1 - 1 = i
      BY <2>1
    <3>3. QED  BY <3>1, <3>2 DEF KeptStep
  <2>4. CASE list[i + 1] = o
    <3>1. F[i + 1] = F[i]
      BY <2>2, <2>4
    <3>2. \A j \in 1 .. i + 1 : list[j] # o => j \in 1 .. i
      BY <2>1, <2>4
    <3>3. \A j \in 1 .. i : j \in 1 .. i + 1
      BY <2>1
    <3>4. Good(i + 1)
      BY <2>0, <3>1, <3>2, <3>3
    <3>5. QED  BY <2>1, <3>4
  <2>5. CASE list[i + 1] # o
    <3>1. /\ F[i + 1] \in Seq(E) /\ Len(F[i + 1]) = Len(F[i]) + 1
          /\ F[i + 1][Len(F[i]) + 1] = list[i + 1]
          /\ \A k \in 1 .. Len(F[i]) : F[i + 1][k] = F[i][k]
          /\ Len(F[i]) \in Nat
      <4>1. F[i] \in Seq(E) /\ F[i + 1] = Append(F[i], list[i + 1])
        BY <2>0, <2>2, <2>5
      <4>2. QED  BY <2>1, <4>1, AppendProperties, LenProperties
    <3>2. \A j \in 1 .. i : list[j] # list[i + 1]
      BY <1>0, <2>1 DEF IsInjective
    <3>3. \A k \in 1 .. Len(F[i]) : F[i][k] # list[i + 1]
      BY <2>0, <3>2
    <3>4. \A k, l \in 1 .. Len(F[i + 1]) : F[i + 1][k] = F[i + 1][l] => k = l
      <4>1. \A k, l \in 1 .. Len(F[i]) : F[i][k] = F[i][l] => k = l
        BY <2>0
      <4>2. \A k \in 1 .. Len(F[i + 1]) : k \in 1 .. Len(F[i]) \/ k = Len(F[i]) + 1
        BY <3>1
      <4> HIDE DEF Good
      <4>3. QED  BY <3>1, <3>3, <4>1, <4>2
    <3>5. \A k \in 1 .. Len(F[i + 1]) :
             \E j \in 1 .. i + 1 : F[i + 1][k] = list[j] /\ list[j] # o
      <4> TAKE k \in 1 .. Len(F[i + 1])
      <4>1. CASE k \in 1 .. Len(F[i])
        <5>1. PICK j \in 1 .. i : F[i][k] = list[j] /\ list[j] # o
          BY <2>0, <4>1
        <5>2. j \in 1 .. i + 1
          BY <2>1
        <5>3. QED  BY <3>1, <4>1, <5>1, <5>2
      <4>2. CASE k = Len(F[i]) + 1
        BY <2>1, <2>5, <3>1, <4>2
      <4>3. QED  BY <3>1, <4>1, <4>2
    <3>6. \A j \in 1 .. i + 1 : list[j] # o =>
             \E k \in 1 .. Len(F[i + 1]) : F[i + 1][k] = list[j]
      <4> SUFFICES ASSUME NEW j \in 1 .. i + 1, list[j] # o
                   PROVE  \E k \in 1 .. Len(F[i + 1]) : F[i + 1][k] = list[j]
        OBVIOUS
      <4>1. CASE j \in 1 .. i
        <5>1. PICK k \in 1 .. Len(F[i]) : F[i][k] = list[j]
          BY <2>0, <4>1
        <5>2. k \in 1 .. Len(F[i + 1]) /\ F[i + 1][k] = list[j]
          BY <3>1, <5>1
        <5>3. QED  BY <5>2
      <4>2. CASE j = i + 1
        <5>1. Len(F[i]) + 1 \in 1 .. Len(F[i + 1])
          BY <3>1
        <5>2. QED  BY <3>1, <4>2, <5>1
      <4>3. QED  BY <2>1, <4>1, <4>2
    <3>7. Good(i + 1)
      BY <3>1, <3>4, <3>5, <3>6
    <3>8. QED  BY <2>1, <3>7
  <2>6. QED  BY <2>4, <2>5
<1>5. Len(list) \in T
  <2> HIDE DEF T
  <2>1. \A i \in 0 .. Len(list) - 1 : i \in T => i + 1 \in T
    BY <1>4
  <2>2. \A i \in 0 .. Len(list) : i \in T
    BY <1>0, <1>3, <2>1, CountingUp
  <2>3. QED  BY <1>0, <2>2
<1>6. Good(Len(list))
  BY <1>5
<1>7. DOMAIN F[Len(list)] = 1 .. Len(F[Len(list)])
  BY <1>6
<1>8. IsInjective(F[Len(list)])
  BY <1>6, <1>7 DEF IsInjective
<1>9. ToSet(F[Len(list)]) = ToSet(list) \ {o}
  <2> DEFINE G == F[Len(list)]
  <2>1. /\ \A k \in DOMAIN G : \E j \in DOMAIN list : G[k] = list[j] /\ list[j] # o
        /\ \A j \in DOMAIN list : list[j] # o => \E k \in DOMAIN G : G[k] = list[j]
    BY <1>0, <1>6, <1>7
  <2> HIDE DEF G, Good
  <2>2. ToSet(G) = ToSet(list) \ {o}
    <3>1. \A x : x \in ToSet(G) <=> \E k \in DOMAIN G : x = G[k]
      BY DEF ToSet
    <3>2. \A x : x \in ToSet(list) <=> \E j \in DOMAIN list : x = list[j]
      BY DEF ToSet
    <3>3. \A x : x \in ToSet(G) => x \in ToSet(list) /\ x # o
      BY <2>1, <3>1, <3>2
    <3>4. \A x : x \in ToSet(list) /\ x # o => x \in ToSet(G)
      BY <2>1, <3>1, <3>2
    <3>5. QED  BY <3>3, <3>4
  <2>3. QED  BY <2>2 DEF G
<1>10. QED
  BY <1>2, <1>6, <1>8, <1>9

(* Appending an object that is not in a list yet. *)
LEMMA AppendAdds ==
  ASSUME NEW E, NEW list \in Seq(E), IsInjective(list), NEW o \in E, o \notin ToSet(list)
  PROVE  /\ Append(list, o) \in Seq(E)
         /\ ToSet(Append(list, o)) = ToSet(list) \cup {o}
         /\ IsInjective(Append(list, o))
<1> DEFINE G == Append(list, o)
<1>1. /\ G \in Seq(E) /\ Len(G) = Len(list) + 1 /\ G[Len(list) + 1] = o
      /\ \A k \in 1 .. Len(list) : G[k] = list[k]
      /\ Len(list) \in Nat /\ DOMAIN list = 1 .. Len(list) /\ DOMAIN G = 1 .. Len(list) + 1
  BY AppendProperties, LenProperties
<1> HIDE DEF G
<1>2. \A k \in DOMAIN G : k \in DOMAIN list \/ k = Len(list) + 1
  BY <1>1
<1>3. \A k \in DOMAIN list : list[k] # o /\ k \in DOMAIN G
  BY <1>1 DEF ToSet
<1>4. Len(list) + 1 \in DOMAIN G
  BY <1>1
<1>5. IsInjective(G)
  BY <1>1, <1>2, <1>3 DEF IsInjective
<1>6. ToSet(G) = ToSet(list) \cup {o}
  <2>1. \A x : x \in ToSet(G) <=> \E k \in DOMAIN G : x = G[k]
    BY DEF ToSet
  <2>2. \A x : x \in ToSet(list) <=> \E j \in DOMAIN list : x = list[j]
    BY DEF ToSet
  <2>3. \A x : x \in ToSet(G) => x \in ToSet(list) \/ x = o
    BY <1>1, <1>2, <2>1, <2>2
  <2>4. \A x : x \in ToSet(list) \/ x = o => x \in ToSet(G)
    BY <1>1, <1>3, <1>4, <2>1, <2>2
  <2>5. QED  BY <2>3, <2>4
<1>7. QED  BY <1>1, <1>5, <1>6 DEF G

------------------------------------------------------------------------------
(* The invariant: the index is exact in the store and in what every view    *)
(* sees, and a transaction that can still commit sees the store.            *)
Found(data, x) == IF data[Index(x)] = None THEN <<>> ELSE data[Index(x)]

Exact(data) ==
    \A x \in Indexed : /\ Found(data, x) \in Seq(Objects)
                       /\ ToSet(Found(data, x)) = {o \in Objects : data[Field(o)] = x}
                       /\ IsInjective(Found(data, x))

Sees(v) == [k \in ObjectKeys |-> Seen(v, k)]

IsOpen(v) ==
    /\ open[v] = [mode |-> open[v].mode, base |-> open[v].base,
                  seen |-> open[v].seen, writes |-> open[v].writes]
    /\ open[v].mode \in {"view", "transaction"}
    /\ open[v].base \in Int /\ open[v].base <= version
    /\ DOMAIN open[v].writes = ObjectKeys
    /\ open[v].base = version => open[v].seen = store
    /\ Exact(Sees(v))

Inv ==
    /\ version \in Int
    /\ DOMAIN store = ObjectKeys /\ store = [k \in ObjectKeys |-> store[k]]
    /\ Exact(store)
    /\ DOMAIN open = Views /\ open = [v \in Views |-> open[v]]
    /\ \A v \in Views : open[v] = S!Closed \/ IsOpen(v)

(* The keys of fields and of index entries. *)
LEMMA KeysDiffer ==
  /\ \A o \in Objects : Field(o) \in ObjectKeys /\ Exists(o) \in ObjectKeys
  /\ \A x \in Indexed : Index(x) \in ObjectKeys
  /\ \A o, p : Field(o) = Field(p) => o = p
  /\ \A x, y : Index(x) = Index(y) => x = y
  /\ \A o, p : Field(o) # Exists(p) /\ Field(o) # Index(p) /\ Exists(o) # Index(p)
BY DEF ObjectKeys, Field, Exists, Index

(* _update_indices keeps the index exact when it moves one object. *)
LEMMA MoveKeepsExact ==
  ASSUME NEW data, NEW next, Exact(data), NEW o \in Objects, NEW x,
         next[Field(o)] = x,
         \A p \in Objects : p # o => next[Field(p)] = data[Field(p)],
         NEW old, old = IndexVal(data[Field(o)]), NEW new, new = IndexVal(x),
         \A y \in Indexed : old # new /\ y = new =>
            next[Index(y)] = Append(Found(data, y), o),
         \A y \in Indexed : old # new /\ y = old =>
            next[Index(y)] = Without(Found(data, y), o),
         \A y \in Indexed : old = new \/ y \notin {old, new} =>
            next[Index(y)] = data[Index(y)]
  PROVE  Exact(next)
<1> SUFFICES ASSUME NEW y \in Indexed
             PROVE  /\ Found(next, y) \in Seq(Objects)
                    /\ ToSet(Found(next, y)) = {p \in Objects : next[Field(p)] = y}
                    /\ IsInjective(Found(next, y))
  BY DEF Exact
<1>1. /\ Found(data, y) \in Seq(Objects)
      /\ ToSet(Found(data, y)) = {p \in Objects : data[Field(p)] = y}
      /\ IsInjective(Found(data, y))
  BY DEF Exact
<1>2. None \notin Indexed
  BY ObjectsAssumption
<1>3. (y = old <=> data[Field(o)] = y) /\ (y = new <=> x = y)
  BY <1>2 DEF IndexVal
<1>4. \A list \in Seq(Objects) : next[Index(y)] = list => Found(next, y) = list
  BY ObjectsAssumption DEF Found
<1>5. CASE old # new /\ y = new
  <2>1. o \notin ToSet(Found(data, y))
    BY <1>1, <1>3, <1>5
  <2>2. /\ Append(Found(data, y), o) \in Seq(Objects)
        /\ ToSet(Append(Found(data, y), o)) = ToSet(Found(data, y)) \cup {o}
        /\ IsInjective(Append(Found(data, y), o))
    BY <1>1, <2>1, AppendAdds
  <2>3. Found(next, y) = Append(Found(data, y), o)
    BY <1>4, <1>5, <2>2
  <2>4. {p \in Objects : next[Field(p)] = y} = {p \in Objects : data[Field(p)] = y} \cup {o}
    BY <1>3, <1>5
  <2>5. QED  BY <1>1, <2>2, <2>3, <2>4
<1>6. CASE old # new /\ y = old
  <2>1. /\ Without(Found(data, y), o) \in Seq(Objects)
        /\ ToSet(Without(Found(data, y), o)) = ToSet(Found(data, y)) \ {o}
        /\ IsInjective(Without(Found(data, y), o))
    BY <1>1, WithoutKeeps
  <2>2. Found(next, y) = Without(Found(data, y), o)
    BY <1>4, <1>6, <2>1
  <2>3. {p \in Objects : next[Field(p)] = y} = {p \in Objects : data[Field(p)] = y} \ {o}
    BY <1>3, <1>6
  <2>4. QED  BY <1>1, <2>1, <2>2, <2>3
<1>7. CASE old = new \/ y \notin {old, new}
  <2>1. Found(next, y) = Found(data, y)
    BY <1>7 DEF Found
  <2>2. {p \in Objects : next[Field(p)] = y} = {p \in Objects : data[Field(p)] = y}
    BY <1>3, <1>7
  <2>3. QED  BY <1>1, <2>1, <2>2
<1>8. QED  BY <1>5, <1>6, <1>7

(* What _update_indices writes, key by key. *)
Entries(u, v, o, old, new) ==
    /\ \A k \in DOMAIN u : \E y \in Indexed : k = Index(y)
    /\ \A y \in Indexed : Index(y) \in DOMAIN u <=> old # new /\ y \in {old, new}
    /\ \A y \in Indexed : old # new /\ y = new =>
          u[Index(y)] = Append(IndexLookup(v, y), o)
    /\ \A y \in Indexed : old # new /\ y = old =>
          u[Index(y)] = Without(IndexLookup(v, y), o)

(* _update_indices writes just that. *)
LEMMA EntriesWritten ==
  ASSUME NEW v, NEW o, NEW old \in Indexed \cup {None}, NEW new \in Indexed \cup {None},
         NEW u, u = UpdateIndices(v, o, old, new)
  PROVE  Entries(u, v, o, old, new)
<1> USE DEF Entries
<1>1. CASE old = new
  <2>1. u = <<>> /\ DOMAIN u = {}
    BY <1>1 DEF UpdateIndices
  <2>2. QED  BY <1>1, <2>1
<1>2. CASE old # new
  <2>1. u = [k \in {Index(x) : x \in {old, new} \ {None}} |->
               IF k = Index(new) THEN Append(IndexLookup(v, new), o)
               ELSE Without(IndexLookup(v, old), o)]
    BY <1>2 DEF UpdateIndices
  <2>2. \A x, y : Index(x) = Index(y) => x = y
    BY KeysDiffer
  <2>3. None \notin Indexed
    BY ObjectsAssumption
  <2>4. \A k : k \in DOMAIN u <=> \E x \in {old, new} \ {None} : k = Index(x)
    BY <2>1
  <2>5. \A y \in Indexed : Index(y) \in DOMAIN u <=> y \in {old, new}
    BY <2>2, <2>3, <2>4
  <2>6. \A k \in DOMAIN u : \E y \in Indexed : k = Index(y)
    BY <2>4
  <2>7. \A y \in Indexed : y = new => u[Index(y)] = Append(IndexLookup(v, y), o)
    BY <2>1, <2>3
  <2>8. \A y \in Indexed : y = old => u[Index(y)] = Without(IndexLookup(v, y), o)
    BY <1>2, <2>1, <2>2, <2>3
  <2>9. QED  BY <1>2, <2>5, <2>6, <2>7, <2>8
<1>3. QED  BY <1>1, <1>2

(* A write changes what its transaction sees, and nothing else. *)
LEMMA WriteSeen ==
  ASSUME Inv, NEW v \in Views, NEW new, \A k \in DOMAIN new : new[k] # NotWritten,
         Write(v, new),
         Exact([k \in ObjectKeys |-> IF k \in DOMAIN new THEN new[k] ELSE Seen(v, k)])
  PROVE  Inv'
<1>1. IsOpen(v) /\ open[v].mode = "transaction"
  BY DEF Write, Inv, S!Closed
<1>2. /\ UNCHANGED <<store, version>> /\ DOMAIN open' = Views
      /\ open' = [w \in Views |-> open'[w]]
      /\ \A w \in Views : w # v => open'[w] = open[w]
  BY DEF Write, Inv
<1>3. open'[v] = [open[v] EXCEPT !.writes =
                    [k \in ObjectKeys |-> IF k \in DOMAIN new THEN new[k]
                                          ELSE open[v].writes[k]]]
  BY DEF Write, Inv
<1>4. /\ open'[v].mode = open[v].mode /\ open'[v].base = open[v].base
      /\ open'[v].seen = open[v].seen
      /\ open'[v].writes = [k \in ObjectKeys |-> IF k \in DOMAIN new THEN new[k]
                                                 ELSE open[v].writes[k]]
      /\ open'[v] = [mode |-> open'[v].mode, base |-> open'[v].base,
                     seen |-> open'[v].seen, writes |-> open'[v].writes]
  BY <1>1, <1>3 DEF IsOpen
<1>5. Sees(v)' = [k \in ObjectKeys |-> IF k \in DOMAIN new THEN new[k] ELSE Seen(v, k)]
  BY <1>4 DEF Sees, Seen
<1>6. IsOpen(v)'
  BY <1>1, <1>2, <1>4, <1>5 DEF IsOpen
<1>7. \A w \in Views : w # v /\ IsOpen(w) => IsOpen(w)'
  <2> SUFFICES ASSUME NEW w \in Views, w # v, IsOpen(w)  PROVE IsOpen(w)'
    OBVIOUS
  <2>1. Sees(w)' = Sees(w)
    BY <1>2 DEF Sees, Seen
  <2>2. QED  BY <1>2, <2>1 DEF IsOpen
<1>8. \A w \in Views : open'[w] = S!Closed \/ IsOpen(w)'
  BY <1>2, <1>6, <1>7 DEF Inv
<1>9. QED  BY <1>2, <1>8 DEF Inv

(* _new, _set and _delete: a field is written and the object moves from one *)
(* entry of the index to another.                                           *)
LEMMA MoveKeeps ==
  ASSUME Inv, NEW v \in Views, NEW o \in Objects, NEW x \in FieldVals \cup {None},
         NEW old, old = IndexVal(Seen(v, Field(o))),
         NEW new, Write(v, new),
         NEW u, u = UpdateIndices(v, o, old, IndexVal(x)),
         DOMAIN new \subseteq {Field(o), Exists(o)} \cup DOMAIN u,
         Field(o) \in DOMAIN new, new[Field(o)] = x,
         Exists(o) \in DOMAIN new => new[Exists(o)] \in {True, None},
         \A k \in DOMAIN u : k \in DOMAIN new /\ new[k] = u[k]
  PROVE  Inv'
<1> DEFINE data == Sees(v)
<1> DEFINE next == [k \in ObjectKeys |-> IF k \in DOMAIN new THEN new[k] ELSE Seen(v, k)]
<1>1. old \in Indexed \cup {None} /\ IndexVal(x) \in Indexed \cup {None}
  BY DEF IndexVal
<1>2. Entries(u, v, o, old, IndexVal(x))
  BY <1>1, EntriesWritten
<1>3. /\ DOMAIN new \subseteq {Field(o), Exists(o)} \cup DOMAIN u
      /\ Field(o) \in DOMAIN new
      /\ Exists(o) \in DOMAIN new => new[Exists(o)] \in {True, None}
      /\ \A k \in DOMAIN u : k \in DOMAIN new /\ new[k] = u[k]
  OBVIOUS
<1>4. Exact(data)
  BY DEF Write, Inv, IsOpen, S!Closed
<1>5. /\ \A y \in Indexed : IndexLookup(v, y) = Found(data, y) /\ data[Index(y)] = Seen(v, Index(y))
      /\ \A p \in Objects : data[Field(p)] = Seen(v, Field(p))
  BY KeysDiffer DEF IndexLookup, Found, Sees
<1>6. /\ next[Field(o)] = x
      /\ \A p \in Objects : p # o => next[Field(p)] = data[Field(p)]
      /\ \A y \in Indexed : next[Index(y)] = IF Index(y) \in DOMAIN u THEN u[Index(y)]
                                             ELSE data[Index(y)]
  <2>0. \A k \in DOMAIN u : \E y \in Indexed : k = Index(y)
    BY <1>2 DEF Entries
  <2>1. \A p \in Objects : p # o => Field(p) \notin DOMAIN new
    BY <1>3, <2>0, KeysDiffer
  <2>2. \A y \in Indexed : Index(y) \in DOMAIN new <=> Index(y) \in DOMAIN u
    BY <1>3, KeysDiffer
  <2>3. \A k \in ObjectKeys : next[k] = IF k \in DOMAIN new THEN new[k] ELSE Seen(v, k)
    OBVIOUS
  <2> HIDE DEF next, data
  <2>4. QED  BY <1>3, <1>5, <2>1, <2>2, <2>3, KeysDiffer
<1>7. Exact(next)
  <2> HIDE DEF next, data
  <2>1. old = IndexVal(data[Field(o)])
    BY <1>5
  <2>2. /\ \A y \in Indexed : old # IndexVal(x) /\ y = IndexVal(x) =>
             next[Index(y)] = Append(Found(data, y), o)
        /\ \A y \in Indexed : old # IndexVal(x) /\ y = old =>
             next[Index(y)] = Without(Found(data, y), o)
        /\ \A y \in Indexed : old = IndexVal(x) \/ y \notin {old, IndexVal(x)} =>
             next[Index(y)] = data[Index(y)]
    BY <1>2, <1>5, <1>6 DEF Entries
  <2>3. QED  BY <1>4, <1>6, <2>1, <2>2, MoveKeepsExact
<1>8. \A k \in DOMAIN new : new[k] # NotWritten
  <2> HIDE DEF next, data
  <2>1. \A y \in Indexed : /\ Found(data, y) \in Seq(Objects) /\ IsInjective(Found(data, y))
                           /\ Append(Found(data, y), o) \in Seq(Objects)
    BY <1>4 DEF Exact
  <2>2. \A y \in Indexed : Without(Found(data, y), o) \in Seq(Objects)
    BY <2>1, WithoutKeeps
  <2>3. \A k \in DOMAIN u : u[k] \in Seq(Objects)
    <3> SUFFICES ASSUME NEW y \in Indexed, Index(y) \in DOMAIN u
                 PROVE  u[Index(y)] \in Seq(Objects)
      BY <1>2 DEF Entries
    <3>1. \/ u[Index(y)] = Append(Found(data, y), o)
          \/ u[Index(y)] = Without(Found(data, y), o)
      BY <1>2, <1>5 DEF Entries
    <3>2. QED  BY <2>1, <2>2, <3>1
  <2>4. x # NotWritten /\ True # NotWritten /\ None # NotWritten /\ NotWritten \notin Seq(Objects)
    BY ObjectsAssumption
  <2>5. QED  BY <1>3, <2>3, <2>4
<1>9. QED  BY <1>7, <1>8, WriteSeen

(* The three operations of a transaction on an object. *)
LEMMA OperationKeeps ==
  ASSUME Inv, NEW v \in Views, NEW o \in Objects,
         (\E x \in FieldVals : New(v, o, x) \/ Set(v, o, x)) \/ Delete(v, o)
  PROVE  Inv'
<1>0. None \notin Indexed /\ IndexVal(None) = None
  BY ObjectsAssumption DEF IndexVal
<1>1. ASSUME NEW x \in FieldVals, New(v, o, x)  PROVE Inv'
  <2> DEFINE old == IndexVal(Seen(v, Field(o)))
  <2> DEFINE u == UpdateIndices(v, o, old, IndexVal(x))
  <2> DEFINE new == Over([k \in {Field(o), Exists(o)} |-> IF k = Field(o) THEN x ELSE True], u)
  <2>1. old = None /\ Write(v, new)
    BY <1>0, <1>1 DEF New
  <2> HIDE DEF u
  <2>2. \A k \in DOMAIN u : k # Field(o) /\ k # Exists(o)
    <3>1. old \in Indexed \cup {None} /\ IndexVal(x) \in Indexed \cup {None}
      BY DEF IndexVal
    <3>2. Entries(u, v, o, old, IndexVal(x))
      BY <3>1, EntriesWritten DEF u
    <3>3. QED  BY <3>2, KeysDiffer DEF Entries
  <2>3. /\ DOMAIN new = {Field(o), Exists(o)} \cup DOMAIN u
        /\ new[Field(o)] = x /\ new[Exists(o)] = True
        /\ \A k \in DOMAIN u : new[k] = u[k]
    BY <2>2, KeysDiffer DEF Over
  <2> HIDE DEF new, old
  <2>4. old = IndexVal(Seen(v, Field(o))) /\ u = UpdateIndices(v, o, old, IndexVal(x))
    BY DEF u, old
  <2>5. QED  BY <2>1, <2>3, <2>4, MoveKeeps
<1>2. ASSUME NEW x \in FieldVals, Set(v, o, x)  PROVE Inv'
  <2> DEFINE old == IndexVal(Seen(v, Field(o)))
  <2> DEFINE u == UpdateIndices(v, o, old, IndexVal(x))
  <2> DEFINE new == Over([k \in {Field(o)} |-> x], u)
  <2>1. Write(v, new)
    BY <1>2 DEF Set
  <2> HIDE DEF u
  <2>2. \A k \in DOMAIN u : k # Field(o) /\ k # Exists(o)
    <3>1. old \in Indexed \cup {None} /\ IndexVal(x) \in Indexed \cup {None}
      BY DEF IndexVal
    <3>2. Entries(u, v, o, old, IndexVal(x))
      BY <3>1, EntriesWritten DEF u
    <3>3. QED  BY <3>2, KeysDiffer DEF Entries
  <2>3. /\ DOMAIN new = {Field(o)} \cup DOMAIN u /\ Exists(o) \notin DOMAIN new
        /\ new[Field(o)] = x
        /\ \A k \in DOMAIN u : new[k] = u[k]
    BY <2>2, KeysDiffer DEF Over
  <2> HIDE DEF new, old
  <2>4. old = IndexVal(Seen(v, Field(o))) /\ u = UpdateIndices(v, o, old, IndexVal(x))
    BY DEF u, old
  <2>5. QED  BY <2>1, <2>3, <2>4, MoveKeeps
<1>3. CASE Delete(v, o)
  <2> DEFINE old == IndexVal(Seen(v, Field(o)))
  <2> DEFINE u == UpdateIndices(v, o, old, IndexVal(None))
  <2> DEFINE new == Over([k \in {Field(o), Exists(o)} |-> None], u)
  <2>1. Write(v, new)
    BY <1>0, <1>3 DEF Delete
  <2> HIDE DEF u
  <2>2. \A k \in DOMAIN u : k # Field(o) /\ k # Exists(o)
    <3>1. old \in Indexed \cup {None} /\ IndexVal(None) \in Indexed \cup {None}
      BY DEF IndexVal
    <3>2. Entries(u, v, o, old, IndexVal(None))
      BY <3>1, EntriesWritten DEF u
    <3>3. QED  BY <3>2, KeysDiffer DEF Entries
  <2>3. /\ DOMAIN new = {Field(o), Exists(o)} \cup DOMAIN u
        /\ new[Field(o)] = None /\ new[Exists(o)] = None
        /\ \A k \in DOMAIN u : new[k] = u[k]
    BY <2>2, KeysDiffer DEF Over
  <2> HIDE DEF new, old
  <2>4. old = IndexVal(Seen(v, Field(o))) /\ u = UpdateIndices(v, o, old, IndexVal(None))
    BY DEF u, old
  <2>5. QED  BY <2>1, <2>3, <2>4, MoveKeeps
<1>4. QED  BY <1>1, <1>2, <1>3

(* The inductive step, one case per action. *)
LEMMA InvStep == Inv /\ [Next]_vars => Inv'
<1> SUFFICES ASSUME Inv, [Next]_vars  PROVE Inv'
  OBVIOUS
<1>1. ASSUME NEW w \in Views, UNCHANGED <<store, version>>, open'[w] = open[w], IsOpen(w)
      PROVE  IsOpen(w)'
  <2>1. Sees(w)' = Sees(w)
    BY <1>1 DEF Sees, Seen
  <2>2. QED  BY <1>1, <2>1 DEF IsOpen
<1>2. ASSUME NEW v \in Views, NEW mode \in {"view", "transaction"}, S!Open(v, mode)
      PROVE  Inv'
  <2>1. /\ UNCHANGED <<store, version>> /\ DOMAIN open' = Views
        /\ open' = [w \in Views |-> open'[w]]
        /\ \A w \in Views : w # v => open'[w] = open[w]
        /\ open'[v] = [mode |-> mode, base |-> version, seen |-> store, writes |-> S!Nothing]
    BY <1>2 DEF S!Open, Inv
  <2>2. DOMAIN S!Nothing = ObjectKeys /\ \A k \in ObjectKeys : S!Nothing[k] = NotWritten
    BY DEF S!Nothing
  <2>3. Sees(v)' = store
    <3>1. Sees(v)' = [k \in ObjectKeys |-> store[k]]
      BY <2>1, <2>2 DEF Sees, Seen
    <3>2. QED  BY <3>1 DEF Inv
  <2>4. IsOpen(v)'
    BY <2>1, <2>2, <2>3 DEF IsOpen, Inv
  <2>5. \A w \in Views : open'[w] = S!Closed \/ IsOpen(w)'
    BY <1>1, <2>1, <2>4 DEF Inv
  <2>6. QED  BY <2>1, <2>5 DEF Inv
<1>3. ASSUME NEW v \in Views, S!Commit(v)  PROVE Inv'
  <2>1. IsOpen(v) /\ open[v].base = version
    BY <1>3 DEF S!Commit, Inv, S!Closed
  <2>2. /\ version' = version + 1 /\ DOMAIN open' = Views /\ open'[v] = S!Closed
        /\ open' = [w \in Views |-> open'[w]]
        /\ \A w \in Views : w # v => open'[w] = open[w]
    BY <1>3 DEF S!Commit, Inv
  <2>3. store' = Sees(v)
    BY <1>3, <2>1 DEF S!Commit, Sees, Seen, IsOpen
  <2>4. /\ Exact(store') /\ DOMAIN store' = ObjectKeys
        /\ store' = [k \in ObjectKeys |-> store'[k]]
    BY <2>1, <2>3 DEF IsOpen, Sees
  <2>5. ASSUME NEW w \in Views, w # v, IsOpen(w)  PROVE IsOpen(w)'
    <3>1. Sees(w)' = Sees(w) /\ open'[w] = open[w]
      BY <2>2, <2>5 DEF Sees, Seen
    <3>2. open[w].base <= version' /\ open[w].base # version'
      BY <2>2, <2>5 DEF IsOpen, Inv
    <3>3. QED  BY <2>5, <3>1, <3>2 DEF IsOpen
  <2>6. \A w \in Views : open'[w] = S!Closed \/ IsOpen(w)'
    BY <2>2, <2>5 DEF Inv
  <2>7. QED  BY <2>2, <2>4, <2>6 DEF Inv
<1>4. ASSUME NEW v \in Views, S!Close(v)  PROVE Inv'
  <2>1. /\ UNCHANGED <<store, version>> /\ DOMAIN open' = Views /\ open'[v] = S!Closed
        /\ open' = [w \in Views |-> open'[w]]
        /\ \A w \in Views : w # v => open'[w] = open[w]
    BY <1>4 DEF S!Close, Inv
  <2>2. \A w \in Views : open'[w] = S!Closed \/ IsOpen(w)'
    BY <1>1, <2>1 DEF Inv
  <2>3. QED  BY <2>1, <2>2 DEF Inv
<1>5. ASSUME NEW v \in Views, NEW o \in Objects,
             (\E x \in FieldVals : New(v, o, x) \/ Set(v, o, x)) \/ Delete(v, o)
      PROVE  Inv'
  BY <1>5, OperationKeeps
<1>6. CASE UNCHANGED vars
  BY <1>1, <1>6 DEF vars, Inv
<1>7. QED
  BY <1>2, <1>3, <1>4, <1>5, <1>6 DEF Next, Leave

(* An empty database, without views. *)
LEMMA InitHolds == Init => Inv
<1> SUFFICES ASSUME Init  PROVE Inv
  OBVIOUS
<1>1. store = [k \in ObjectKeys |-> None]
  BY DEF Init
<1>2. \A x \in Indexed : Found(store, x) = <<>>
  BY <1>1, KeysDiffer DEF Found
<1>3. <<>> \in Seq(Objects) /\ ToSet(<<>>) = {} /\ IsInjective(<<>>)
  BY DEF ToSet, IsInjective
<1>4. \A x \in Indexed : {o \in Objects : store[Field(o)] = x} = {}
  BY <1>1, KeysDiffer, ObjectsAssumption
<1>5. Exact(store)
  BY <1>2, <1>3, <1>4 DEF Exact
<1>6. QED  BY <1>1, <1>5 DEF Init, Inv

(* In every view and in every transaction the index has each object once,   *)
(* under the value its field has there: whatever _new, _set and _delete do  *)
(* through _update_indices, for any number of objects, values and views.    *)
THEOREM IndexStaysExact == Spec => []IndexExact
<1>1. Inv => IndexExact
  <2> SUFFICES ASSUME Inv, NEW v \in Views, open[v] # S!Closed, NEW x \in Indexed
               PROVE  /\ ToSet(IndexLookup(v, x)) = {o \in Objects : Seen(v, Field(o)) = x}
                      /\ IsInjective(IndexLookup(v, x))
    BY DEF IndexExact
  <2>1. Exact(Sees(v))
    BY DEF Inv, IsOpen
  <2>2. IndexLookup(v, x) = Found(Sees(v), x)
    BY KeysDiffer DEF IndexLookup, Found, Sees
  <2>3. \A o \in Objects : Sees(v)[Field(o)] = Seen(v, Field(o))
    BY KeysDiffer DEF Sees
  <2>4. {o \in Objects : Sees(v)[Field(o)] = x} = {o \in Objects : Seen(v, Field(o)) = x}
    BY <2>3
  <2>5. QED  BY <2>1, <2>2, <2>4 DEF Exact
<1>2. QED  BY <1>1, InitHolds, InvStep, PTL DEF Spec
==============================================================================
