------------------------ MODULE ObjectDatabaseProofs ------------------------
(* Proofs about ObjectDatabase, for every number of views, keys and values *)
(* and any number of transactions.                                         *)
EXTENDS ObjectDatabase, FiniteSetTheorems, WellFoundedInduction, TLAPS

(* Versions in memory end with the current one. *)
VersionsShape ==
    /\ \A n \in versions : n <= cur
    /\ versions # {} => cur \in versions
    /\ minTx <= cur
    /\ \A k \in Keys : keyVersions[k] \subseteq versions

(* Exactly the keys with versions have a tail, and their latest version is *)
(* what the store has.                                                     *)
NewestIsStored ==
    \A k \in Keys :
        /\ keyVersions[k] = {} <=> tail[k] = NoTail
        /\ keyVersions[k] # {} => object[k][Latest(keyVersions[k])].json = kv[k]

(* What is cached as parsed was parsed from the value it is cached with. *)
Coherent(p) == p.parsed \in {NotParsed, p.json}
CachesCoherent ==
    \A k \in Keys :
        /\ Coherent(Newest(k))
        /\ tail[k] # NoTail => Coherent(tail[k])
        /\ \A n \in Version : Coherent(object[k][n])

(* Views are not newer than the database, and versions they may read are   *)
(* kept; a value that is being parsed is still the one to be read.         *)
ViewsKept ==
    \A v \in Views :
        /\ tid[v] <= cur
        /\ mode[v] # "closed" => minTx <= tid[v]
        /\ Busy(v) => IsOpen(v) /\ parsing[v].val = Lookup(parsing[v].key, tid[v]).json

IInv ==
    /\ TypeOK
    /\ VersionsShape
    /\ NewestIsStored
    /\ CachesCoherent
    /\ RefsCounted
    /\ ViewsKept

(* A set of version numbers has a lowest and a latest element. *)
LEMMA LowestExists ==
  ASSUME NEW S, S \subseteq Nat, S # {}
  PROVE  Lowest(S) \in S /\ \A m \in S : Lowest(S) <= m
<1> DEFINE R == OpToRel(<, Nat)
<1>1. \E n \in S : \A m \in S : ~(<<m, n>> \in R)
  <2>1. IsWellFoundedOn(R, Nat)
    BY NatLessThanWellFounded
  <2> HIDE DEF R
  <2>2. QED  BY <2>1, WFMin
<1>2. PICK n \in S : \A m \in S : ~(m < n)
  BY <1>1 DEF OpToRel
<1>3. \A m \in S : n <= m
  <2> HIDE DEF R
  <2> QED  BY <1>2
<1>4. QED  BY <1>3 DEF Lowest

(* The latest one, which _best_version_for and _cleanup look for, exists. *)
LEMMA LatestExists ==
  ASSUME NEW S, S \subseteq Version, S # {}
  PROVE  Latest(S) \in S /\ \A m \in S : m <= Latest(S)
<1> DEFINE T == {MaxTx - n : n \in S}
<1>1. T \subseteq Nat /\ T # {}
  BY DatabaseAssumption DEF Version
<1>2. Lowest(T) \in T /\ \A m \in T : Lowest(T) <= m
  <2> HIDE DEF T
  <2> QED  BY <1>1, LowestExists
<1>3. PICK n \in S : Lowest(T) = MaxTx - n
  BY <1>2
<1>4. \A m \in S : MaxTx - n <= MaxTx - m
  BY <1>2, <1>3
<1>5. \A m \in S : m <= n
  <2> HIDE DEF T
  <2>1. MaxTx \in Nat /\ S \subseteq Nat
    BY DatabaseAssumption DEF Version
  <2>2. QED  BY <1>4, <2>1
<1>6. QED  BY <1>5 DEF Latest

(* An element that no other exceeds is the latest one. *)
LEMMA LatestUnique ==
  ASSUME NEW S, S \subseteq Version, NEW n \in S, \A m \in S : m <= n
  PROVE  Latest(S) = n
<1>1. Latest(S) \in S /\ \A m \in S : m <= Latest(S)
  BY LatestExists
<1>2. S \subseteq Int
  BY DatabaseAssumption DEF Version
<1>3. Latest(S) <= n /\ n <= Latest(S) /\ n \in Int /\ Latest(S) \in Int
  BY <1>1, <1>2
<1>4. \A i, j \in Int : i <= j /\ j <= i => i = j
  OBVIOUS
<1>5. QED  BY <1>3, <1>4, Zenon

(* In memory nothing but the JSON value of a lookup matters. *)
LEMMA ValueIsJson ==
  ASSUME IInv, NEW k \in Keys, NEW t \in Version
  PROVE  /\ Lookup(k, t) \in Pairs
         /\ Coherent(Lookup(k, t))
         /\ Value(k, t) = Lookup(k, t).json
<1>1. VersionsUpTo(k, t) \subseteq Version
  BY DEF IInv, TypeOK, VersionsUpTo
<1>2. VersionsUpTo(k, t) # {} => Latest(VersionsUpTo(k, t)) \in Version
  BY <1>1, LatestExists
<1>3. Lookup(k, t) \in Pairs /\ Coherent(Lookup(k, t))
  <2>1. Newest(k) \in Pairs
    BY DEF IInv, TypeOK, Newest, Pairs
  <2>2. tail[k] # NoTail => tail[k] \in Pairs
    BY DEF IInv, TypeOK
  <2>3. \A n \in Version : object[k][n] \in Pairs
    BY DEF IInv, TypeOK
  <2>4. QED  BY <1>2, <2>1, <2>2, <2>3 DEF IInv, CachesCoherent, NewestIsStored, Lookup
<1>4. QED
  <2> DEFINE p == Lookup(k, t)
  <2>1. p \in Pairs /\ Coherent(p)
    BY <1>3
  <2>2. Value(k, t) = IF p.json = None \/ p.parsed = NotParsed THEN p.json ELSE p.parsed
    BY DEF Value
  <2> HIDE DEF p
  <2>3. Value(k, t) = p.json
    BY <2>1, <2>2, DatabaseAssumption DEF Coherent
  <2>4. QED  BY <2>3, <1>3 DEF p

(* At the current transaction a lookup finds what the store has. *)
LEMMA CurrentIsStored ==
  ASSUME IInv, NEW k \in Keys
  PROVE  Lookup(k, cur).json = kv[k]
<1>1. VersionsUpTo(k, cur) = keyVersions[k]
  BY DEF IInv, VersionsShape, VersionsUpTo
<1>2. QED  BY <1>1 DEF IInv, NewestIsStored, Lookup, Newest

(* A Database that was just opened on a store satisfies the invariant. *)
THEOREM InitHolds == Init => IInv
<1> SUFFICES ASSUME NEW contents \in [Keys -> Stored], InitOn(contents)
             PROVE  IInv
  BY DEF Init
<1>1. TypeOK
  BY DatabaseAssumption DEF InitOn, TypeOK, Version, Pairs, Blank, Stored
<1>2. VersionsShape /\ NewestIsStored
  BY DEF InitOn, VersionsShape, NewestIsStored
<1>3. CachesCoherent
  BY DEF InitOn, CachesCoherent, Coherent, Newest, Blank
<1>4. RefsCounted
  <2>1. Refs = {}
    BY DEF InitOn, Refs
  <2>2. \A n \in Version : ViewsAt(n) = {}
    BY DEF InitOn, ViewsAt
  <2>3. \A n \in Version : Cardinality(ViewsAt(n)) = 0
    BY <2>2, FS_EmptySet
  <2>4. QED  BY <2>1, <2>3 DEF RefsCounted, InitOn
<1>5. ViewsKept
  BY DatabaseAssumption DEF InitOn, ViewsKept, Busy
<1>6. QED  BY <1>1, <1>2, <1>3, <1>4, <1>5 DEF IInv

(* Caching a parsed value changes no JSON value and stays coherent. *)
LEMMA EndParsingKeeps ==
  ASSUME IInv, NEW v \in Views, EndParsing(v)
  PROVE  IInv' /\ \A u \in Views, k \in Keys :
                      Lookup(k, tid[u])'.json = Lookup(k, tid[u]).json
<1> DEFINE p == parsing[v].key
           x == parsing[v].val
           t == tid[v]
<1>1. p \in Keys /\ x \in Vals /\ t \in Version /\ x = Lookup(p, t).json
  BY DEF EndParsing, IInv, TypeOK, ViewsKept, Busy, Parses
<1>2. CacheParsed(p, t, x)
  BY DEF EndParsing
<1>3. /\ UNCHANGED <<kv, cur, minTx, versions, keyVersions, counts, minReffed, mode, tid, writes>>
      /\ parsing' = [parsing EXCEPT ![v] = NotParsed]
  BY DEF EndParsing, refVars
<1>4. VersionsUpTo(p, t) \subseteq keyVersions[p] /\ VersionsUpTo(p, t) \subseteq Version
  BY <1>1 DEF IInv, TypeOK, VersionsUpTo
<1>5. /\ cache' \in [Keys -> Vals \cup {NotParsed}]
      /\ tail' \in [Keys -> Pairs \cup {NoTail}]
      /\ object' \in [Keys -> [Version -> Pairs]]
      /\ \A k \in Keys : Newest(k)'.json = Newest(k).json /\ Coherent(Newest(k)')
      /\ \A k \in Keys : /\ tail'[k] = NoTail <=> tail[k] = NoTail
                         /\ tail[k] # NoTail => tail'[k].json = tail[k].json /\ Coherent(tail'[k])
      /\ \A k \in Keys, n \in Version : /\ object'[k][n].json = object[k][n].json
                                        /\ Coherent(object'[k][n])
  <2> HIDE DEF p, x, t
  <2>1. CASE keyVersions[p] = {} /\ tail[p] = NoTail
    <3>1. VersionsUpTo(p, t) = {}
      BY <2>1, <1>4
    <3>2. cache' = [cache EXCEPT ![p] = x] /\ UNCHANGED <<tail, object>>
      BY <2>1, <3>1, <1>2 DEF CacheParsed
    <3>3. x = kv[p]
      BY <2>1, <1>1 DEF Lookup, Newest
    <3>4. QED  BY <3>2, <3>3, <1>1, <1>3 DEF IInv, TypeOK, CachesCoherent, Newest, Coherent
  <2>2. CASE ~(keyVersions[p] = {} /\ tail[p] = NoTail) /\ VersionsUpTo(p, t) = {}
    <3>1. /\ tail' = [tail EXCEPT ![p] = [json |-> tail[p].json, parsed |-> x]]
          /\ UNCHANGED <<cache, object>>
      BY <2>2, <1>2 DEF CacheParsed
    <3>2. tail[p] # NoTail /\ tail[p] \in Pairs /\ x = tail[p].json
      BY <2>2, <1>1 DEF IInv, TypeOK, NewestIsStored, Lookup
    <3>3. [json |-> tail[p].json, parsed |-> x] \in Pairs
      BY <3>2, <1>1 DEF Pairs
    <3>4. NoTail \notin Pairs
      BY DatabaseAssumption DEF Pairs, Stored
    <3>5. QED
      BY <3>1, <3>2, <3>3, <3>4, <1>1, <1>3 DEF IInv, TypeOK, CachesCoherent, Newest, Coherent
  <2>3. CASE VersionsUpTo(p, t) # {}
    <3> DEFINE n == Latest(VersionsUpTo(p, t))
    <3>1. n \in VersionsUpTo(p, t) /\ n \in Version
      BY <2>3, <1>4, LatestExists
    <3>2. keyVersions[p] # {}
      BY <2>3, <1>4
    <3>3. /\ object' = [object EXCEPT ![p][n] = [json |-> object[p][n].json, parsed |-> x]]
          /\ UNCHANGED <<cache, tail>>
      BY <2>3, <3>2, <1>2 DEF CacheParsed
    <3>4. x = object[p][n].json
      BY <2>3, <3>2, <1>1 DEF Lookup
    <3>5. object[p][n] \in Pairs
      BY <3>1, <1>1 DEF IInv, TypeOK
    <3> HIDE DEF n
    <3>6. [json |-> object[p][n].json, parsed |-> x] \in Pairs
      BY <3>5, <1>1 DEF Pairs
    <3>7. object' \in [Keys -> [Version -> Pairs]]
      BY <3>1, <3>3, <3>6, <1>1 DEF IInv, TypeOK
    <3>8. \A k \in Keys, m \in Version :
             object'[k][m] = IF k = p /\ m = n THEN [json |-> object[p][n].json, parsed |-> x]
                             ELSE object[k][m]
      BY <3>1, <3>3, <1>1 DEF IInv, TypeOK
    <3>9. \A k \in Keys, m \in Version : object'[k][m].json = object[k][m].json /\ Coherent(object'[k][m])
      BY <3>4, <3>8 DEF IInv, CachesCoherent, Coherent
    <3>10. QED
      BY <3>3, <3>7, <3>9, <1>3 DEF IInv, TypeOK, CachesCoherent, Newest, Coherent
  <2>4. QED  BY <2>1, <2>2, <2>3
<1> HIDE DEF p, x, t
<1>6. \A k \in Keys, s \in Version : Lookup(k, s)'.json = Lookup(k, s).json
  <2> SUFFICES ASSUME NEW k \in Keys, NEW s \in Version
               PROVE  Lookup(k, s)'.json = Lookup(k, s).json
    OBVIOUS
  <2>1. VersionsUpTo(k, s)' = VersionsUpTo(k, s)
    BY <1>3 DEF VersionsUpTo
  <2>2. VersionsUpTo(k, s) # {} => Latest(VersionsUpTo(k, s)) \in Version
    <3>1. VersionsUpTo(k, s) \subseteq Version
      BY DEF IInv, TypeOK, VersionsUpTo
    <3>2. QED  BY <3>1, LatestExists
  <2>3. keyVersions[k] = {} <=> tail[k] = NoTail
    BY DEF IInv, NewestIsStored
  <2>4. QED  BY <2>1, <2>2, <2>3, <1>3, <1>5 DEF Lookup
<1>7. TypeOK'
  BY <1>3, <1>5 DEF IInv, TypeOK
<1>8. VersionsShape'
  BY <1>3 DEF IInv, VersionsShape
<1>9. NewestIsStored'
  <2>1. \A k \in Keys : keyVersions[k] # {} => Latest(keyVersions[k]) \in Version
    BY LatestExists DEF IInv, TypeOK
  <2>2. QED  BY <2>1, <1>3, <1>5 DEF IInv, NewestIsStored
<1>10. CachesCoherent'
  BY <1>5 DEF CachesCoherent
<1>11. RefsCounted'
  BY <1>3 DEF IInv, RefsCounted, Refs, ViewsAt
<1>12. ViewsKept'
  <2>1. \A u \in Views : Busy(u)' => Busy(u) /\ parsing'[u] = parsing[u]
    BY <1>3 DEF IInv, TypeOK, Busy
  <2>2. \A u \in Views : Busy(u) => parsing[u].key \in Keys
    BY DEF IInv, TypeOK, Busy, Parses
  <2>3. \A u \in Views : tid[u] \in Version
    BY DEF IInv, TypeOK
  <2>4. QED  BY <2>1, <2>2, <2>3, <1>3, <1>6 DEF IInv, ViewsKept, IsOpen
<1>13. QED
  <2>1. \A u \in Views : tid[u] \in Version /\ tid'[u] = tid[u]
    BY <1>3 DEF IInv, TypeOK
  <2>2. QED
    BY <2>1, <1>3, <1>6, <1>7, <1>8, <1>9, <1>10, <1>11, <1>12 DEF IInv

(* An element that exceeds no other is the lowest one. *)
LEMMA LowestUnique ==
  ASSUME NEW S, S \subseteq Nat, NEW n \in S, \A m \in S : n <= m
  PROVE  Lowest(S) = n
<1>1. Lowest(S) \in S /\ \A m \in S : Lowest(S) <= m
  BY LowestExists
<1>2. Lowest(S) <= n /\ n <= Lowest(S)
  BY <1>1
<1>3. n \in Int /\ Lowest(S) \in Int
  <2>1. n \in Nat /\ Lowest(S) \in Nat
    BY <1>1, Zenon
  <2>2. QED  BY <2>1
<1>4. \A i, j \in Int : i <= j /\ j <= i => i = j
  OBVIOUS
<1>5. QED  BY <1>2, <1>3, <1>4, Zenon

(* The value that _get starts to parse is what the view has to read. *)
LEMMA StartParsingKeeps ==
  ASSUME IInv, NEW v \in Views, NEW k \in Keys, StartParsing(v, k)
  PROVE  IInv'
<1>1. /\ UNCHANGED <<kv, cur, cache, minTx, versions, keyVersions, object, tail, counts,
                     minReffed, mode, tid, writes>>
      /\ parsing' = [parsing EXCEPT ![v] = [key |-> k, val |-> Lookup(k, tid[v]).json]]
      /\ IsOpen(v)
  BY DEF StartParsing, versionVars, refVars
<1>2. \A j, s : Lookup(j, s)' = Lookup(j, s)
  BY <1>1 DEF Lookup, VersionsUpTo, Newest
<1>3. Lookup(k, tid[v]).json \in Vals
  <2>1. tid[v] \in Version
    BY DEF IInv, TypeOK
  <2>2. Lookup(k, tid[v]) \in Pairs
    BY <2>1, ValueIsJson
  <2>3. QED  BY <2>2 DEF StartParsing, Pairs, Stored
<1>4. TypeOK'
  BY <1>1, <1>3 DEF IInv, TypeOK, Parses
<1>5. ViewsKept'
  BY <1>1, <1>2 DEF IInv, TypeOK, ViewsKept, Busy, IsOpen
<1>6. VersionsShape' /\ NewestIsStored' /\ CachesCoherent' /\ RefsCounted'
  BY <1>1 DEF IInv, VersionsShape, NewestIsStored, CachesCoherent, Newest, RefsCounted,
     Refs, ViewsAt
<1>7. QED  BY <1>4, <1>5, <1>6 DEF IInv

(* clearCache changes no JSON value. *)
LEMMA ClearCacheKeeps ==
  ASSUME IInv, ClearCache
  PROVE  /\ IInv'
         /\ \A u \in Views, k \in Keys : Lookup(k, tid[u])'.json = Lookup(k, tid[u]).json
<1>1. /\ UNCHANGED <<kv, cur, minTx, versions, keyVersions, object, tail, counts,
                     minReffed, mode, tid, writes, parsing>>
      /\ cache' = [k \in Keys |-> NotParsed]
  BY DEF ClearCache, versionVars, refVars, viewVars
<1>2. \A k \in Keys, s \in Version : Lookup(k, s)'.json = Lookup(k, s).json
  BY <1>1 DEF Lookup, VersionsUpTo, Newest
<1>3. TypeOK'
  BY <1>1 DEF IInv, TypeOK
<1>4. \A u \in Views : tid[u] \in Version /\ (Busy(u) => parsing[u].key \in Keys)
  BY DEF IInv, TypeOK, Busy, Parses
<1>5. ViewsKept'
  BY <1>1, <1>2, <1>4 DEF IInv, ViewsKept, Busy, IsOpen
<1>6. VersionsShape' /\ NewestIsStored' /\ RefsCounted'
  BY <1>1 DEF IInv, VersionsShape, NewestIsStored, RefsCounted, Refs, ViewsAt
<1>7. CachesCoherent'
  BY <1>1 DEF IInv, CachesCoherent, Newest, Coherent
<1>8. \A u \in Views, k \in Keys : Lookup(k, tid[u])'.json = Lookup(k, tid[u]).json
  BY <1>1, <1>2, <1>4
<1>9. QED  BY <1>3, <1>5, <1>6, <1>7, <1>8 DEF IInv

(* A write stays in _writes. *)
LEMMA WriteKeeps ==
  ASSUME IInv, NEW v \in Views, NEW k \in Keys, NEW x \in Stored, Write(v, k, x)
  PROVE  IInv'
<1>1. /\ UNCHANGED <<kv, cur, cache, minTx, versions, keyVersions, object, tail, counts,
                     minReffed, mode, tid, parsing>>
      /\ writes' = [writes EXCEPT ![v][k] = x]
  BY DEF Write, versionVars, refVars
<1>2. \A j, s : Lookup(j, s)' = Lookup(j, s)
  BY <1>1 DEF Lookup, VersionsUpTo, Newest
<1>3. TypeOK'
  BY <1>1 DEF IInv, TypeOK
<1>4. ViewsKept'
  BY <1>1, <1>2 DEF IInv, ViewsKept, Busy, IsOpen
<1>5. VersionsShape' /\ NewestIsStored' /\ CachesCoherent' /\ RefsCounted'
  BY <1>1 DEF IInv, VersionsShape, NewestIsStored, CachesCoherent, Newest, RefsCounted,
     Refs, ViewsAt
<1>6. QED  BY <1>3, <1>4, <1>5 DEF IInv

(* _incversion counts the new view, and the lowest number stays right. *)
LEMMA OpenKeeps ==
  ASSUME IInv, NEW v \in Views, NEW kind \in {"view", "transaction"}, Open(v, kind)
  PROVE  IInv'
<1>1. /\ UNCHANGED <<kv, cur, cache, minTx, versions, keyVersions, object, tail, parsing>>
      /\ writes' = [writes EXCEPT ![v] = [k \in Keys |-> NotWritten]]
      /\ mode[v] = "closed"
      /\ mode' = [mode EXCEPT ![v] = kind]
      /\ tid' = [tid EXCEPT ![v] = cur]
      /\ counts' = [counts EXCEPT ![cur] = @ + 1]
      /\ minReffed' = IF minReffed = None THEN cur ELSE Lowest({cur, minReffed})
  BY DEF Open, versionVars
<1>2. \A j, s : Lookup(j, s)' = Lookup(j, s)
  BY <1>1 DEF Lookup, VersionsUpTo, Newest
<1>3. Refs \subseteq Nat /\ cur \in Nat /\ Refs' = Refs \cup {cur}
  BY <1>1, DatabaseAssumption DEF IInv, TypeOK, Refs, Version
<1>4. minReffed' = Lowest(Refs')
  <2>1. CASE Refs = {}
    <3>1. minReffed = None /\ minReffed' = cur /\ Refs' = {cur}
      BY <1>1, <1>3, <2>1 DEF IInv, RefsCounted
    <3>2. QED  BY <3>1, <1>3, LowestUnique
  <2>2. CASE Refs # {}
    <3>1. minReffed = Lowest(Refs) /\ minReffed \in Refs /\ \A m \in Refs : minReffed <= m
      BY <1>3, <2>2, LowestExists DEF IInv, RefsCounted
    <3>2. minReffed' = Lowest({cur, minReffed})
      BY <1>1, <1>3, <3>1, DatabaseAssumption
    <3> DEFINE T == {cur, minReffed}
    <3>3. T \subseteq Nat /\ T # {} /\ T \subseteq Refs'
      BY <1>3, <3>1
    <3>4. Lowest(T) \in T /\ \A m \in T : Lowest(T) <= m
      BY <3>3, LowestExists
    <3>5. \A m \in Refs' : Lowest(T) <= m
      BY <1>3, <3>1, <3>3, <3>4
    <3>6. Lowest(T) \in Refs' /\ Refs' \subseteq Nat
      BY <1>3, <3>3, <3>4
    <3>7. Lowest(Refs') = Lowest(T)
      BY <3>5, <3>6, LowestUnique
    <3>8. QED  BY <3>2, <3>7
  <2>3. QED  BY <2>1, <2>2
<1>5. minReffed' \in Version /\ minReffed' # None
  <2>1. Refs' # {} /\ Refs' \subseteq Nat
    BY <1>3
  <2>2. Lowest(Refs') \in Refs'
    BY <2>1, LowestExists
  <2>3. QED  BY <2>2, <1>3, <1>4, DatabaseAssumption DEF IInv, TypeOK, Refs
<1>6. TypeOK'
  BY <1>1, <1>5 DEF IInv, TypeOK
<1>7. RefsCounted'
  <2>1. \A n \in Version : IsFiniteSet(ViewsAt(n))
    BY DatabaseAssumption, FS_Subset DEF ViewsAt
  <2>2. \A n \in Version : n # cur => ViewsAt(n)' = ViewsAt(n)
    BY <1>1 DEF IInv, TypeOK, ViewsAt
  <2>3. ViewsAt(cur)' = ViewsAt(cur) \cup {v} /\ v \notin ViewsAt(cur)
    BY <1>1 DEF IInv, TypeOK, ViewsAt
  <2>4. cur \in Version /\ counts \in [Version -> Nat]
    BY DEF IInv, TypeOK
  <2>5. Cardinality(ViewsAt(cur)') = Cardinality(ViewsAt(cur)) + 1
    BY <2>1, <2>3, <2>4, FS_AddElement
  <2>6. Cardinality(ViewsAt(cur)) \in Nat
    BY <2>1, <2>4, FS_CardinalityType
  <2>7. \A n \in Version : Cardinality(ViewsAt(n)) <= counts[n]
    BY DEF IInv, RefsCounted
  <2>8. \A n \in Version : Cardinality(ViewsAt(n)') <= counts'[n]
    <3> SUFFICES ASSUME NEW n \in Version
                 PROVE  Cardinality(ViewsAt(n)') <= counts'[n]
      OBVIOUS
    <3>1. CASE n = cur
      <4>1. counts'[cur] = counts[cur] + 1 /\ Cardinality(ViewsAt(cur)) <= counts[cur]
        BY <1>1, <2>4, <2>7
      <4>2. Cardinality(ViewsAt(n)') = Cardinality(ViewsAt(cur)) + 1
        BY <3>1, <1>1, <2>5
      <4>3. QED  BY <3>1, <4>1, <4>2, <2>4, <2>6
    <3>2. CASE n # cur
      BY <3>2, <1>1, <2>2, <2>4, <2>7
    <3>3. QED  BY <3>1, <3>2
  <2>9. Refs' # {}
    BY <1>3
  <2>10. QED  BY <2>8, <2>9, <1>4 DEF RefsCounted
<1>8. ViewsKept'
  <2>1. ~Busy(v)
    BY <1>1 DEF IInv, ViewsKept, IsOpen
  <2>2. minTx <= cur /\ cur \in Int
    BY DatabaseAssumption DEF IInv, VersionsShape, TypeOK, Version
  <2>3. QED  BY <1>1, <1>2, <2>1, <2>2 DEF IInv, TypeOK, ViewsKept, Busy, IsOpen
<1>9. VersionsShape' /\ NewestIsStored' /\ CachesCoherent'
  BY <1>1 DEF IInv, VersionsShape, NewestIsStored, CachesCoherent, Newest
<1>10. QED  BY <1>6, <1>7, <1>8, <1>9 DEF IInv

(* A transaction that loses a conflict leaves one reference too many. *)
LEMMA ConflictKeeps ==
  ASSUME IInv, NEW v \in Views, Conflict(v)
  PROVE  IInv'
<1>1. /\ UNCHANGED <<kv, cur, cache, minTx, versions, keyVersions, object, tail, counts,
                     minReffed, parsing>>
      /\ mode' = [mode EXCEPT ![v] = "closed"]
      /\ tid' = [tid EXCEPT ![v] = 0]
      /\ writes' = [writes EXCEPT ![v] = [k \in Keys |-> NotWritten]]
      /\ ~Busy(v)
  BY DEF Conflict, versionVars, refVars
<1>2. \A j, s : Lookup(j, s)' = Lookup(j, s)
  BY <1>1 DEF Lookup, VersionsUpTo, Newest
<1>3. 0 \in Version /\ cur \in Nat
  BY DatabaseAssumption DEF IInv, TypeOK, Version
<1>4. TypeOK'
  BY <1>1, <1>3 DEF IInv, TypeOK
<1>5. RefsCounted'
  <2>1. \A n \in Version : ViewsAt(n)' \subseteq ViewsAt(n) /\ IsFiniteSet(ViewsAt(n))
    BY <1>1, DatabaseAssumption, FS_Subset DEF IInv, TypeOK, ViewsAt
  <2>2. \A n \in Version : /\ Cardinality(ViewsAt(n)') <= Cardinality(ViewsAt(n))
                           /\ Cardinality(ViewsAt(n)') \in Nat /\ Cardinality(ViewsAt(n)) \in Nat
    BY <2>1, FS_Subset, FS_CardinalityType
  <2>3. \A n \in Version : counts[n] \in Nat /\ Cardinality(ViewsAt(n)) <= counts[n]
    BY DEF IInv, TypeOK, RefsCounted
  <2>4. \A n \in Version : Cardinality(ViewsAt(n)') <= counts[n]
    BY <2>2, <2>3
  <2>5. QED  BY <2>4, <1>1 DEF IInv, RefsCounted, Refs
<1>6. ViewsKept'
  BY <1>1, <1>2, <1>3 DEF IInv, TypeOK, ViewsKept, Busy, IsOpen
<1>7. VersionsShape' /\ NewestIsStored' /\ CachesCoherent'
  BY <1>1 DEF IInv, VersionsShape, NewestIsStored, CachesCoherent, Newest
<1>8. QED  BY <1>4, <1>5, <1>6, <1>7 DEF IInv

(* A commit adds a version that no open view sees, and saves what the      *)
(* store had for those that do not see it.                                 *)
LEMMA CommitKeeps ==
  ASSUME IInv, NEW v \in Views, Commit(v)
  PROVE  /\ IInv'
         /\ \A u \in Views, k \in Keys : Lookup(k, tid[u])'.json = Lookup(k, tid[u]).json
<1> DEFINE W == Written(v)
           new(k) == [json |-> writes[v][k],
                      parsed |-> IF writes[v][k] = None THEN NotParsed ELSE writes[v][k]]
<1>1. /\ UNCHANGED <<minTx, counts, minReffed, tid, writes, parsing>>
      /\ mode[v] = "transaction" /\ mode' = [mode EXCEPT ![v] = "leaving"]
      /\ cur' = cur + 1 /\ cur < MaxTx
      /\ versions' = versions \cup {cur + 1}
      /\ ~Busy(v)
  BY DEF Commit, refVars
<1>2. /\ cur \in Nat /\ cur + 1 \in Version /\ cur + 1 > cur
      /\ \A n \in Version : n \in Nat
  BY <1>1, DatabaseAssumption DEF IInv, TypeOK, Version
<1>3. \A k \in W : writes[v][k] \in Stored
  BY DEF IInv, TypeOK, Written
<1>4. \A k \in Keys :
        /\ k \in W => /\ kv'[k] = writes[v][k]
                      /\ cache'[k] = new(k).parsed
                      /\ keyVersions'[k] = keyVersions[k] \cup {cur + 1}
                      /\ tail'[k] = IF keyVersions[k] = {} THEN Newest(k) ELSE tail[k]
        /\ k \notin W => /\ kv'[k] = kv[k] /\ cache'[k] = cache[k]
                         /\ keyVersions'[k] = keyVersions[k] /\ tail'[k] = tail[k]
  BY DEF Commit, TailsSaved
<1>5. \A k \in Keys, n \in Version :
        object'[k][n] = IF k \in W /\ n = cur + 1 THEN new(k) ELSE object[k][n]
  <2>1. object' = [k \in Keys |-> IF k \in W THEN [object[k] EXCEPT ![cur + 1] = new(k)]
                                  ELSE object[k]]
    BY DEF Commit
  <2> HIDE DEF W, new
  <2>2. \A k \in Keys : object[k] \in [Version -> Pairs]
    BY DEF IInv, TypeOK
  <2>3. QED  BY <2>1, <2>2, <1>2
<1>6. \A k \in W : new(k) \in Pairs /\ Coherent(new(k)) /\ new(k).json = writes[v][k]
  BY <1>3 DEF Pairs, Coherent, Stored
<1>7. \A k \in Keys : Newest(k) \in Pairs /\ Coherent(Newest(k))
  BY DEF IInv, TypeOK, CachesCoherent, Newest, Pairs
<1>8. NoTail \notin Pairs
  BY DatabaseAssumption DEF Pairs, Stored
<1>9. \A k \in Keys : /\ keyVersions[k] \subseteq Version /\ \A n \in keyVersions[k] : n <= cur
                      /\ keyVersions[k] \subseteq versions
  BY DEF IInv, TypeOK, VersionsShape
<1>10. TypeOK'
  <2>1. kv' \in [Keys -> Stored] /\ cache' \in [Keys -> Vals \cup {NotParsed}]
    <3>1. /\ kv' = [k \in Keys |-> IF k \in W THEN writes[v][k] ELSE kv[k]]
          /\ cache' = [k \in Keys |-> IF k \notin W THEN cache[k]
                                      ELSE IF writes[v][k] = None THEN NotParsed
                                      ELSE writes[v][k]]
      BY DEF Commit
    <3> HIDE DEF W
    <3>2. QED  BY <3>1, <1>3 DEF IInv, TypeOK, Stored
  <2>2. tail' \in [Keys -> Pairs \cup {NoTail}]
    <3>1. tail' = [k \in Keys |-> IF k \in W /\ keyVersions[k] = {} THEN Newest(k) ELSE tail[k]]
      BY DEF Commit, TailsSaved
    <3> HIDE DEF W
    <3>2. QED  BY <3>1, <1>7 DEF IInv, TypeOK
  <2>3. keyVersions' \in [Keys -> SUBSET Version]
    <3>1. keyVersions' = [k \in Keys |-> IF k \in W THEN keyVersions[k] \cup {cur + 1}
                                         ELSE keyVersions[k]]
      BY DEF Commit
    <3> HIDE DEF W
    <3>2. QED  BY <3>1, <1>2, <1>9
  <2>4. object' \in [Keys -> [Version -> Pairs]]
    <3>1. object' = [k \in Keys |-> IF k \in W THEN [object[k] EXCEPT ![cur + 1] = new(k)]
                                    ELSE object[k]]
      BY DEF Commit
    <3> HIDE DEF W, new
    <3>2. QED  BY <3>1, <1>2, <1>6 DEF IInv, TypeOK
  <2>5. QED
    BY <1>1, <1>2, <2>1, <2>2, <2>3, <2>4 DEF IInv, TypeOK
<1> HIDE DEF W, new
<1>11. VersionsShape'
  <2>1. \A n \in versions' : n <= cur'
    BY <1>1, <1>2 DEF IInv, TypeOK, VersionsShape
  <2>2. minTx' <= cur' /\ cur' \in versions'
    BY <1>1, <1>2 DEF IInv, TypeOK, VersionsShape
  <2>3. \A k \in Keys : keyVersions'[k] \subseteq versions'
    BY <1>1, <1>4, <1>9
  <2>4. QED  BY <2>1, <2>2, <2>3 DEF VersionsShape
<1>12. NewestIsStored'
  <2> SUFFICES ASSUME NEW k \in Keys
               PROVE  /\ keyVersions'[k] = {} <=> tail'[k] = NoTail
                      /\ keyVersions'[k] # {} => object'[k][Latest(keyVersions'[k])].json = kv'[k]
    BY DEF NewestIsStored
  <2>1. /\ keyVersions[k] = {} <=> tail[k] = NoTail
        /\ keyVersions[k] # {} => object[k][Latest(keyVersions[k])].json = kv[k]
    BY DEF IInv, NewestIsStored
  <2>2. CASE k \in W
    <3>1. keyVersions'[k] # {} /\ tail'[k] # NoTail
      BY <2>1, <2>2, <1>4, <1>7, <1>8
    <3>2. cur + 1 \in keyVersions'[k] /\ keyVersions'[k] \subseteq Version
      BY <2>2, <1>2, <1>4, <1>9
    <3>3. \A n \in keyVersions'[k] : n <= cur + 1
      BY <2>2, <1>2, <1>4, <1>9
    <3>4. Latest(keyVersions'[k]) = cur + 1
      BY <3>2, <3>3, LatestUnique
    <3>5. QED  BY <2>2, <3>1, <3>4, <1>2, <1>4, <1>5, <1>6
  <2>3. CASE k \notin W
    <3>1. keyVersions[k] # {} => Latest(keyVersions[k]) \in Version
      BY <1>9, LatestExists
    <3>2. QED  BY <2>1, <2>3, <3>1, <1>4, <1>5
  <2>4. QED  BY <2>2, <2>3
<1>13. CachesCoherent'
  <2> SUFFICES ASSUME NEW k \in Keys
               PROVE  /\ Coherent(Newest(k)')
                      /\ tail'[k] # NoTail => Coherent(tail'[k])
                      /\ \A n \in Version : Coherent(object'[k][n])
    BY DEF CachesCoherent
  <2>1. /\ tail[k] # NoTail => Coherent(tail[k])
        /\ \A n \in Version : Coherent(object[k][n])
    BY DEF IInv, CachesCoherent
  <2>2. Coherent(Newest(k)')
    BY <1>4, <1>6, <1>7 DEF Newest, Coherent
  <2>3. QED  BY <2>1, <2>2, <1>4, <1>5, <1>6, <1>7
<1>14. RefsCounted'
  <2>1. \A n : ViewsAt(n)' = ViewsAt(n)
    BY <1>1 DEF IInv, TypeOK, ViewsAt
  <2>2. Refs' = Refs
    BY <1>1 DEF Refs
  <2>3. QED  BY <1>1, <2>1, <2>2 DEF IInv, RefsCounted
<1>15. \A u \in Views, k \in Keys : Lookup(k, tid[u])'.json = Lookup(k, tid[u]).json
  <2> SUFFICES ASSUME NEW u \in Views, NEW k \in Keys
               PROVE  Lookup(k, tid[u])'.json = Lookup(k, tid[u]).json
    OBVIOUS
  <2>1. tid[u] \in Version /\ tid[u] <= cur /\ tid'[u] = tid[u]
    BY <1>1 DEF IInv, TypeOK, ViewsKept
  <2>2. VersionsUpTo(k, tid[u])' = VersionsUpTo(k, tid[u])
    BY <2>1, <1>2, <1>4, <1>9 DEF VersionsUpTo
  <2>3. VersionsUpTo(k, tid[u]) \subseteq keyVersions[k]
    BY DEF VersionsUpTo
  <2>4. CASE k \notin W
    <3>1. VersionsUpTo(k, tid[u]) # {} => Latest(VersionsUpTo(k, tid[u])) \in Version
      BY <2>3, <1>9, LatestExists
    <3>2. Newest(k)' = Newest(k) /\ tail'[k] = tail[k] /\ keyVersions'[k] = keyVersions[k]
      BY <2>4, <1>4 DEF Newest
    <3>3. \A n \in Version : object'[k][n] = object[k][n]
      BY <2>4, <1>5
    <3>4. Lookup(k, tid[u])' = Lookup(k, tid[u])
      BY <2>1, <2>2, <3>1, <3>2, <3>3 DEF Lookup
    <3>5. QED  BY <3>4
  <2>5. CASE k \in W /\ keyVersions[k] = {}
    <3>1. Lookup(k, tid[u]) = Newest(k)
      BY <2>5 DEF IInv, NewestIsStored, Lookup
    <3>2. VersionsUpTo(k, tid[u])' = {} /\ keyVersions'[k] # {}
      BY <2>2, <2>3, <2>5, <1>4
    <3>3. Lookup(k, tid[u])' = tail'[k]
      BY <3>2 DEF Lookup
    <3>4. QED  BY <2>5, <3>1, <3>3, <1>4
  <2>6. CASE k \in W /\ keyVersions[k] # {}
    <3>1. keyVersions'[k] # {} /\ tail'[k] = tail[k]
      BY <2>6, <1>4
    <3>2. CASE VersionsUpTo(k, tid[u]) = {}
      BY <2>2, <2>6, <3>1, <3>2 DEF Lookup
    <3>3. CASE VersionsUpTo(k, tid[u]) # {}
      <4> DEFINE n == Latest(VersionsUpTo(k, tid[u]))
      <4>1. n \in keyVersions[k] /\ n \in Version /\ n <= cur
        BY <3>3, <2>3, <1>9, LatestExists
      <4>2. Lookup(k, tid[u]) = object[k][n]
        BY <2>6, <3>3 DEF Lookup
      <4>3. Lookup(k, tid[u])' = object'[k][n]
        BY <2>2, <3>1, <3>3 DEF Lookup
      <4> HIDE DEF n
      <4>4. n # cur + 1
        BY <4>1, <1>2
      <4>5. QED  BY <4>1, <4>2, <4>3, <4>4, <1>5
    <3>4. QED  BY <3>2, <3>3
  <2>7. QED  BY <2>4, <2>5, <2>6
<1>16. ViewsKept'
  <2>1. \A u \in Views : Busy(u) => parsing[u].key \in Keys
    BY DEF IInv, TypeOK, Busy, Parses
  <2>2. \A u \in Views : Busy(u)' = Busy(u) /\ (u # v => mode'[u] = mode[u])
    BY <1>1 DEF IInv, TypeOK, Busy
  <2>3. \A u \in Views : tid[u] <= cur' /\ (mode'[u] # "closed" => minTx <= tid[u])
    <3>1. \A u \in Views : tid[u] \in Version /\ tid[u] <= cur
      BY DEF IInv, TypeOK, ViewsKept
    <3>2. \A u \in Views : mode'[u] # "closed" => mode[u] # "closed"
      BY <1>1 DEF IInv, TypeOK
    <3>3. \A u \in Views : tid[u] <= cur + 1
      BY <3>1, <1>2
    <3>4. QED  BY <3>2, <3>3, <1>1 DEF IInv, ViewsKept
  <2>4. QED  BY <1>1, <1>15, <2>1, <2>2, <2>3 DEF IInv, ViewsKept, IsOpen
<1>17. QED
  BY <1>10, <1>11, <1>12, <1>13, <1>14, <1>15, <1>16 DEF IInv

(* A view that was not released is counted. *)
LEMMA UnreleasedCounted ==
  ASSUME IInv, NEW v \in Views, mode[v] # "closed"
  PROVE  tid[v] \in Version /\ counts[tid[v]] > 0 /\ 1 <= Cardinality(ViewsAt(tid[v]))
<1> DEFINE t == tid[v]
<1>1. t \in Version /\ counts[t] \in Nat
  BY DEF IInv, TypeOK
<1>2. v \in ViewsAt(t) /\ IsFiniteSet(ViewsAt(t))
  BY DatabaseAssumption, FS_Subset DEF ViewsAt
<1>3. Cardinality(ViewsAt(t)) \in Nat /\ Cardinality(ViewsAt(t)) # 0
  BY <1>2, FS_CardinalityType, FS_EmptySet
<1>4. Cardinality(ViewsAt(t)) <= counts[t]
  BY <1>1 DEF IInv, RefsCounted
<1> HIDE DEF t
<1>5. counts[t] > 0 /\ 1 <= Cardinality(ViewsAt(t))
  BY <1>1, <1>3, <1>4
<1>6. QED  BY <1>1, <1>5 DEF t

(* Releasing a view keeps the counts right: the other views are counted,   *)
(* and none is below the new lowest number.                                *)
LEMMA ReleaseCounts ==
  ASSUME IInv, NEW v \in Views, Release(v)
  PROVE  /\ RefsCounted'
         /\ counts' \in [Version -> Nat]
         /\ minReffed' \in Version \cup {None}
         /\ minReffed' = MinReffedWithout(tid[v])
         /\ \A u \in Views : u # v /\ mode[u] # "closed" =>
               minReffed' \in Version /\ minReffed' <= tid[u]
<1> DEFINE t == tid[v]
<1>1. /\ mode[v] # "closed"
      /\ mode' = [mode EXCEPT ![v] = "closed"]
      /\ tid' = [tid EXCEPT ![v] = 0]
      /\ counts' = [counts EXCEPT ![t] = @ - 1]
      /\ minReffed' = MinReffedWithout(t)
  BY DEF Release, CountsWithout
<1>2. t \in Version /\ counts[t] > 0 /\ counts \in [Version -> Nat]
      /\ 1 <= Cardinality(ViewsAt(t))
  BY <1>1, UnreleasedCounted DEF IInv, TypeOK
<1>3. Version \subseteq Nat
  BY DatabaseAssumption DEF Version
<1>4. RefsWithout(t) = Refs'
  BY <1>1 DEF RefsWithout, Refs, CountsWithout, Version
<1>5. counts' \in [Version -> Nat] /\ counts'[t] = counts[t] - 1
      /\ \A n \in Version : n # t => counts'[n] = counts[n]
  <2> HIDE DEF t
  <2>1. counts[t] - 1 \in Nat
    BY <1>2
  <2>2. QED  BY <1>1, <1>2, <2>1
<1>6. Refs \subseteq Nat /\ t \in Refs /\ Refs' \subseteq Refs /\ Refs \ {t} \subseteq Refs'
  <2>1. Refs \subseteq Version /\ Refs' \subseteq Version
    BY DEF Refs, Version
  <2>2. t \in Refs
    BY <1>2 DEF Refs
  <2>3. \A n \in Version : n # t => (n \in Refs' <=> n \in Refs)
    BY <1>5 DEF Refs, Version
  <2> HIDE DEF t
  <2>4. QED  BY <1>3, <2>1, <2>2, <2>3
<1> HIDE DEF t
<1>7. /\ minReffed = Lowest(Refs) /\ Lowest(Refs) \in Refs
      /\ \A m \in Refs : Lowest(Refs) <= m
  <2>1. minReffed = Lowest(Refs)
    BY <1>6 DEF IInv, RefsCounted
  <2>2. Refs # {} /\ Refs \subseteq Nat
    BY <1>6
  <2>3. QED  BY <2>1, <2>2, LowestExists
<1>8. minReffed' = IF Refs' = {} THEN None ELSE Lowest(Refs')
  <2>1. CASE t \in Refs'
    <3>1. Refs' = Refs
      BY <2>1, <1>6
    <3>2. QED  BY <2>1, <3>1, <1>1, <1>4, <1>7 DEF MinReffedWithout
  <2>2. CASE t \notin Refs' /\ t # minReffed
    <3>1. minReffed' = minReffed
      BY <2>2, <1>1, <1>4 DEF MinReffedWithout
    <3>2. minReffed \in Refs' /\ \A m \in Refs' : minReffed <= m
      BY <2>2, <1>6, <1>7
    <3>3. Refs' \subseteq Nat
      BY <1>6
    <3>4. Lowest(Refs') = minReffed
      BY <3>2, <3>3, LowestUnique
    <3>5. QED  BY <3>1, <3>2, <3>4
  <2>3. CASE t \notin Refs' /\ t = minReffed
    BY <2>3, <1>1, <1>4 DEF MinReffedWithout
  <2>4. QED  BY <2>1, <2>2, <2>3
<1>9. Refs' # {} => minReffed' \in Version /\ \A m \in Refs' : minReffed' <= m
  <2> SUFFICES ASSUME Refs' # {}
               PROVE  minReffed' \in Version /\ \A m \in Refs' : minReffed' <= m
    OBVIOUS
  <2>1. minReffed' = Lowest(Refs') /\ Refs' \subseteq Nat
    BY <1>6, <1>8
  <2>2. Lowest(Refs') \in Refs' /\ \A m \in Refs' : Lowest(Refs') <= m
    BY <2>1, LowestExists
  <2>3. QED  BY <2>1, <2>2 DEF Refs, Version
<1>10. \A n \in Version : Cardinality(ViewsAt(n)') <= counts'[n]
  <2>1. \A n \in Version : IsFiniteSet(ViewsAt(n)) /\ Cardinality(ViewsAt(n)) <= counts[n]
    BY DatabaseAssumption, FS_Subset DEF ViewsAt, IInv, RefsCounted
  <2>2. \A n \in Version : n # t => ViewsAt(n)' = ViewsAt(n)
    BY <1>1 DEF IInv, TypeOK, ViewsAt, t
  <2>3. \A n \in Version : n = t => ViewsAt(n)' = ViewsAt(n) \ {v} /\ v \in ViewsAt(n)
    BY <1>1 DEF IInv, TypeOK, ViewsAt, t
  <2>4. \A n \in Version : n = t => /\ Cardinality(ViewsAt(n)') = Cardinality(ViewsAt(n)) - 1
                                    /\ Cardinality(ViewsAt(n)) \in Nat
    BY <2>1, <2>3, FS_RemoveElement, FS_CardinalityType
  <2>5. \A n \in Version : n = t => Cardinality(ViewsAt(n)') <= counts'[n]
    BY <1>2, <1>5, <2>1, <2>4
  <2>6. QED  BY <1>5, <2>1, <2>2, <2>5
<1>11. \A u \in Views : u # v /\ mode[u] # "closed" =>
          minReffed' \in Version /\ minReffed' <= tid[u]
  <2> SUFFICES ASSUME NEW u \in Views, u # v, mode[u] # "closed"
               PROVE  minReffed' \in Version /\ minReffed' <= tid[u]
    OBVIOUS
  <2>1. tid[u] \in Version
    BY DEF IInv, TypeOK
  <2>3. IsFiniteSet({w \in Views : mode'[w] # "closed" /\ tid'[w] = tid[u]})
    BY DatabaseAssumption, FS_Subset
  <2>4. {w \in Views : mode'[w] # "closed" /\ tid'[w] = tid[u]} # {}
    BY <1>1 DEF IInv, TypeOK
  <2>5. Cardinality({w \in Views : mode'[w] # "closed" /\ tid'[w] = tid[u]}) \in Nat \ {0}
    BY <2>3, <2>4, FS_CardinalityType, FS_EmptySet
  <2>6. \A i \in Version : Cardinality({w \in Views : mode'[w] # "closed" /\ tid'[w] = i}) <= counts'[i]
    BY <1>10 DEF ViewsAt
  <2>7. counts'[tid[u]] \in Nat /\ counts'[tid[u]] > 0
    BY <1>5, <2>1, <2>5, <2>6
  <2>8. tid[u] \in Refs'
    BY <2>1, <2>7 DEF Refs, Version
  <2>9. QED  BY <2>8, <1>9
<1>12. QED
  <2>1. RefsCounted'
    BY <1>8, <1>10 DEF RefsCounted, Version
  <2>2. minReffed' \in Version \cup {None}
    BY <1>8, <1>9
  <2>3. QED  BY <2>1, <2>2, <1>1, <1>5, <1>11 DEF t

(* The three branches of _cleanup do the same, given what holds before. *)
LEMMA CleanupUniform ==
  ASSUME IInv, NEW m \in Version \cup {None}, Cleanup(Droppable(m)), UNCHANGED cur
  PROVE  /\ versions' = versions \ Droppable(m)
         /\ keyVersions' = [k \in Keys |-> keyVersions[k] \ Droppable(m)]
         /\ tail' = [k \in Keys |->
                       IF keyVersions[k] \cap Droppable(m) = {} THEN tail[k]
                       ELSE IF keyVersions[k] \subseteq Droppable(m) THEN NoTail
                       ELSE object[k][Latest(keyVersions[k] \cap Droppable(m))]]
         /\ minTx' \in Version /\ minTx' <= cur
         /\ minTx' = minTx \/ (m \in Version /\ minTx' <= m)
<1> DEFINE D == Droppable(m)
<1>1. /\ D \subseteq versions /\ D \subseteq Version
      /\ D # {} => m \in Version /\ \A n \in D : n <= m
  BY DEF Droppable, IInv, TypeOK
<1>2. \A n \in Version : n \in Nat
  BY DatabaseAssumption DEF Version
<1>3. /\ keyVersions \in [Keys -> SUBSET Version] /\ tail \in [Keys -> Pairs \cup {NoTail}]
      /\ minTx \in Version /\ cur \in Version /\ versions \subseteq Version
      /\ minTx <= cur /\ \A n \in versions : n <= cur
      /\ versions # {} => cur \in versions
      /\ \A k \in Keys : keyVersions[k] \subseteq versions
      /\ \A k \in Keys : keyVersions[k] = {} => tail[k] = NoTail
  BY DEF IInv, TypeOK, VersionsShape, NewestIsStored
<1>4. Cleanup(D)
  OBVIOUS
<1> HIDE DEF D
<1>5. CASE D = {}
  <2>1. UNCHANGED <<versions, minTx, keyVersions, tail>>
    BY <1>4, <1>5 DEF Cleanup
  <2>2. keyVersions' = [k \in Keys |-> keyVersions[k] \ D]
    BY <2>1, <1>3, <1>5
  <2>3. tail' = [k \in Keys |->
                   IF keyVersions[k] \cap D = {} THEN tail[k]
                   ELSE IF keyVersions[k] \subseteq D THEN NoTail
                   ELSE object[k][Latest(keyVersions[k] \cap D)]]
    BY <2>1, <1>3, <1>5
  <2>4. QED  BY <2>1, <2>2, <2>3, <1>3, <1>5 DEF D
<1>6. CASE D # {} /\ versions' = {}
  <2>1. /\ versions' = versions \ D /\ minTx' = cur
        /\ keyVersions' = [k \in Keys |-> {}]
        /\ tail' = [k \in Keys |-> NoTail]
    BY <1>4, <1>6 DEF Cleanup
  <2>2. cur \in D /\ cur <= m /\ m \in Version
    BY <2>1, <1>1, <1>3, <1>6
  <2>3. \A k \in Keys : keyVersions[k] \subseteq D
    BY <2>1, <1>3, <1>6
  <2>4. keyVersions' = [k \in Keys |-> keyVersions[k] \ D]
    BY <2>1, <2>3
  <2>5. tail' = [k \in Keys |->
                   IF keyVersions[k] \cap D = {} THEN tail[k]
                   ELSE IF keyVersions[k] \subseteq D THEN NoTail
                   ELSE object[k][Latest(keyVersions[k] \cap D)]]
    <3>1. \A k \in Keys : keyVersions[k] \cap D = {} => tail[k] = NoTail
      BY <2>3, <1>3
    <3>2. QED  BY <2>1, <2>3, <3>1
  <2>6. cur <= cur
    BY <1>2, <1>3
  <2>7. QED  BY <2>1, <2>2, <2>4, <2>5, <2>6, <1>3 DEF D
<1>7. CASE D # {} /\ versions' # {}
  <2>1. /\ versions' = versions \ D /\ minTx' = Latest(D)
        /\ keyVersions' = [k \in Keys |-> keyVersions[k] \ D]
        /\ tail' = [k \in Keys |->
                       IF keyVersions[k] \cap D = {} THEN tail[k]
                       ELSE IF keyVersions[k] \subseteq D THEN NoTail
                       ELSE object[k][Latest(keyVersions[k] \cap D)]]
    BY <1>4, <1>7 DEF Cleanup
  <2>2. Latest(D) \in D
    BY <1>1, <1>7, LatestExists
  <2>3. QED  BY <2>1, <2>2, <1>1, <1>3, <1>7 DEF D
<1>8. QED  BY <1>5, <1>6, <1>7

(* Cleaning up below every open view keeps what the views read. *)
LEMMA ReleaseKeeps ==
  ASSUME IInv, NEW v \in Views, Release(v)
  PROVE  /\ IInv'
         /\ \A u \in Views, k \in Keys : u # v /\ mode[u] # "closed" =>
               tid'[u] = tid[u] /\ Lookup(k, tid[u])'.json = Lookup(k, tid[u]).json
<1> DEFINE m == MinReffedWithout(tid[v])
           D == Droppable(m)
<1>1. /\ UNCHANGED <<kv, cur, cache, parsing>>
      /\ mode' = [mode EXCEPT ![v] = "closed"]
      /\ tid' = [tid EXCEPT ![v] = 0]
      /\ writes' = [writes EXCEPT ![v] = [k \in Keys |-> NotWritten]]
      /\ ~Busy(v)
      /\ Cleanup(D)
  BY DEF Release
<1>2. /\ RefsCounted' /\ counts' \in [Version -> Nat]
      /\ minReffed' = m /\ m \in Version \cup {None}
      /\ \A u \in Views : u # v /\ mode[u] # "closed" => m \in Version /\ m <= tid[u]
  BY ReleaseCounts
<1> HIDE DEF m
<1>3. /\ versions' = versions \ D
      /\ keyVersions' = [k \in Keys |-> keyVersions[k] \ D]
      /\ tail' = [k \in Keys |->
                    IF keyVersions[k] \cap D = {} THEN tail[k]
                    ELSE IF keyVersions[k] \subseteq D THEN NoTail
                    ELSE object[k][Latest(keyVersions[k] \cap D)]]
      /\ minTx' \in Version /\ minTx' <= cur
      /\ minTx' = minTx \/ (m \in Version /\ minTx' <= m)
  BY <1>1, <1>2, CleanupUniform
<1>4. object' = [k \in Keys |-> [n \in Version |-> IF n \in D THEN Blank ELSE object[k][n]]]
  BY <1>1 DEF Cleanup
<1>5. /\ D \subseteq versions /\ D \subseteq Version
      /\ \A n \in D : m \in Version /\ n <= m
      /\ \A n \in versions \ D : m \in Version => n > m
  <2>1. Version \subseteq Int /\ versions \subseteq Version /\ None \notin Version
    BY DatabaseAssumption DEF Version, IInv, TypeOK
  <2>2. D = IF m = None THEN {} ELSE {n \in versions : n <= m}
    BY DEF Droppable
  <2> HIDE DEF D
  <2>3. /\ D \subseteq versions
        /\ \A n \in D : m \in Version /\ n <= m
        /\ m \in Version => \A n \in versions \ D : ~(n <= m)
    BY <1>2, <2>1, <2>2
  <2>4. m \in Version => \A n \in versions \ D : n \in Int /\ m \in Int /\ ~(n <= m)
    BY <2>1, <2>3
  <2>5. QED  BY <2>1, <2>3, <2>4
<1> HIDE DEF D
<1>6. /\ Version \subseteq Int /\ 0 \in Version /\ cur \in Version /\ 0 <= cur
      /\ \A k \in Keys : keyVersions[k] \subseteq versions /\ keyVersions[k] \subseteq Version
      /\ \A u \in Views : tid[u] \in Version
  BY DatabaseAssumption DEF Version, IInv, TypeOK, VersionsShape
<1>7. /\ Blank \in Pairs /\ Coherent(Blank) /\ NoTail \notin Pairs
      /\ \A k \in Keys, n \in Version : object[k][n] \in Pairs /\ Coherent(object[k][n])
  BY DatabaseAssumption DEF Blank, Pairs, Coherent, Stored, IInv, TypeOK, CachesCoherent
(* The latest version of a key that is dropped is below those that are kept. *)
<1>8. \A k \in Keys : ~(keyVersions[k] \subseteq D) =>
         /\ Latest(keyVersions[k] \ D) = Latest(keyVersions[k])
         /\ Latest(keyVersions[k]) \in Version \ D
  <2> SUFFICES ASSUME NEW k \in Keys, ~(keyVersions[k] \subseteq D)
               PROVE  /\ Latest(keyVersions[k] \ D) = Latest(keyVersions[k])
                      /\ Latest(keyVersions[k]) \in Version \ D
    OBVIOUS
  <2> DEFINE K == keyVersions[k] \ D
             n == Latest(K)
  <2>1. K \subseteq Version /\ K # {} /\ K \subseteq versions \ D
    BY <1>6
  <2>2. n \in K /\ \A i \in K : i <= n
    <3> HIDE DEF K
    <3> QED  BY <2>1, LatestExists
  <2>3. \A i \in keyVersions[k] : i <= n
    <3> SUFFICES ASSUME NEW i \in keyVersions[k], i \in D
                 PROVE  i <= n
      BY <2>2
    <3>1. m \in Version /\ i <= m /\ n > m
      BY <1>5, <2>1, <2>2
    <3>2. i \in Int /\ m \in Int /\ n \in Int
      BY <1>6, <2>1, <2>2, <3>1
    <3> HIDE DEF n
    <3>3. QED  BY <3>1, <3>2
  <2>4. Latest(keyVersions[k]) = n
    BY <1>6, <2>2, <2>3, LatestUnique
  <2>5. QED  BY <2>1, <2>2, <2>4
<1>9. \A k \in Keys : keyVersions[k] \cap D # {} => Latest(keyVersions[k] \cap D) \in Version
  <2> SUFFICES ASSUME NEW k \in Keys, keyVersions[k] \cap D # {}
               PROVE  Latest(keyVersions[k] \cap D) \in Version
    OBVIOUS
  <2>1. keyVersions[k] \cap D \subseteq Version
    BY <1>5
  <2>2. Latest(keyVersions[k] \cap D) \in keyVersions[k] \cap D
    BY <2>1, LatestExists
  <2>3. QED  BY <2>1, <2>2
<1>10. TypeOK'
  <2>1. keyVersions' \in [Keys -> SUBSET Version] /\ versions' \subseteq Version
    BY <1>3, <1>6 DEF IInv, TypeOK
  <2>2. tail' \in [Keys -> Pairs \cup {NoTail}]
    BY <1>3, <1>7, <1>9 DEF IInv, TypeOK
  <2>3. object' \in [Keys -> [Version -> Pairs]]
    BY <1>4, <1>7
  <2>4. /\ mode' \in [Views -> {"closed", "view", "transaction", "leaving"}]
        /\ tid' \in [Views -> Version]
        /\ writes' \in [Views -> [Keys -> Stored \cup {NotWritten}]]
    BY <1>1, <1>6 DEF IInv, TypeOK
  <2>5. QED  BY <1>1, <1>2, <1>3, <2>1, <2>2, <2>3, <2>4 DEF IInv, TypeOK
<1>11. VersionsShape'
  <2>1. versions' # {} => cur \in versions'
    <3> SUFFICES ASSUME NEW n \in versions \ D
                 PROVE  cur \in versions \ D
      BY <1>3
    <3>1. cur \in versions /\ n <= cur
      BY DEF IInv, VersionsShape
    <3>2. cur \in D => m \in Version /\ cur <= m /\ n > m
      BY <1>5
    <3>3. n \in Int /\ cur \in Int /\ (m \in Version => m \in Int)
      BY <1>6 DEF IInv, TypeOK
    <3>4. QED  BY <3>1, <3>2, <3>3
  <2>2. \A k \in Keys : keyVersions'[k] \subseteq versions'
    BY <1>3, <1>6
  <2>3. \A n \in versions' : n <= cur
    BY <1>3 DEF IInv, VersionsShape
  <2>4. QED  BY <1>1, <1>3, <2>1, <2>2, <2>3 DEF VersionsShape
<1>12. NewestIsStored'
  <2> SUFFICES ASSUME NEW k \in Keys
               PROVE  /\ keyVersions'[k] = {} <=> tail'[k] = NoTail
                      /\ keyVersions'[k] # {} => object'[k][Latest(keyVersions'[k])].json = kv'[k]
    BY DEF NewestIsStored
  <2>1. /\ keyVersions[k] = {} <=> tail[k] = NoTail
        /\ keyVersions[k] # {} => object[k][Latest(keyVersions[k])].json = kv[k]
    BY DEF IInv, NewestIsStored
  <2>2. keyVersions'[k] = {} <=> tail'[k] = NoTail
    BY <2>1, <1>3, <1>7, <1>9
  <2>3. CASE keyVersions'[k] # {}
    <3>1. ~(keyVersions[k] \subseteq D) /\ keyVersions'[k] = keyVersions[k] \ D
      BY <2>3, <1>3
    <3>2. /\ Latest(keyVersions'[k]) = Latest(keyVersions[k])
          /\ Latest(keyVersions[k]) \in Version \ D
      BY <3>1, <1>8
    <3>3. object'[k][Latest(keyVersions[k])] = object[k][Latest(keyVersions[k])]
      BY <3>2, <1>4
    <3>4. QED  BY <2>1, <2>2, <3>1, <3>2, <3>3, <1>1
  <2>4. QED  BY <2>2, <2>3
<1>13. CachesCoherent'
  <2> SUFFICES ASSUME NEW k \in Keys
               PROVE  /\ Coherent(Newest(k)')
                      /\ tail'[k] # NoTail => Coherent(tail'[k])
                      /\ \A n \in Version : Coherent(object'[k][n])
    BY DEF CachesCoherent
  <2>1. Coherent(Newest(k)') /\ (tail[k] # NoTail => Coherent(tail[k]))
    BY <1>1 DEF IInv, CachesCoherent, Newest
  <2>2. tail'[k] # NoTail => Coherent(tail'[k])
    BY <2>1, <1>3, <1>7, <1>9
  <2>3. \A n \in Version : Coherent(object'[k][n])
    BY <1>4, <1>7
  <2>4. QED  BY <2>1, <2>2, <2>3
<1>14. \A k \in Keys, t \in Version : (m \in Version => m <= t) =>
          Lookup(k, t)'.json = Lookup(k, t).json
  <2> SUFFICES ASSUME NEW k \in Keys, NEW t \in Version, m \in Version => m <= t
               PROVE  Lookup(k, t)'.json = Lookup(k, t).json
    OBVIOUS
  <2> DEFINE K == keyVersions[k]
             U == VersionsUpTo(k, t)
             UU == {n \in K \ D : n <= t}
  <2>1. /\ VersionsUpTo(k, t)' = UU /\ keyVersions'[k] = K \ D
        /\ U \subseteq K /\ UU \subseteq U /\ K \subseteq Version
    BY <1>3, <1>6 DEF VersionsUpTo
  <2>2. \A n \in K \cap D : n <= t
    <3>1. \A n \in K \cap D : n \in Int /\ m \in Version /\ m \in Int /\ n <= m
      BY <1>5, <1>6
    <3>2. t \in Int
      BY <1>6
    <3>3. QED  BY <3>1, <3>2
  <2>3. U = UU \cup (K \cap D)
    BY <2>2 DEF VersionsUpTo
  <2>4. K = {} <=> tail[k] = NoTail
    BY DEF IInv, NewestIsStored
  <2>5. CASE K \cap D = {}
    <3>1. UU = U /\ keyVersions'[k] = K /\ tail'[k] = tail[k] /\ Newest(k)' = Newest(k)
      BY <2>1, <2>3, <2>5, <1>1, <1>3 DEF Newest
    <3>2. U # {} => object'[k][Latest(U)] = object[k][Latest(U)]
      <4> SUFFICES ASSUME U # {}
                   PROVE  object'[k][Latest(U)] = object[k][Latest(U)]
        OBVIOUS
      <4>1. U \subseteq Version
        BY <2>1
      <4> HIDE DEF U
      <4>2. Latest(U) \in U
        BY <4>1, LatestExists
      <4>3. Latest(U) \notin D /\ Latest(U) \in Version
        BY <2>1, <2>5, <4>1, <4>2
      <4>4. QED  BY <4>3, <1>4
    <3>3. QED  BY <2>1, <2>4, <3>1, <3>2 DEF Lookup
  <2>6. CASE K \cap D # {} /\ K \subseteq D
    <3>1. U = K /\ K # {} /\ keyVersions'[k] = {} /\ tail'[k] = NoTail
      BY <2>1, <2>3, <2>6, <1>3
    <3>2. Lookup(k, t) = object[k][Latest(K)]
      BY <3>1 DEF Lookup
    <3>3. Lookup(k, t)' = Newest(k)'
      BY <3>1 DEF Lookup
    <3>4. Newest(k)'.json = kv[k]
      BY <1>1 DEF Newest
    <3>5. object[k][Latest(K)].json = kv[k]
      BY <3>1 DEF IInv, NewestIsStored
    <3>6. QED  BY <3>2, <3>3, <3>4, <3>5
  <2>7. CASE K \cap D # {} /\ ~(K \subseteq D)
    <3>1. keyVersions'[k] # {} /\ tail'[k] = object[k][Latest(K \cap D)] /\ K # {} /\ U # {}
      BY <2>1, <2>3, <2>7, <1>3
    <3>2. Lookup(k, t) = object[k][Latest(U)]
      BY <3>1 DEF Lookup
    <3>3. CASE UU = {}
      <4>1. U = K \cap D
        BY <2>3, <3>3
      <4>2. Lookup(k, t)' = tail'[k]
        BY <2>1, <3>1, <3>3 DEF Lookup
      <4>3. QED  BY <3>1, <3>2, <4>1, <4>2
    <3>4. CASE UU # {}
      <4> DEFINE n == Latest(UU)
      <4>1. UU \subseteq Version /\ U \subseteq Version
        BY <2>1
      <4>2. n \in UU /\ \A i \in UU : i <= n
        <5> HIDE DEF UU
        <5> QED  BY <3>4, <4>1, LatestExists
      <4>3. \A i \in K \cap D : i <= n
        <5>1. \A i \in K \cap D : i \in Int /\ m \in Version /\ m \in Int /\ i <= m
          BY <1>5, <1>6
        <5>2. m \in Version => n > m
          BY <4>2, <1>5, <1>6
        <5>3. n \in Int
          BY <4>1, <4>2, <1>6
        <5> HIDE DEF n
        <5>4. QED  BY <5>1, <5>2, <5>3
      <4>4. n \in U /\ \A i \in U : i <= n
        BY <2>3, <4>2, <4>3
      <4>5. Latest(U) = n
        <5> HIDE DEF U, n
        <5> QED  BY <4>1, <4>4, LatestUnique
      <4>6. Lookup(k, t)' = object'[k][n]
        BY <2>1, <3>1, <3>4 DEF Lookup
      <4>7. n \notin D /\ n \in Version
        BY <4>1, <4>2
      <4>8. object'[k][n] = object[k][n]
        <5> HIDE DEF n
        <5> QED  BY <4>7, <1>4
      <4>9. QED  BY <3>2, <4>5, <4>6, <4>8
    <3>5. QED  BY <3>3, <3>4
  <2>8. QED  BY <2>5, <2>6, <2>7
<1>15. \A u \in Views, k \in Keys : u # v /\ mode[u] # "closed" =>
          tid'[u] = tid[u] /\ Lookup(k, tid[u])'.json = Lookup(k, tid[u]).json
  <2> SUFFICES ASSUME NEW u \in Views, NEW k \in Keys, u # v, mode[u] # "closed"
               PROVE  tid'[u] = tid[u] /\ Lookup(k, tid[u])'.json = Lookup(k, tid[u]).json
    OBVIOUS
  <2>1. tid'[u] = tid[u] /\ tid[u] \in Version /\ (m \in Version => m <= tid[u])
    BY <1>1, <1>2 DEF IInv, TypeOK
  <2> DEFINE t == tid[u]
  <2>2. \A s \in Version : s = t /\ (m \in Version => m <= s) =>
           Lookup(k, s)'.json = Lookup(k, s).json
    BY <1>14
  <2>3. \A s \in Version : s = tid'[u] => Lookup(k, s)' = Lookup(k, tid[u])'
    BY DEF Lookup, VersionsUpTo, Newest
  <2>4. QED  BY <2>1, <2>2, <2>3
<1>16. ViewsKept'
  <2> SUFFICES ASSUME NEW u \in Views
               PROVE  /\ tid'[u] <= cur
                      /\ mode'[u] # "closed" => minTx' <= tid'[u]
                      /\ Busy(u)' => /\ IsOpen(u)'
                                     /\ parsing[u].val = Lookup(parsing[u].key, tid[u])'.json
    BY <1>1 DEF ViewsKept
  <2>1. CASE u = v
    BY <2>1, <1>1, <1>6 DEF IInv, TypeOK, Busy
  <2>2. CASE u # v
    <3>1. mode'[u] = mode[u] /\ tid'[u] = tid[u] /\ Busy(u)' = Busy(u)
      BY <2>2, <1>1 DEF IInv, TypeOK, Busy
    <3>2. /\ tid[u] <= cur /\ (mode[u] # "closed" => minTx <= tid[u])
          /\ Busy(u) => IsOpen(u) /\ parsing[u].val = Lookup(parsing[u].key, tid[u]).json
      BY DEF IInv, ViewsKept
    <3>3. Busy(u) => parsing[u].key \in Keys /\ mode[u] # "closed"
      BY <3>2 DEF IInv, TypeOK, Busy, Parses, IsOpen
    <3>4. mode[u] # "closed" => minTx' <= tid[u]
      <4> SUFFICES ASSUME mode[u] # "closed", minTx' # minTx
                   PROVE  minTx' <= tid[u]
        BY <3>2
      <4>1. m \in Version /\ minTx' <= m /\ m <= tid[u]
        BY <2>2, <1>2, <1>3
      <4>2. minTx' \in Int /\ m \in Int /\ tid[u] \in Int
        BY <4>1, <1>3, <1>6
      <4>3. QED  BY <4>1, <4>2
    <3>5. Busy(u) => Lookup(parsing[u].key, tid[u]).json = Lookup(parsing[u].key, tid[u])'.json
      <4>1. parsing'[u] = parsing[u]
        BY <1>1
      <4>2. \A k \in Keys : Busy(u) => Lookup(k, tid[u])'.json = Lookup(k, tid[u]).json
        BY <2>2, <3>3, <1>15
      <4>3. QED  BY <3>3, <4>1, <4>2
    <3>6. QED  BY <3>1, <3>2, <3>3, <3>4, <3>5 DEF IsOpen
  <2>3. QED  BY <2>1, <2>2
<1>17. QED
  BY <1>2, <1>10, <1>11, <1>12, <1>13, <1>15, <1>16 DEF IInv

(* Every step keeps the invariant. *)
THEOREM StepKeeps == IInv /\ [Next]_vars => IInv'
<1> SUFFICES ASSUME IInv, [Next]_vars
             PROVE  IInv'
  OBVIOUS
<1>1. CASE Reading
  BY <1>1, StartParsingKeeps, EndParsingKeeps DEF Reading
<1>2. CASE Opening
  BY <1>2, OpenKeeps DEF Opening
<1>3. CASE Writing
  BY <1>3, WriteKeeps DEF Writing
<1>4. CASE Leaving
  BY <1>4, CommitKeeps, ConflictKeeps, ReleaseKeeps DEF Leaving
<1>5. CASE UNCHANGED vars
  <2>1. /\ UNCHANGED <<kv, cur, cache, minTx, versions, keyVersions, object, tail, counts,
                       minReffed, mode, tid, writes, parsing>>
    BY <1>5 DEF vars, versionVars, refVars, viewVars
  <2>2. \A j, s : Lookup(j, s)' = Lookup(j, s)
    BY <2>1 DEF Lookup, VersionsUpTo, Newest
  <2>3. TypeOK' /\ VersionsShape' /\ NewestIsStored' /\ CachesCoherent' /\ RefsCounted'
    BY <2>1 DEF IInv, TypeOK, VersionsShape, NewestIsStored, CachesCoherent, Newest,
       RefsCounted, Refs, ViewsAt
  <2>4. ViewsKept'
    BY <2>1, <2>2 DEF IInv, ViewsKept, Busy, IsOpen
  <2>5. QED  BY <2>3, <2>4 DEF IInv
<1>6. CASE ClearCache
  BY <1>6, ClearCacheKeeps
<1>7. QED  BY <1>1, <1>2, <1>3, <1>4, <1>5, <1>6 DEF Next

(* The dictionaries of the Database, its counters and the open views keep  *)
(* their types.                                                            *)
THEOREM DatabaseTypes == Spec => []TypeOK
<1>1. IInv => TypeOK
  BY DEF IInv
<1>2. QED  BY <1>1, InitHolds, StepKeeps, PTL DEF Spec

(* _version_number_counts and _min_reffed_version_number are right: no     *)
(* view that was not released is left out.                                 *)
THEOREM RefsStayCounted == Spec => []RefsCounted
<1>1. IInv => RefsCounted
  BY DEF IInv
<1>2. QED  BY <1>1, InitHolds, StepKeeps, PTL DEF Spec

(* No lookup of an open view fails the assertion of                        *)
(* _get_versioned_object_data or misses in _tail_values.                   *)
THEOREM LookupsStayDefined == Spec => []LookupsDefined
<1>1. IInv => LookupsDefined
  BY DEF IInv, LookupsDefined, ViewsKept, NewestIsStored, IsOpen
<1>2. QED  BY <1>1, InitHolds, StepKeeps, PTL DEF Spec

-----------------------------------------------------------------------------
(* What an open view shows is the function of its JSON lookups. *)
ViewsShowJson == \A v \in Views, k \in Keys : Value(k, tid[v]) = Lookup(k, tid[v]).json

(* The parsed objects that views return agree with the JSON values. *)
LEMMA ShowsJson == IInv => ViewsShowJson
<1> SUFFICES ASSUME IInv, NEW v \in Views, NEW k \in Keys
             PROVE  Value(k, tid[v]) = Lookup(k, tid[v]).json
  BY DEF ViewsShowJson
<1>1. tid[v] \in Version
  BY DEF IInv, TypeOK
<1>2. QED  BY <1>1, ValueIsJson

(* So the refinement mapping can be read off the JSON values. *)
LEMMA SeenIsJson ==
  ASSUME IInv, NEW v \in Views, IsOpen(v)
  PROVE  OpenView(v) = [mode |-> mode[v], base |-> tid[v],
                        seen |-> [k \in Keys |-> Lookup(k, tid[v]).json],
                        writes |-> writes[v]]
BY ShowsJson DEF ViewsShowJson, OpenView

(* A view whose fields and lookups are the same is the same. *)
LEMMA SameView ==
  ASSUME IInv, IInv', NEW v \in Views, mode'[v] = mode[v],
         IsOpen(v) => /\ tid'[v] = tid[v] /\ writes'[v] = writes[v]
                      /\ \A k \in Keys : Lookup(k, tid[v])'.json = Lookup(k, tid[v]).json
  PROVE  OpenView(v)' = OpenView(v)
<1>1. CASE ~IsOpen(v)
  BY <1>1 DEF OpenView, IsOpen
<1>2. CASE IsOpen(v)
  <2>1. IsOpen(v)'
    BY <1>2 DEF IsOpen
  <2>2. OpenView(v) = [mode |-> mode[v], base |-> tid[v],
                       seen |-> [k \in Keys |-> Lookup(k, tid[v]).json],
                       writes |-> writes[v]]
    BY <1>2, SeenIsJson
  <2>3. OpenView(v)' = [mode |-> mode[v], base |-> tid[v],
                        seen |-> [k \in Keys |-> Lookup(k, tid[v])'.json],
                        writes |-> writes[v]]
    <3>1. IInv' => ViewsShowJson'
      BY ShowsJson, PTL
    <3>2. \A k \in Keys : Value(k, tid[v])' = Lookup(k, tid[v])'.json
      BY <3>1 DEF ViewsShowJson
    <3>3. QED  BY <1>2, <2>1, <3>2 DEF OpenView
  <2>4. QED  BY <1>2, <2>2, <2>3
<1>3. QED  BY <1>1, <1>2

(* Each step is a step of SnapshotStore, or does nothing there. *)
LEMMA StepRefines ==
  ASSUME IInv, IInv', [Next]_vars
  PROVE  [SS!Next]_(SS!storeVars)
<1> DEFINE Closed == [mode |-> "closed"]
<1>0. /\ \A v \in Views : mode[v] \in {"closed", "view", "transaction", "leaving"}
      /\ mode \in [Views -> {"closed", "view", "transaction", "leaving"}]
      /\ tid \in [Views -> Version]
      /\ writes \in [Views -> [Keys -> Stored \cup {NotWritten}]]
      /\ \A v \in Views : Busy(v) => IsOpen(v)
  BY DEF IInv, TypeOK, ViewsKept
<1>1. ASSUME NEW v \in Views, NEW k \in Keys, StartParsing(v, k)
      PROVE  UNCHANGED SS!storeVars
  <2>1. UNCHANGED <<kv, cur, cache, minTx, versions, keyVersions, object, tail, mode, tid, writes>>
    BY <1>1 DEF StartParsing, versionVars
  <2>2. \A u \in Views : OpenView(u)' = OpenView(u)
    BY <2>1 DEF OpenView, IsOpen, Value, Lookup, VersionsUpTo, Newest
  <2>3. QED  BY <2>1, <2>2 DEF SS!storeVars
<1>2. ASSUME NEW v \in Views, EndParsing(v)
      PROVE  UNCHANGED SS!storeVars
  <2>1. UNCHANGED <<kv, cur, mode, tid, writes>>
    BY <1>2 DEF EndParsing
  <2>2. \A u \in Views, k \in Keys : Lookup(k, tid[u])'.json = Lookup(k, tid[u]).json
    BY <1>2, EndParsingKeeps
  <2>3. \A u \in Views : OpenView(u)' = OpenView(u)
    BY <2>1, <2>2, SameView
  <2>4. QED  BY <2>1, <2>3 DEF SS!storeVars
<1>3. ASSUME NEW v \in Views, NEW kind \in {"view", "transaction"}, Open(v, kind)
      PROVE  SS!Open(v, kind)
  <2>1. /\ UNCHANGED <<kv, cur, cache, minTx, versions, keyVersions, object, tail>>
        /\ writes' = [writes EXCEPT ![v] = [k \in Keys |-> NotWritten]]
        /\ mode[v] = "closed"
        /\ mode' = [mode EXCEPT ![v] = kind]
        /\ tid' = [tid EXCEPT ![v] = cur]
    BY <1>3 DEF Open, versionVars
  <2>2. \A u \in Views : u # v => OpenView(u)' = OpenView(u)
    BY <1>0, <2>1 DEF OpenView, IsOpen, Value, Lookup, VersionsUpTo, Newest
  <2>3. OpenView(v) = Closed
    BY <2>1 DEF OpenView, IsOpen
  <2>4. \A k \in Keys : Value(k, tid[v])' = kv[k]
    <3>1. \A k \in Keys : Lookup(k, cur).json = kv[k] /\ Value(k, cur) = kv[k]
      BY CurrentIsStored, ValueIsJson DEF IInv, TypeOK
    <3>2. \A k \in Keys : Value(k, tid[v])' = Value(k, cur)
      BY <1>0, <2>1 DEF Value, Lookup, VersionsUpTo, Newest
    <3>3. QED  BY <3>1, <3>2
  <2>5. OpenView(v)' = [mode |-> kind, base |-> cur, seen |-> kv,
                        writes |-> [k \in Keys |-> NotWritten]]
    <3>1. kv = [k \in Keys |-> kv[k]]
      BY DEF IInv, TypeOK
    <3>2. IsOpen(v)'
      BY <1>0, <2>1 DEF IsOpen
    <3>3. mode'[v] = kind /\ tid'[v] = cur /\ writes'[v] = [k \in Keys |-> NotWritten]
      BY <1>0, <2>1
    <3>4. [k \in Keys |-> Value(k, tid[v])'] = kv
      BY <2>4, <3>1
    <3>5. QED  BY <3>2, <3>3, <3>4 DEF OpenView
  <2>6. QED  BY <2>1, <2>2, <2>3, <2>5 DEF SS!Open, SS!Closed, SS!Nothing
<1>4. ASSUME NEW v \in Views, NEW k \in Keys, NEW x \in Stored, Write(v, k, x)
      PROVE  SS!Write(v, k, x)
  <2>1. /\ UNCHANGED <<kv, cur, cache, minTx, versions, keyVersions, object, tail, mode, tid>>
        /\ writes' = [writes EXCEPT ![v][k] = x]
        /\ mode[v] = "transaction"
    BY <1>4 DEF Write, versionVars
  <2>2. \A u \in Views : u # v => OpenView(u)' = OpenView(u)
    BY <1>0, <2>1 DEF OpenView, IsOpen, Value, Lookup, VersionsUpTo, Newest
  <2> DEFINE Seen == [j \in Keys |-> Value(j, tid[v])]
  <2>3. OpenView(v) = [mode |-> mode[v], base |-> tid[v], seen |-> Seen, writes |-> writes[v]]
    BY <2>1 DEF OpenView, IsOpen
  <2>4. OpenView(v)' = [mode |-> mode[v], base |-> tid[v], seen |-> Seen,
                        writes |-> [writes[v] EXCEPT ![k] = x]]
    <3>1. writes'[v] = [writes[v] EXCEPT ![k] = x]
      BY <1>0, <2>1
    <3>2. \A j \in Keys : Value(j, tid[v])' = Value(j, tid[v])
      BY <2>1 DEF Value, Lookup, VersionsUpTo, Newest
    <3>3. QED  BY <2>1, <3>1, <3>2 DEF OpenView, IsOpen
  <2> HIDE DEF Seen
  <2>5. OpenView(v)' = [OpenView(v) EXCEPT !.writes = [OpenView(v).writes EXCEPT ![k] = x]]
    BY <2>3, <2>4
  <2>6. OpenView(v).mode = "transaction"
    BY <2>1, <2>3
  <2>7. QED  BY <2>1, <2>2, <2>5, <2>6 DEF SS!Write
<1>5. ASSUME NEW v \in Views, Conflict(v)
      PROVE  SS!Close(v)
  <2>1. /\ UNCHANGED <<kv, cur, cache, minTx, versions, keyVersions, object, tail>>
        /\ mode' = [mode EXCEPT ![v] = "closed"]
        /\ writes' = [writes EXCEPT ![v] = [k \in Keys |-> NotWritten]]
        /\ tid' = [tid EXCEPT ![v] = 0]
    BY <1>5 DEF Conflict, versionVars
  <2>2. \A u \in Views : u # v => OpenView(u)' = OpenView(u)
    BY <1>0, <2>1 DEF OpenView, IsOpen, Value, Lookup, VersionsUpTo, Newest
  <2>3. OpenView(v)' = Closed
    BY <1>0, <2>1 DEF OpenView, IsOpen
  <2>4. QED  BY <2>1, <2>2, <2>3 DEF SS!Close, SS!Closed
<1>6. ASSUME NEW v \in Views, Release(v)
      PROVE  SS!Close(v)
  <2>1. /\ UNCHANGED <<kv, cur>>
        /\ mode' = [mode EXCEPT ![v] = "closed"]
        /\ writes' = [writes EXCEPT ![v] = [k \in Keys |-> NotWritten]]
        /\ tid' = [tid EXCEPT ![v] = 0]
    BY <1>6 DEF Release
  <2>2. \A u \in Views, k \in Keys : u # v /\ mode[u] # "closed" =>
           tid'[u] = tid[u] /\ Lookup(k, tid[u])'.json = Lookup(k, tid[u]).json
    BY <1>6, ReleaseKeeps
  <2>3. \A u \in Views : u # v => OpenView(u)' = OpenView(u)
    <3> SUFFICES ASSUME NEW u \in Views, u # v
                 PROVE  OpenView(u)' = OpenView(u)
      OBVIOUS
    <3>1. mode'[u] = mode[u] /\ writes'[u] = writes[u] /\ tid'[u] = tid[u]
      BY <1>0, <2>1
    <3>2. IsOpen(u) => mode[u] # "closed"
      BY DEF IsOpen
    <3>3. QED  BY <2>2, <3>1, <3>2, SameView
  <2>4. OpenView(v)' = Closed
    BY <1>0, <2>1 DEF OpenView, IsOpen
  <2>5. QED  BY <2>1, <2>3, <2>4 DEF SS!Close, SS!Closed
<1>7. ASSUME NEW v \in Views, Commit(v)
      PROVE  SS!Commit(v)
  <2>1. /\ UNCHANGED <<tid, writes>>
        /\ mode[v] = "transaction" /\ mode' = [mode EXCEPT ![v] = "leaving"]
        /\ cur' = cur + 1
        /\ tid[v] = cur
    BY <1>7 DEF Commit, MayCommit
  <2>2. kv' = [k \in Keys |-> IF writes[v][k] = NotWritten THEN kv[k] ELSE writes[v][k]]
    BY <1>7 DEF Commit, Written
  <2>3. \A u \in Views, k \in Keys : Lookup(k, tid[u])'.json = Lookup(k, tid[u]).json
    BY <1>7, CommitKeeps
  <2>4. \A u \in Views : u # v => OpenView(u)' = OpenView(u)
    <3>1. \A u \in Views : u # v => mode'[u] = mode[u]
      BY <1>0, <2>1
    <3>2. QED  BY <2>1, <2>3, <3>1, SameView
  <2>5. OpenView(v)' = Closed
    BY <1>0, <2>1 DEF OpenView, IsOpen
  <2>6. /\ OpenView(v).mode = "transaction" /\ OpenView(v).base = cur
        /\ OpenView(v).writes = writes[v]
    BY <2>1 DEF OpenView, IsOpen
  <2>7. QED  BY <2>1, <2>2, <2>4, <2>5, <2>6 DEF SS!Commit, SS!Closed
<1>8. CASE UNCHANGED vars
  <2>1. UNCHANGED <<kv, cur, cache, minTx, versions, keyVersions, object, tail, mode, tid, writes>>
    BY <1>8 DEF vars, versionVars, viewVars
  <2>2. \A u \in Views : OpenView(u)' = OpenView(u)
    BY <2>1 DEF OpenView, IsOpen, Value, Lookup, VersionsUpTo, Newest
  <2>3. QED  BY <2>1, <2>2 DEF SS!storeVars
<1>9. CASE Reading
  BY <1>9, <1>1, <1>2 DEF Reading
<1>10. CASE Opening
  BY <1>10, <1>3 DEF Opening, SS!Next
<1>11. CASE Writing
  BY <1>11, <1>4 DEF Writing, SS!Next, Stored
<1>12. CASE Leaving
  BY <1>12, <1>5, <1>6, <1>7 DEF Leaving, SS!Next
<1>13. CASE ClearCache
  <2>1. UNCHANGED <<kv, cur, mode, tid, writes>>
    BY <1>13 DEF ClearCache, viewVars
  <2>2. \A u \in Views, k \in Keys : Lookup(k, tid[u])'.json = Lookup(k, tid[u]).json
    BY <1>13, ClearCacheKeeps
  <2>3. \A u \in Views : OpenView(u)' = OpenView(u)
    BY <2>1, <2>2, SameView
  <2>4. QED  BY <2>1, <2>3 DEF SS!storeVars
<1>14. QED  BY <1>8, <1>9, <1>10, <1>11, <1>12, <1>13 DEF Next

(* The object database implements SnapshotStore: snapshot reads and atomic *)
(* transactions of which none overwrites what it has not seen.             *)
THEOREM RefinesSnapshotStore == Spec => ImplementsSnapshotStore
<1>1. Init => SS!Init
  <2> SUFFICES ASSUME NEW contents \in [Keys -> Stored], InitOn(contents)
               PROVE  SS!Init
    BY DEF Init
  <2>1. kv \in [Keys -> Vals \cup {None}] /\ cur = 0
    BY DEF InitOn, Stored
  <2>2. \A v \in Views : OpenView(v) = [mode |-> "closed"]
    BY DEF InitOn, OpenView, IsOpen
  <2>3. QED  BY <2>1, <2>2 DEF SS!Init, SS!Contents, SS!Closed
<1>2. IInv /\ IInv' /\ [Next]_vars => [SS!Next]_(SS!storeVars)
  BY StepRefines
<1>3. QED  BY <1>1, <1>2, InitHolds, StepKeeps, PTL DEF Spec, ImplementsSnapshotStore, SS!Spec
=============================================================================
