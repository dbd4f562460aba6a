---------------------------- MODULE ObjectDatabase ----------------------------
(***************************************************************************)
(* core/object_database.py below the level of objects: a Database keeps    *)
(* the newest values in a key-value store and, in memory, what a view that *)
(* was opened before the last commits still has to see.  Each operation of *)
(* the Database holds Database._lock, so it is one step; a thread that     *)
(* uses a view takes several of them and others run in between.            *)
(*                                                                         *)
(* A value stands for its JSON form (what the store holds) and for the     *)
(* object parsed from it; parsing may be late, so a cached pair has both.  *)
(* The sorted lists of version numbers are sets here.                      *)
(***************************************************************************)
EXTENDS Integers, FiniteSets

CONSTANTS
    Views,      \* threads that use a view or a transaction
    Keys,
    Vals,
    MaxTx,      \* bound on the transactions that are committed
    None,       \* no value; deleting a key is writing None
    NotWritten, \* the key is not in DatabaseView._writes
    NotParsed,  \* no parsed object is cached
    NoTail      \* the key is not in _tail_values

ASSUME DatabaseAssumption ==
    /\ MaxTx \in Nat
    /\ IsFiniteSet(Views)
    /\ None \notin Vals \cup Nat
    /\ NotWritten \notin Vals \cup {None}
    /\ NotParsed \notin Vals
    /\ NotParsed \notin [key : Keys, val : Vals]
    /\ NoTail \notin [json : Vals \cup {None}, parsed : Vals \cup {NotParsed}]

VARIABLES
    kv,         \* the key-value store
    cur,        \* _cur_transaction_num
    minTx,      \* _min_transaction_num
    counts,     \* _version_number_counts
    minReffed,  \* _min_reffed_version_number, or None
    versions,   \* _version_numbers
    keyVersions,\* _key_version_numbers
    object,     \* _key_and_version_to_object
    tail,       \* _tail_values
    cache,      \* _current_database_object_cache
    mode,       \* what each thread has open: a view, a transaction, or one it leaves
    tid,        \* DatabaseView._transaction_num
    writes,     \* DatabaseView._writes
    parsing     \* the value a thread is parsing in DatabaseView._get, or NotParsed

viewVars == <<mode, tid, writes, parsing>>
versionVars == <<minTx, versions, keyVersions, object, tail>>
refVars == <<counts, minReffed>>
vars == <<kv, cur, cache, versionVars, refVars, viewVars>>

Version == 0 .. MaxTx
Stored == Vals \cup {None}
Pairs == [json : Stored, parsed : Vals \cup {NotParsed}]
Parses == [key : Keys, val : Vals]
Blank == [json |-> None, parsed |-> NotParsed]

TypeOK ==
    /\ kv \in [Keys -> Stored]
    /\ cur \in Version /\ minTx \in Version
    /\ counts \in [Version -> Nat]
    /\ minReffed \in Version \cup {None}
    /\ versions \subseteq Version
    /\ keyVersions \in [Keys -> SUBSET Version]
    /\ object \in [Keys -> [Version -> Pairs]]
    /\ tail \in [Keys -> Pairs \cup {NoTail}]
    /\ cache \in [Keys -> Vals \cup {NotParsed}]
    /\ mode \in [Views -> {"closed", "view", "transaction", "leaving"}]
    /\ tid \in [Views -> Version]
    /\ writes \in [Views -> [Keys -> Stored \cup {NotWritten}]]
    /\ parsing \in [Views -> Parses \cup {NotParsed}]

(* A Database on a store that has contents; nothing is parsed yet. *)
InitOn(contents) ==
    /\ kv = contents
    /\ cur = 0 /\ minTx = 0
    /\ counts = [n \in Version |-> 0]
    /\ minReffed = None
    /\ versions = {}
    /\ keyVersions = [k \in Keys |-> {}]
    /\ object = [k \in Keys |-> [n \in Version |-> Blank]]
    /\ tail = [k \in Keys |-> NoTail]
    /\ cache = [k \in Keys |-> NotParsed]
    /\ mode = [v \in Views |-> "closed"]
    /\ tid = [v \in Views |-> 0]
    /\ writes = [v \in Views |-> [k \in Keys |-> NotWritten]]
    /\ parsing = [v \in Views |-> NotParsed]

Init == \E contents \in [Keys -> Stored] : InitOn(contents)

-------------------------------------------------------------------------------
(* Reading *)

(* _best_version_for picks the latest of these. *)
VersionsUpTo(k, t) == {n \in keyVersions[k] : n <= t}

Latest(S) == CHOOSE n \in S : \A m \in S : m <= n
Lowest(S) == CHOOSE n \in S : \A m \in S : n <= m

(* What _get_versioned_object_data finds in the store and the cache. *)
Newest(k) == [json |-> kv[k], parsed |-> cache[k]]

(* _get_versioned_object_data *)
Lookup(k, t) ==
    IF keyVersions[k] = {}
    THEN IF tail[k] = NoTail THEN Newest(k) ELSE tail[k]
    ELSE IF VersionsUpTo(k, t) = {} THEN tail[k] ELSE object[k][Latest(VersionsUpTo(k, t))]

(* What a view then returns: the cached object if there is one. *)
Value(k, t) ==
    LET found == Lookup(k, t)
    IN  IF found.json = None \/ found.parsed = NotParsed THEN found.json ELSE found.parsed

IsOpen(v) == mode[v] \in {"view", "transaction"}
Busy(v) == parsing[v] # NotParsed

(* DatabaseView._get of a value that was not parsed yet: this is its       *)
(* second lookup, and since the first, which found no object, another view *)
(* may have cached one.  The lock is given up to parse the value, and taken*)
(* again to remember the result.                                           *)
StartParsing(v, k) ==
    /\ IsOpen(v) /\ ~Busy(v)
    /\ writes[v][k] = NotWritten
    /\ Lookup(k, tid[v]).json # None
    /\ parsing' = [parsing EXCEPT ![v] = [key |-> k, val |-> Lookup(k, tid[v]).json]]
    /\ UNCHANGED <<kv, cur, cache, versionVars, refVars, mode, tid, writes>>

(* _update_versioned_object_data_cache.  Mutant: the object goes into the  *)
(* cache of the newest values whatever version it was read at.             *)
CacheNewest(k, t, x) ==
    /\ cache' = [cache EXCEPT ![k] = x]
    /\ UNCHANGED <<tail, object>>
CacheParsed(k, t, x) ==
    \/ /\ keyVersions[k] = {} /\ tail[k] = NoTail
       /\ cache' = [cache EXCEPT ![k] = x]
       /\ UNCHANGED <<tail, object>>
    \/ /\ VersionsUpTo(k, t) = {} /\ ~(keyVersions[k] = {} /\ tail[k] = NoTail)
       /\ tail' = [tail EXCEPT ![k] = [json |-> tail[k].json, parsed |-> x]]
       /\ UNCHANGED <<cache, object>>
    \/ /\ VersionsUpTo(k, t) # {}
       /\ LET n == Latest(VersionsUpTo(k, t))
          IN  object' = [object EXCEPT ![k][n] = [json |-> object[k][n].json, parsed |-> x]]
       /\ UNCHANGED <<cache, tail>>

EndParsing(v) ==
    /\ Busy(v)
    /\ CacheParsed(parsing[v].key, tid[v], parsing[v].val)
    /\ parsing' = [parsing EXCEPT ![v] = NotParsed]
    /\ UNCHANGED <<kv, cur, minTx, versions, keyVersions, refVars, mode, tid, writes>>

(* Database.clearCache; what the store returns is the same without its own *)
(* cache.                                                                  *)
ClearCache ==
    /\ cache' = [k \in Keys |-> NotParsed]
    /\ UNCHANGED <<kv, cur, versionVars, refVars, viewVars>>

-------------------------------------------------------------------------------
(* Opening and writing *)

(* Database.view and Database.transaction, with _incversion: a new         *)
(* DatabaseView of the current state, with no writes.                      *)
Open(v, kind) ==
    /\ mode[v] = "closed"
    /\ mode' = [mode EXCEPT ![v] = kind]
    /\ tid' = [tid EXCEPT ![v] = cur]
    /\ writes' = [writes EXCEPT ![v] = [k \in Keys |-> NotWritten]]
    /\ counts' = [counts EXCEPT ![cur] = @ + 1]
    /\ minReffed' = IF minReffed = None THEN cur ELSE Lowest({cur, minReffed})
    /\ UNCHANGED <<kv, cur, cache, versionVars, parsing>>

(* DatabaseView._writes[k] = x *)
Write(v, k, x) ==
    /\ mode[v] = "transaction" /\ ~Busy(v)
    /\ writes' = [writes EXCEPT ![v][k] = x]
    /\ UNCHANGED <<kv, cur, cache, versionVars, refVars, mode, tid, parsing>>

Written(v) == {k \in Keys : writes[v][k] # NotWritten}

-------------------------------------------------------------------------------
(* Leaving, as __exit__ does *)

(* _set_versioned_object_data saves what the store has now of the keys     *)
(* that no version in memory has.                                          *)
TailsSaved(v) ==
    [k \in Keys |-> IF k \in Written(v) /\ keyVersions[k] = {} THEN Newest(k) ELSE tail[k]]

(* Nobody committed since it was opened. *)
MayCommit(v) == tid[v] = cur

(* commit, without an exception from the store; the view is released next. *)
Commit(v) ==
    /\ mode[v] = "transaction" /\ ~Busy(v)
    /\ Written(v) # {}
    /\ MayCommit(v)
    /\ cur < MaxTx
    /\ cur' = cur + 1
    /\ tail' = TailsSaved(v)
    /\ kv' = [k \in Keys |-> IF k \in Written(v) THEN writes[v][k] ELSE kv[k]]
    /\ cache' = [k \in Keys |-> IF k \notin Written(v) THEN cache[k]
                                ELSE IF writes[v][k] = None THEN NotParsed
                                ELSE writes[v][k]]
    /\ versions' = versions \cup {cur + 1}
    /\ keyVersions' = [k \in Keys |-> IF k \in Written(v) THEN keyVersions[k] \cup {cur + 1}
                                      ELSE keyVersions[k]]
    /\ object' = [k \in Keys |->
                    IF k \in Written(v)
                    THEN [object[k] EXCEPT ![cur + 1] =
                            [json |-> writes[v][k],
                             parsed |-> IF writes[v][k] = None THEN NotParsed
                                        ELSE writes[v][k]]]
                    ELSE object[k]]
    /\ mode' = [mode EXCEPT ![v] = "leaving"]
    /\ UNCHANGED <<minTx, refVars, tid, writes, parsing>>

(* commit raises RevisionConflictException: __exit__ ends there, and the   *)
(* view is never released.                                                 *)
Conflict(v) ==
    /\ mode[v] = "transaction" /\ ~Busy(v)
    /\ Written(v) # {}
    /\ ~MayCommit(v)
    /\ mode' = [mode EXCEPT ![v] = "closed"]
    /\ writes' = [writes EXCEPT ![v] = [k \in Keys |-> NotWritten]]
    /\ tid' = [tid EXCEPT ![v] = 0]
    /\ UNCHANGED <<kv, cur, cache, versionVars, refVars, parsing>>

(* _decversion.  Mutant: the next lowest number is not looked for. *)
CountsWithout(t) == [counts EXCEPT ![t] = @ - 1]
RefsWithout(t) == {n \in Version : CountsWithout(t)[n] > 0}
MinReffedForgotten(t) == IF t \in RefsWithout(t) \/ t # minReffed THEN minReffed ELSE cur
MinReffedWithout(t) ==
    IF t \in RefsWithout(t) \/ t # minReffed THEN minReffed
    ELSE IF RefsWithout(t) = {} THEN None ELSE Lowest(RefsWithout(t))

(* The versions _cleanup drops when m is the lowest that is referred to:   *)
(* none if there is no m, since None < lowest in Python.  Mutant: one more.*)
DroppableAndNext(m) == IF m = None THEN {} ELSE {n \in versions : n <= m + 1}
Droppable(m) == IF m = None THEN {} ELSE {n \in versions : n <= m}

(* _cleanup.  (Where it drops all versions it leaves the values in         *)
(* _key_and_version_to_object behind; nothing looks them up again.)        *)
Cleanup(dropped) ==
    /\ versions' = versions \ dropped
    /\ object' = [k \in Keys |-> [n \in Version |-> IF n \in dropped THEN Blank ELSE object[k][n]]]
    /\ \/ /\ dropped = {}
          /\ UNCHANGED <<minTx, keyVersions, tail>>
       \/ /\ dropped # {} /\ versions' = {}
          /\ minTx' = cur
          /\ keyVersions' = [k \in Keys |-> {}]
          /\ tail' = [k \in Keys |-> NoTail]
       \/ /\ dropped # {} /\ versions' # {}
          /\ minTx' = Latest(dropped)
          /\ keyVersions' = [k \in Keys |-> keyVersions[k] \ dropped]
          /\ tail' = [k \in Keys |->
                        IF keyVersions[k] \cap dropped = {} THEN tail[k]
                        ELSE IF keyVersions[k] \subseteq dropped THEN NoTail
                        ELSE object[k][Latest(keyVersions[k] \cap dropped)]]

(* _releaseView; a transaction that was not committed is dropped (it wrote *)
(* nothing, or an exception ended it).                                     *)
Release(v) ==
    /\ mode[v] # "closed" /\ ~Busy(v)
    /\ mode' = [mode EXCEPT ![v] = "closed"]
    /\ writes' = [writes EXCEPT ![v] = [k \in Keys |-> NotWritten]]
    /\ counts' = CountsWithout(tid[v])
    /\ minReffed' = MinReffedWithout(tid[v])
    /\ Cleanup(Droppable(MinReffedWithout(tid[v])))
    /\ tid' = [tid EXCEPT ![v] = 0]
    /\ UNCHANGED <<kv, cur, cache, parsing>>

Reading == \E v \in Views : EndParsing(v) \/ \E k \in Keys : StartParsing(v, k)
Opening == \E v \in Views, kind \in {"view", "transaction"} : Open(v, kind)
Leaving == \E v \in Views : Commit(v) \/ Conflict(v) \/ Release(v)
Writing == \E v \in Views, k \in Keys, x \in Stored : Write(v, k, x)
Next == Reading \/ Opening \/ Writing \/ Leaving \/ ClearCache

Spec == Init /\ [][Next]_vars

-------------------------------------------------------------------------------
(* The assertion of _get_versioned_object_data, and that the dictionaries  *)
(* have what it looks up, for every view that may still read.              *)
LookupsDefined ==
    \A v \in Views : IsOpen(v) =>
        /\ minTx <= tid[v]
        /\ \A k \in Keys : keyVersions[k] # {} /\ VersionsUpTo(k, tid[v]) = {} => tail[k] # NoTail

(* Every view that was not released is counted (and so are those that lost *)
(* a conflict), and _min_reffed_version_number is the lowest one counted:  *)
(* _cleanup never drops what somebody may still read.                      *)
ViewsAt(n) == {v \in Views : mode[v] # "closed" /\ tid[v] = n}
Refs == {n \in Version : counts[n] > 0}
RefsCounted ==
    /\ \A n \in Version : Cardinality(ViewsAt(n)) <= counts[n]
    /\ minReffed = IF Refs = {} THEN None ELSE Lowest(Refs)

(* Views see the database as it was when they were opened, through the     *)
(* commits of others, the cleaning up of old versions and the caching of   *)
(* parsed values; transactions are atomic and none overwrites what it has  *)
(* not seen.                                                               *)
OpenView(v) ==
    IF IsOpen(v)
    THEN [mode |-> mode[v], base |-> tid[v],
          seen |-> [k \in Keys |-> Value(k, tid[v])], writes |-> writes[v]]
    ELSE [mode |-> "closed"]

SS == INSTANCE SnapshotStore WITH
        store <- kv, version <- cur, open <- [v \in Views |-> OpenView(v)]

ImplementsSnapshotStore == SS!Spec
===============================================================================
