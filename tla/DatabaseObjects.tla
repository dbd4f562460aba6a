--------------------------- MODULE DatabaseObjects ---------------------------
(***************************************************************************)
(* The level of objects of core/object_database.py: objects of one type    *)
(* with a field that has an index.  An object is a few keys of the store,  *)
(* and the index is one more key for each indexed value, which holds the   *)
(* identities of the objects that have it.  Views and transactions are     *)
(* those of SnapshotStore, which ObjectDatabase implements; what one       *)
(* operation writes is private to its transaction until the commit.        *)
(***************************************************************************)
EXTENDS Integers, Sequences, SequencesExt

CONSTANTS
    Objects,    \* identities
    FieldVals,
    Indexed,    \* the values for which the index function is not None
    Views,
    MaxTx,      \* bound on the transactions that are committed
    MaxWrites,  \* bound on the writes of one transaction
    None,
    NotWritten,
    True        \* the value of the key ".exists"

ASSUME ObjectsAssumption ==
    /\ Indexed \subseteq FieldVals
    /\ {None, NotWritten} \cap FieldVals = {} /\ True \notin {None, NotWritten}
    /\ None # NotWritten /\ None \notin Seq(Objects) /\ NotWritten \notin Seq(Objects)

VARIABLES
    store, version, open,   \* as in SnapshotStore
    steps                   \* operations of each open transaction

vars == <<store, version, open, steps>>

(* data_key and index_key *)
Field(o) == <<"field", o>>
Exists(o) == <<".exists", o>>
Index(x) == <<"ix", x>>
ObjectKeys == {Field(o) : o \in Objects} \cup {Exists(o) : o \in Objects}
                  \cup {Index(x) : x \in Indexed}
ObjectVals == FieldVals \cup {True} \cup SeqOf(Objects, Cardinality(Objects))

S == INSTANCE SnapshotStore WITH Keys <- ObjectKeys, Vals <- ObjectVals

(* DatabaseView._get_dbkey *)
Seen(v, k) == IF open[v].writes[k] = NotWritten THEN open[v].seen[k] ELSE open[v].writes[k]

(* The index function: None for a value without an entry, and for the      *)
(* field of an object that was deleted.                                    *)
IndexVal(x) == IF x \in Indexed THEN x ELSE None

(* indexLookup *)
IndexLookup(v, x) == IF Seen(v, Index(x)) = None THEN <<>> ELSE Seen(v, Index(x))

(* The keys of an object, and the entries of the index that go with them.  *)
Over(data, entries) ==
    [k \in DOMAIN data \cup DOMAIN entries |-> IF k \in DOMAIN data THEN data[k] ELSE entries[k]]

(* Writes of a transaction, over the ones it has. *)
Write(v, new) ==
    /\ open[v].mode = "transaction"
    /\ steps[v] < MaxWrites
    /\ steps' = [steps EXCEPT ![v] = @ + 1]
    /\ open' = [open EXCEPT ![v].writes =
                  [k \in ObjectKeys |-> IF k \in DOMAIN new THEN new[k] ELSE @[k]]]
    /\ UNCHANGED <<store, version>>

(* The list of an entry without an object, wherever it is in it. *)
Without(list, o) ==
    LET Kept[i \in 0 .. Len(list)] ==
            IF i = 0 THEN <<>>
            ELSE IF list[i] # o THEN Append(Kept[i - 1], list[i]) ELSE Kept[i - 1]
    IN  Kept[Len(list)]

(* The entries _update_indices writes when the index value of o goes from  *)
(* old to new.  Mutant: the old entry is left as it is.                    *)
EntriesAdded(v, o, old, new) ==
    [k \in {Index(x) : x \in {old, new} \ {None}} |->
        IF k = Index(new) THEN Append(IndexLookup(v, new), o) ELSE IndexLookup(v, old)]
UpdateIndices(v, o, old, new) ==
    IF old = new THEN <<>>
    ELSE [k \in {Index(x) : x \in {old, new} \ {None}} |->
            IF k = Index(new) THEN Append(IndexLookup(v, new), o)
            ELSE Without(IndexLookup(v, old), o)]

(* _new, with an identity that is not used. *)
New(v, o, x) ==
    /\ open[v].mode = "transaction"
    /\ Seen(v, Exists(o)) = None /\ Seen(v, Field(o)) = None
    /\ Write(v, Over([k \in {Field(o), Exists(o)} |-> IF k = Field(o) THEN x ELSE True],
                     UpdateIndices(v, o, None, IndexVal(x))))

(* _set; the code does not ask whether o exists. *)
Set(v, o, x) ==
    /\ open[v].mode = "transaction"
    /\ Write(v, Over([k \in {Field(o)} |-> x],
                     UpdateIndices(v, o, IndexVal(Seen(v, Field(o))), IndexVal(x))))

(* _delete *)
Delete(v, o) ==
    /\ open[v].mode = "transaction"
    /\ Write(v, Over([k \in {Field(o), Exists(o)} |-> None],
                     UpdateIndices(v, o, IndexVal(Seen(v, Field(o))), None)))

Init ==
    /\ store = [k \in ObjectKeys |-> None]
    /\ version = 0
    /\ open = [v \in Views |-> S!Closed]
    /\ steps = [v \in Views |-> 0]

Leave(v) == (S!Commit(v) /\ version < MaxTx) \/ (open[v] # S!Closed /\ S!Close(v))

Next ==
    \E v \in Views :
        \/ \E mode \in {"view", "transaction"} : S!Open(v, mode) /\ UNCHANGED steps
        \/ Leave(v) /\ steps' = [steps EXCEPT ![v] = 0]
        \/ \E o \in Objects : \/ \E x \in FieldVals : New(v, o, x) \/ Set(v, o, x)
                              \/ Delete(v, o)

Spec == Init /\ [][Next]_vars

------------------------------------------------------------------------------
(* In every view and inside every transaction, the index has each object   *)
(* once, under the value its field has there, through creation, changes    *)
(* (also to and from values without an entry), deletion, changes after     *)
(* deletion, and transactions that are dropped or lose a conflict.         *)
IndexExact ==
    \A v \in Views : open[v] # S!Closed =>
        \A x \in Indexed :
            LET found == IndexLookup(v, x)
            IN  /\ ToSet(found) = {o \in Objects : Seen(v, Field(o)) = x}
                /\ IsInjective(found)
==============================================================================
