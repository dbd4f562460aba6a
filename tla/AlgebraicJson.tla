--------------------------- MODULE AlgebraicJson ---------------------------
(***************************************************************************)
(* The typed values of core/algebraic.py and their JSON form               *)
(* (core/algebraic_to_json.py).  Every object of the database is stored    *)
(* with ToJson and read back with FromJson, by an encoder that allows      *)
(* extra fields; messages and test definitions use a strict one.           *)
(*                                                                         *)
(* A type is <<"str">>, <<"int">>, <<"bool">>, <<"list", T>>,              *)
(* <<"dict", T>> (the keys are strings), <<"nullable", T>> or              *)
(* <<"alt", options>>, an Alternative: for each option its fields and      *)
(* their types.  Values and JSON documents are tagged in the same way.  A  *)
(* string is a sequence of letters; <<"str", s>> is one of bytes, which    *)
(* all strings in the fields of objects are (coerce_instance), and         *)
(* <<"unicode", s>> one of characters, which the encoder takes as well.    *)
(***************************************************************************)
EXTENDS Integers, Sequences, FiniteSets, SequencesExt

CONSTANTS
  Alternatives,       \* the Alternatives that are tried: sets of options
  ValuesOf(_),        \* values to try for a type
  NonAscii,           \* letters
  Keys                \* keys that the dictionaries may have

VARIABLES
  type, value,        \* what was chosen
  allowExtraFields,   \* Encoder.allowExtraFields
  legacy,             \* the stored form has a field the type no longer has
  json,               \* the stored form
  read,               \* what is read back
  phase

vars == <<type, value, allowExtraFields, legacy, json, read, phase>>

Str(s) == <<"str", s>>
Ascii(s) == SelectSeq(s, LAMBDA letter : letter \notin NonAscii)
NoneValue == <<"none">>
Null == <<"null">>
Some(v) == <<"some", v>>
Instance(which, fields) == <<"instance", which, fields>>
Raises == <<"raises">>
Extra == "nonsense"

Options(T) == T[2]
Fields(T, o) == Options(T)[o]
FieldNames(T, o) == DOMAIN Fields(T, o)
Bad(S) == \E v \in S : v = Raises

\* A bug for comparison: the option that came first keeps its place.
FieldsAreUniqueKeepsFirst(T, o) ==
  o = CHOOSE p \in DOMAIN Options(T) : FieldNames(T, p) = FieldNames(T, o)

\* Alternative._freeze: no other option has exactly these fields
FieldsAreUnique(T, o) ==
  \A p \in DOMAIN Options(T) : FieldNames(T, p) = FieldNames(T, o) => p = o

DefaultInitialize(T) ==
  CASE T[1] = "str" -> Str(<<>>)
    [] T[1] = "int" -> <<"int", 0>>
    [] T[1] = "bool" -> <<"bool", FALSE>>
    [] T[1] = "dict" -> <<"dict", [k \in {} |-> NoneValue]>>
    [] T[1] = "list" -> <<"list", <<>>>>
    [] T[1] = "nullable" -> Null
    [] T[1] = "alt" -> Raises

-----------------------------------------------------------------------------
(* Encoder.to_json *)
RECURSIVE ToJson(_, _)
ToJson(v, T) ==
  CASE T[1] = "nullable" -> IF v = Null THEN NoneValue ELSE ToJson(v[2], T[2])
    [] T[1] = "alt" ->
         LET o == v[2]
             fields == [f \in FieldNames(T, o) |-> ToJson(v[3][f], Fields(T, o)[f])]
         IN  IF FieldNames(T, o) = {} THEN Str(o)
             ELSE <<"object",
                    IF FieldsAreUnique(T, o) THEN fields
                    ELSE [f \in DOMAIN fields \union {"_type"} |->
                            IF f = "_type" THEN Str(o) ELSE fields[f]]>>
    [] T[1] = "str" -> IF v[1] = "unicode" THEN Str(Ascii(v[2])) ELSE v
    [] T[1] = "list" -> <<"array", [i \in DOMAIN v[2] |-> ToJson(v[2][i], T[2])]>>
    [] T[1] = "dict" -> <<"object", [k \in DOMAIN v[2] |-> ToJson(v[2][k], T[2])]>>
    [] OTHER -> v

-----------------------------------------------------------------------------
(* coerce_instance, for a field that was given *)
Coerce(v, T) ==
  CASE v = Raises -> Raises
    [] T[1] = "nullable" -> IF v = NoneValue THEN Null
                            ELSE IF v[1] \in {"some", "null"} THEN v ELSE Some(v)
    [] T[1] = "alt" -> IF v[1] = "instance" THEN v ELSE Raises
    [] OTHER -> IF v[1] = T[1] THEN v ELSE Raises

(* AlternativeOption.__init__ with _fill_in_missing *)
Construct(T, o, given) ==
  LET fields == [f \in FieldNames(T, o) |->
                   IF f \in DOMAIN given THEN Coerce(given[f], Fields(T, o)[f])
                   ELSE DefaultInitialize(Fields(T, o)[f])]
  IN  IF Bad({fields[f] : f \in DOMAIN fields}) THEN Raises ELSE Instance(o, fields)

RECURSIVE FlattenListsAndTuples(_)
FlattenListsAndTuples(j) ==
  IF j[1] # "array" THEN <<j>>
  ELSE FlattenSeq([i \in DOMAIN j[2] |-> FlattenListsAndTuples(j[2][i])])

(* The options that a set of field names leaves possible.  A field no option *)
(* has is passed over by an encoder that allows extra fields.  The code     *)
(* narrows the options one name at a time, which comes to the same here:    *)
(* the names are those of one option and at most one that no option has.    *)
Possible(T, names) ==
  LET known == {n \in names : \E o \in DOMAIN Options(T) : n \in FieldNames(T, o)}
      fit == {o \in DOMAIN Options(T) :
                (IF allowExtraFields THEN known ELSE names) \subseteq FieldNames(T, o)}
  IN  IF Cardinality(fit) > 1
      THEN {o \in fit : Cardinality(FieldNames(T, o)) = Cardinality(names)}
      ELSE fit

PrimitiveFromJson(j, T) ==
  IF T[1] = "str" /\ j[1] = "bool" THEN Str(IF j[2] THEN <<"true">> ELSE <<"false">>)
  ELSE j

(* A string names an option without fields, unless the only option that      *)
(* could take a string is one with a single string field.                   *)
AlternativeFromString(j, T) ==
  LET zero == {o \in DOMAIN Options(T) : FieldNames(T, o) = {}}
      single == {o \in DOMAIN Options(T) :
                   \E f \in FieldNames(T, o) :
                     FieldNames(T, o) = {f} /\ Fields(T, o)[f] = <<"str">>}
  IN  IF Cardinality(single) = 1 /\ zero = {}
      THEN LET o == CHOOSE o \in single : TRUE
           IN  Instance(o, [f \in FieldNames(T, o) |-> j])
      ELSE IF j[2] \in zero THEN Instance(j[2], [f \in {} |-> NoneValue]) ELSE Raises

(* What json.loads returns is unicode, and its other characters are dropped. *)
Encoded(j) == IF j[1] = "str" THEN Str(Ascii(j[2])) ELSE j

(* Of several keys that become one, the last in the dictionary's order counts. *)
LastOf(keys, order) == Last(SelectSeq(order, LAMBDA k : k \in keys))

(* Encoder.from_json *)
RECURSIVE FromJson(_, _, _)
FromJson(given, T, order) ==
  LET j == Encoded(given) IN
  CASE j = NoneValue -> IF T[1] = "dict" THEN DefaultInitialize(T) ELSE NoneValue
    [] j = Raises -> Raises
    [] T[1] = "nullable" /\ j # NoneValue -> Some(FromJson(j, T[2], order))
    [] T[1] = "dict" /\ j # NoneValue ->
         IF j[1] = "object"
         THEN LET from(k) == LastOf({n \in DOMAIN j[2] : Ascii(n) = k}, order)
              IN  <<"dict", [k \in {Ascii(n) : n \in DOMAIN j[2]} |->
                               FromJson(j[2][from(k)], T[2], order)]>>
         ELSE IF j[1] = "array"
         THEN LET Update(d, x) == LET e == FromJson(x, T, order) IN
                    IF Raises \in {d, e} THEN Raises
                    ELSE <<"dict", [k \in DOMAIN d[2] \union DOMAIN e[2] |->
                                      IF k \in DOMAIN e[2] THEN e[2][k] ELSE d[2][k]]>>
              IN  FoldLeft(Update, DefaultInitialize(T), j[2])
         ELSE Raises
    [] T[1] = "list" /\ j # NoneValue ->
         LET q == IF j[1] = "array" /\ T[2][1] = "list" THEN j[2] ELSE FlattenListsAndTuples(j)
         IN  IF j[1] = "object" THEN Raises
             ELSE <<"list", [i \in DOMAIN q |-> FromJson(q[i], T[2], order)]>>
    [] T[1] \in {"str", "int", "bool"} /\ j # NoneValue -> PrimitiveFromJson(j, T)
    [] T[1] = "alt" /\ j # NoneValue ->
         IF j[1] = "str" THEN AlternativeFromString(j, T)
         ELSE IF j[1] # "object" THEN Raises
         ELSE LET names == DOMAIN j[2] \ {"_type"}
                  which == IF "_type" \in DOMAIN j[2] THEN {j[2]["_type"][2]}
                           ELSE Possible(T, names)
                  o == CHOOSE o \in which : TRUE
                  known == {f \in names : o \in DOMAIN Options(T) /\ f \in FieldNames(T, o)}
              IN  IF Cardinality(which) # 1 \/ ~(which \subseteq DOMAIN Options(T))
                  THEN Raises
                  ELSE Construct(T, o,
                         [f \in known |-> FromJson(j[2][f], Fields(T, o)[f], order)])

-----------------------------------------------------------------------------
(* A value is written to the store and read again, perhaps by a later        *)
(* version of the program whose type has lost the field Extra.               *)

Init ==
  /\ type \in Alternatives
  /\ value \in ValuesOf(type)
  /\ allowExtraFields \in BOOLEAN
  /\ legacy \in BOOLEAN
  /\ json = NoneValue
  /\ read = NoneValue
  /\ phase = "write"

Write ==
  /\ phase = "write"
  /\ LET j == ToJson(value, type)
     IN  json' = IF legacy /\ type[1] = "alt" /\ j[1] = "object"
                 THEN <<"object", [f \in DOMAIN j[2] \union {Extra} |->
                                     IF f = Extra THEN Str(<<"x">>) ELSE j[2][f]]>>
                 ELSE j
  /\ phase' = "read"
  /\ UNCHANGED <<type, value, allowExtraFields, legacy, read>>

Read ==
  /\ phase = "read"
  /\ \E order \in SetToSeqs(Keys) : read' = FromJson(json, type, order)
  /\ phase' = "done"
  /\ UNCHANGED <<type, value, allowExtraFields, legacy, json>>

Next == Write \/ Read

Spec == Init /\ [][Next]_vars

-----------------------------------------------------------------------------
(* What r says is v without the characters that are not ASCII: of entries     *)
(* whose keys become one, one is left.                                      *)
RECURSIVE Says(_, _, _)
Says(r, v, T) ==
  CASE T[1] = "str" -> r = Str(Ascii(v[2]))
    [] T[1] = "nullable" -> IF v = Null THEN r = Null ELSE r[1] = "some" /\ Says(r[2], v[2], T[2])
    [] T[1] = "list" ->
         /\ r[1] = "list" /\ Len(r[2]) = Len(v[2])
         /\ \A i \in DOMAIN v[2] : Says(r[2][i], v[2][i], T[2])
    [] T[1] = "dict" ->
         /\ r[1] = "dict" /\ DOMAIN r[2] = {Ascii(k) : k \in DOMAIN v[2]}
         /\ \A n \in DOMAIN r[2] : \E k \in DOMAIN v[2] :
               Ascii(k) = n /\ Says(r[2][n], v[2][k], T[2])
    [] T[1] = "alt" ->
         /\ r[1] = "instance" /\ r[2] = v[2] /\ DOMAIN r[3] = DOMAIN v[3]
         /\ \A f \in DOMAIN v[3] : Says(r[3][f], v[3][f], Fields(T, v[2])[f])
    [] OTHER -> r = v

(***************************************************************************)
(* Every value is read back as it was written, but for the characters that *)
(* are not ASCII, although most options are told apart by the names of     *)
(* their fields only; this also holds with a field that no longer exists,  *)
(* for an encoder that allows extra fields, as long as no option's fields  *)
(* are among those of another.                                             *)
(***************************************************************************)
Comparable(T) == T[1] = "alt" /\ \E o, p \in DOMAIN Options(T) :
  o # p /\ FieldNames(T, o) \subseteq FieldNames(T, p)

ReadBack ==
  phase = "done" /\ (legacy => allowExtraFields /\ ~Comparable(type))
    => Says(read, value, type)
=============================================================================
