----------------------------- MODULE Serializers -----------------------------
(***************************************************************************)
(* What djangors-rest makes of a request body: whole-object and partial    *)
(* parsing, the read/write split of a FieldSet and the model serializer.   *)
(*                                                                         *)
(* A JSON object is the set of columns it supplies, of which some are null *)
(* and some do not parse as the column's kind; the others carry the value  *)
(* "row" has for them.  A serializer's answer is the columns in error and, *)
(* when there is none, the column values for INSERT or UPDATE.             *)
(***************************************************************************)
EXTENDS FiniteSets

CONSTANTS
  Columns,      \* the model's columns except its automatic primary key
  Booleans,     \* those of kind Boolean
  Relations,    \* foreign keys
  Nullable,     \* columns that may be NULL
  NullValue,    \* NULL in a row
  FalseValue    \* false in a row

ASSUME ColumnAssumption ==
  /\ Booleans \cup Relations \cup Nullable \subseteq Columns
  /\ Booleans \cap Relations = {}

-----------------------------------------------------------------------------
(* A FieldSet: which columns are accepted.                                 *)
AllFields == [only |-> {}, exclude |-> {}, readOnly |-> {}]

FieldInScope(fs, c) == c \notin fs.exclude /\ (fs.only = {} \/ c \in fs.only)
IsWritable(fs, c) == FieldInScope(fs, c) /\ c \notin fs.readOnly

-----------------------------------------------------------------------------
Absent(body, c) == c \notin body.supplied
AbsentOrNull(body, c) == Absent(body, c) \/ c \in body.nulls

(* Variant: an omitted key of a partial body is defaulted like any other.  *)
ConsideredAlways(body, partial) == Columns

(* The columns a body says something about.                                *)
Considered(body, partial) ==
  {c \in Columns : ~(partial /\ Absent(body, c))}

(* A missing boolean is false, a missing nullable column or relation NULL. *)
DeserializeErrors(body, partial) ==
  {c \in Considered(body, partial) :
     \/ c \in body.malformed /\ ~AbsentOrNull(body, c)
     \/ AbsentOrNull(body, c) /\ c \notin Nullable \cup Booleans \cup Relations}

DeserializedValues(body, partial) ==
  [c \in Considered(body, partial) |->
     IF ~AbsentOrNull(body, c) THEN body.row[c]
     ELSE IF c \in Booleans \ Nullable THEN FalseValue ELSE NullValue]

(* ModelSerializer::to_internal_value: what it adds to the errors above.   *)
SerializerErrors(fs, body, partial) ==
  LET readOnlyNamed == {c \in body.supplied : ~IsWritable(fs, c)}
      required == {c \in Columns : IsWritable(fs, c) /\ (c \in Relations \/ c \notin Nullable)}
      missing == IF partial THEN {} ELSE {c \in required : AbsentOrNull(body, c)}
  IN  readOnlyNamed \cup missing \cup DeserializeErrors(body, partial)

SerializerValues(fs, body, partial) ==
  LET values == DeserializedValues(body, partial)
  IN  [c \in {d \in DOMAIN values : IsWritable(fs, d)} |-> values[c]]

(* Serializer::parse: object-level validators run on what parsed.          *)
ParseFails(fs, body, partial) ==
  SerializerErrors(fs, body, partial) # {} \/ body.breaksRule

=============================================================================
