----------------------------- MODULE FieldTypes -----------------------------
(***************************************************************************)
(* The rules for one value of a record (services/field_types.py).  A JSON  *)
(* value is kept as its JSON type, what its text reads as, and whether it  *)
(* is spelled in the form that str() or isoformat() would give it back:    *)
(* "20240102" reads as a date and is not canonical; so does the uuid of a  *)
(* record in capitals.  Numbers, words and dates are otherwise alike.      *)
(***************************************************************************)
CONSTANT Uuids  \* what a string in the shape of a uuid can read as

SupportedFieldTypes ==
  {"text", "long_text", "number", "boolean", "date", "single_select",
   "relation"}

Readings == {"blank", "word", "date", "nothing"} \cup Uuids

JsonValues ==
  [json : {"null", "string", "number", "boolean", "list", "object"},
   reads : Readings, canonical : BOOLEAN]

Text(reading) == [json |-> "string", reads |-> reading, canonical |-> TRUE]

Null == [json |-> "null", reads |-> "nothing", canonical |-> TRUE]

(* None, a blank string, an empty list.                                    *)
IsEmpty(v) ==
  \/ v.json = "null"
  \/ v.json = "string" /\ v.reads = "blank"
  \/ v.json = "list" /\ v.reads = "nothing"

(* Is v of the declared type?  There is no coercion from one JSON type to  *)
(* another, and a boolean is no number.                                    *)
Fits(type, options, v) ==
  \/ type \in {"text", "long_text"} /\ v.json = "string"
  \/ type \in {"number", "boolean"} /\ v.json = type
  \/ type = "date" /\ v.json = "string" /\ v.reads = "date"
  \/ type = "single_select" /\ v.json = "string" /\ v \in options
  \/ type = "relation" /\ v.json = "string" /\ v.reads \in Uuids

(* The value that coerce_value gives back to be stored.                    *)
Coerced(type, v) ==
  IF type \in {"date", "relation"} THEN [v EXCEPT !.canonical = TRUE] ELSE v
=============================================================================
