------------------------------- MODULE Store -------------------------------
(***************************************************************************)
(* The rows of the metadata engine, models/metadata.py, and the requests   *)
(* that work on them.  Each request runs statement by statement in a       *)
(* READ COMMITTED transaction of its own and changes the rows in one       *)
(* COMMIT, with no row locked before its flush and no version checked.     *)
(*                                                                         *)
(* A row's id is a uuid never used before.  What a row keeps for life, its *)
(* table, its slug or key, its type, is therefore a function of its id: to *)
(* create a row is to draw an id that has the attributes wanted.           *)
(***************************************************************************)
EXTENDS FieldTypes, Identifiers, FiniteSets

CONSTANTS
  Tables, Fields, Records,  \* ids
  Keys,                     \* field keys
  Slots,                    \* threads that serve requests
  Labels,                   \* what callers name tables and fields
  Payloads,                 \* the documents callers send
  Configs,                  \* for each type, the configurations they send
  Flags,                    \* what they send for required
  Operations,               \* the kinds of request of the instance
  Preset,                   \* tables and fields that exist at first
  Shown,                    \* the display fields that the tables may have then
  WorkspaceOf, SlugOf,      \* of a table
  TableOf,                  \* of a field or a record
  KeyOf, TypeOf,            \* of a field
  None                      \* SQL NULL, an absent key, an argument left out

(* A document has a value or None for each key.  A configuration has the   *)
(* options that select_options reads from it and a target; plain is        *)
(* whether the target is spelled the way str() spells a uuid.              *)
Documents == [Keys -> JsonValues \cup {None}]

AllConfigs ==
  [options : SUBSET JsonValues, target : Tables \cup {None}, plain : BOOLEAN]

ASSUME NoneAssumption ==
  /\ None \notin Tables \cup Fields \cup Records \cup Keys \cup Slots
  /\ None \notin JsonValues \cup AllConfigs \cup BOOLEAN \cup Documents

ASSUME IdsAssumption ==
  /\ Tables \cap Fields = {} /\ Tables \cap Records = {}
  /\ Fields \cap Records = {} /\ Records \subseteq Uuids
  /\ TableOf \in [Fields \cup Records -> Tables]
  /\ KeyOf \in [Fields -> Keys]
  /\ TypeOf \in [Fields -> SupportedFieldTypes]

ASSUME InputsAssumption ==
  /\ Payloads \subseteq Documents
  /\ Configs \in [SupportedFieldTypes -> SUBSET AllConfigs]
  /\ Flags \subseteq BOOLEAN
  /\ Shown \subseteq Keys

(* The preset structure is one the requests could have made.                *)
ASSUME PresetAssumption ==
  /\ Preset \subseteq Tables \cup Fields
  /\ \A f \in Preset \cap Fields : TableOf[f] \in Preset
  /\ \A t, u \in Preset \cap Tables :
       WorkspaceOf[t] = WorkspaceOf[u] /\ SlugOf[t] = SlugOf[u] => t = u
  /\ \A f, g \in Preset \cap Fields :
       TableOf[f] = TableOf[g] /\ KeyOf[f] = KeyOf[g] => f = g

(* Labels are sequences of characters, and of the numbers that a name may  *)
(* end in there are more than rows that may have taken one.                *)
ASSUME NamesAssumption ==
  /\ Labels \subseteq Seq(STRING)
  /\ IsFiniteSet(Tables) /\ Cardinality(Tables) + 1 < MaxIndex
  /\ IsFiniteSet(Fields) /\ Cardinality(Fields) + 1 < MaxIndex

VARIABLES
  tables, fields, records,  \* the ids that have a row
  display,                  \* display[t]: display_field_key
  required, config,         \* of each field
  data,                     \* data[x]: the document of record x
  spent,                    \* the ids that have or had a row
  pc, job,                  \* where the request of each slot stands, its job
  crossed                   \* history: requests that another commit overtook

rows == <<tables, fields, records, display, required, config, data>>
vars == <<rows, spent, pc, job, crossed>>

NoData == [k \in Keys |-> None]

NoConfig == [options |-> {}, target |-> None, plain |-> TRUE]

NoJob ==
  [op |-> "none", row |-> None, payload |-> NoData, key |-> None,
   required |-> None, config |-> None, doc |-> NoData, defs |-> {},
   shown |-> None, found |-> [x \in Records |-> None]]

(* What _validate_field_definition can tell without the database.          *)
WellFormed(type, c) ==
  /\ type = "single_select" => c.options # {}
  /\ type = "relation" => c.target # None

Definable(f, c) ==
  /\ WellFormed(TypeOf[f], c)
  /\ TypeOf[f] = "relation" =>
       c.target \in Preset /\ WorkspaceOf[c.target] = WorkspaceOf[TableOf[f]]

Init ==
  /\ tables = Preset \cap Tables
  /\ fields = Preset \cap Fields
  /\ records = {}
  /\ spent = Preset
  /\ display \in [Tables -> Shown \cup {None}]
  /\ \A t \in Tables : display[t] # None =>
       \E f \in fields : TableOf[f] = t /\ KeyOf[f] = display[t]
  /\ required \in [Fields -> Flags \cup {FALSE}]
  /\ \A f \in Fields : required[f] => f \in Preset
  /\ config \in [Fields -> {NoConfig} \cup UNION {Configs[y] : y \in DOMAIN Configs}]
  /\ \A f \in Fields :
       IF f \in Preset THEN config[f] \in Configs[TypeOf[f]] /\ Definable(f, config[f])
       ELSE config[f] = NoConfig
  /\ data = [x \in Records |-> NoData]
  /\ pc = [r \in Slots |-> "idle"]
  /\ job = [r \in Slots |-> NoJob]
  /\ crossed = {}

-----------------------------------------------------------------------------
(* An id that uuid4 may give a request.                                    *)
Fresh(i) == i \notin spent /\ \A r \in Slots : job[r].row # i

(* The first statements of a request: who asks is allowed to, and the row  *)
(* it names, if that has to exist, does (authorize_workspace).             *)
Begin(r, at, j) ==
  /\ pc[r] = "idle"
  /\ j.op \in Operations
  /\ pc' = [pc EXCEPT ![r] = at]
  /\ job' = [job EXCEPT ![r] = j]
  /\ UNCHANGED <<rows, spent, crossed>>

(* A statement that reads.                                                 *)
Read(r, at, j) ==
  /\ pc' = [pc EXCEPT ![r] = at]
  /\ job' = [job EXCEPT ![r] = j]
  /\ UNCHANGED <<rows, spent, crossed>>

(* The transaction ends; if it changed a row, it overtook all the others.  *)
End(r) ==
  /\ pc' = [pc EXCEPT ![r] = "idle"]
  /\ job' = [job EXCEPT ![r] = NoJob]
  /\ crossed' = {q \in Slots \ {r} :
                   q \in crossed \/ (pc[q] # "idle" /\ rows' # rows)}

(* A refusal, 404, 409 or 422, and an error, 500: nothing is written.      *)
Refuse(r) == UNCHANGED <<rows, spent>> /\ End(r)

Definition(f) == [field |-> f, required |-> required[f], config |-> config[f]]

FieldsOf(t) == {f \in fields : TableOf[f] = t}

(* list_fields                                                             *)
Definitions(t) == {Definition(f) : f \in FieldsOf(t)}

At(r, at, ops) == pc[r] = at /\ job[r].op \in ops

-----------------------------------------------------------------------------
Stages ==
  {"idle", "table", "target", "fields", "related", "relations", "dependents",
   "scan", "commit"}

Ops ==
  {"create_table", "update_table", "delete_table", "create_field",
   "update_field", "delete_field", "create_record", "replace_record",
   "patch_record", "delete_record"}

AllDefinitions ==
  [field : Fields, required : BOOLEAN, config : AllConfigs]

Jobs ==
  [op : Ops \cup {"none"}, row : Tables \cup Fields \cup Records \cup {None},
   payload : Documents, key : Keys \cup {None},
   required : BOOLEAN \cup {None}, config : AllConfigs \cup {None},
   doc : Documents, defs : SUBSET AllDefinitions, shown : Keys \cup {None},
   found : [Records -> Documents \cup {None}]]

(* Every variable holds a value of its kind, and a row's id counts as      *)
(* spent.                                                                  *)
TypeOK ==
  /\ tables \subseteq Tables \cap spent
  /\ fields \subseteq Fields \cap spent
  /\ records \subseteq Records \cap spent
  /\ spent \subseteq Tables \cup Fields \cup Records
  /\ display \in [Tables -> Keys \cup {None}]
  /\ required \in [Fields -> BOOLEAN]
  /\ config \in [Fields -> AllConfigs]
  /\ data \in [Records -> Documents]
  /\ pc \in [Slots -> Stages]
  /\ job \in [Slots -> Jobs]
  /\ crossed \subseteq Slots
=============================================================================
