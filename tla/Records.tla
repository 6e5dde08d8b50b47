------------------------------ MODULE Records ------------------------------
(***************************************************************************)
(* Records and their relations (services/record_service.py), and the       *)
(* metadata engine as a whole.  A document is validated against the fields *)
(* the request has read, its relations against the records it finds then,  *)
(* and it is written as a whole.                                           *)
(***************************************************************************)
EXTENDS Metadata

RefTo(x) == Text(x)

Given(doc, k) == doc[k] # None /\ ~IsEmpty(doc[k])

(* validate_payload but for the records that relations name: every key     *)
(* belongs to a field, every required field has a value, every value fits. *)
Accepts(defs, doc) ==
  /\ \A k \in Keys : doc[k] # None => \E d \in defs : KeyOf[d.field] = k
  /\ \A d \in defs :
       IF Given(doc, KeyOf[d.field])
       THEN Fits(TypeOf[d.field], d.config.options, doc[KeyOf[d.field]])
       ELSE ~d.required

(* The document validate_payload returns: empty values are dropped.        *)
Stored(defs, doc) ==
  [k \in Keys |->
     IF Given(doc, k) /\ \E d \in defs : KeyOf[d.field] = k
     THEN Coerced(TypeOf[(CHOOSE d \in defs : KeyOf[d.field] = k).field], doc[k])
     ELSE None]

Merge(doc, fragment) ==
  [k \in Keys |-> IF fragment[k] # None THEN fragment[k] ELSE doc[k]]

(* The document a request is about to validate.                            *)
Submitted(j) ==
  IF j.op = "patch_record" THEN Merge(j.doc, j.payload) ELSE j.payload

Finds(d, doc) ==
  \E y \in records :
    /\ doc[KeyOf[d.field]].reads = y
    /\ TableOf[y] = d.config.target

(* Every relation of the document names a record of its field's target.    *)
Related(defs, doc) ==
  \A d \in defs :
    TypeOf[d.field] = "relation" /\ Given(doc, KeyOf[d.field]) => Finds(d, doc)

Writes == {"create_record", "replace_record", "patch_record"}

-----------------------------------------------------------------------------
(* create_record, replace_record and patch_record.                         *)

CreateRecord(r) ==
  \E x \in Records, p \in Payloads :
    /\ Fresh(x)
    /\ TableOf[x] \in tables
    /\ Begin(r, "fields",
             [NoJob EXCEPT !.op = "create_record", !.row = x, !.payload = p])

ReplaceRecord(r) ==
  \E x \in records, p \in Payloads :
    Begin(r, "fields", [NoJob EXCEPT !.op = "replace_record", !.row = x,
                                     !.payload = p, !.doc = data[x]])

PatchRecord(r) ==
  \E x \in records, p \in Payloads :
    Begin(r, "fields", [NoJob EXCEPT !.op = "patch_record", !.row = x,
                                     !.payload = p, !.doc = data[x]])

(* list_fields: 404 once the table is gone.                                *)
LoadFields(r) ==
  LET t == TableOf[job[r].row]
  IN  /\ At(r, "fields", Writes)
      /\ \/ /\ t \in tables
            /\ Read(r, "related", [job[r] EXCEPT !.defs = Definitions(t)])
         \/ t \notin tables /\ Refuse(r)

(* Mutant of Validate: nobody looks the related records up.                *)
ValidateUnrelated(r) ==
  LET fine == Accepts(job[r].defs, Submitted(job[r]))
  IN  /\ At(r, "related", Writes)
      /\ \/ fine /\ Read(r, "commit", job[r])
         \/ ~fine /\ Refuse(r)

(* Mutant of Validate: PATCH does not ask for the required fields.         *)
ValidatePartial(r) ==
  LET asked == {[d EXCEPT !.required = @ /\ job[r].op # "patch_record"] :
                  d \in job[r].defs}
      fine == Accepts(asked, Submitted(job[r]))
  IN  /\ At(r, "related", Writes)
      /\ \/ fine /\ Read(r, "commit", job[r])
         \/ ~fine /\ Refuse(r)

(* validate_payload                                                        *)
Validate(r) ==
  LET doc  == Submitted(job[r])
      fine == Accepts(job[r].defs, doc) /\ Related(job[r].defs, doc)
  IN  /\ At(r, "related", Writes)
      /\ \/ fine /\ Read(r, "commit", job[r])
         \/ ~fine /\ Refuse(r)

(* Mutant of InsertRecord: the table has no foreign key.                   *)
InsertRecordAnywhere(r) ==
  LET x == job[r].row
  IN  /\ At(r, "commit", {"create_record"})
      /\ records' = records \cup {x} /\ spent' = spent \cup {x}
      /\ data' = [data EXCEPT ![x] = Stored(job[r].defs, Submitted(job[r]))]
      /\ UNCHANGED <<tables, fields, display, required, config>>
      /\ End(r)

(* The INSERT, or the IntegrityError of the foreign key to the table.      *)
InsertRecord(r) ==
  LET x == job[r].row
  IN  /\ At(r, "commit", {"create_record"})
      /\ \/ /\ TableOf[x] \in tables
            /\ records' = records \cup {x} /\ spent' = spent \cup {x}
            /\ data' = [data EXCEPT ![x] =
                          Stored(job[r].defs, Submitted(job[r]))]
            /\ UNCHANGED <<tables, fields, display, required, config>>
            /\ End(r)
         \/ TableOf[x] \notin tables /\ Refuse(r)

(* Mutant of WriteRecord: of a patch, only the fragment is stored.         *)
WriteRecordFragment(r) ==
  LET x == job[r].row
      doc == Stored(job[r].defs, job[r].payload)
  IN  /\ At(r, "commit", {"replace_record", "patch_record"})
      /\ data' = IF x \in records /\ doc # job[r].doc
                 THEN [data EXCEPT ![x] = doc] ELSE data
      /\ UNCHANGED <<tables, fields, records, display, required, config, spent>>
      /\ End(r)

(* The UPDATE of the whole document by primary key, left out when it is    *)
(* the one that was loaded; no row matched is a StaleDataError.            *)
WriteRecord(r) ==
  LET x == job[r].row
      doc == Stored(job[r].defs, Submitted(job[r]))
  IN  /\ At(r, "commit", {"replace_record", "patch_record"})
      /\ data' = IF x \in records /\ doc # job[r].doc
                 THEN [data EXCEPT ![x] = doc] ELSE data
      /\ UNCHANGED <<tables, fields, records, display, required, config, spent>>
      /\ End(r)

-----------------------------------------------------------------------------
(* delete_record                                                           *)

DeleteRecord(r) ==
  \E x \in records :
    Begin(r, "relations", [NoJob EXCEPT !.op = "delete_record", !.row = x,
                                        !.doc = data[x]])

(* The relation fields whose target, compared as text, is the record's     *)
(* table.                                                                  *)
LoadRelations(r) ==
  LET guards(d) == /\ TypeOf[d.field] = "relation"
                   /\ d.config.target = TableOf[job[r].row] /\ d.config.plain
  IN  /\ At(r, "relations", {"delete_record"})
      /\ Read(r, "dependents",
              [job[r] EXCEPT !.defs =
                 {d \in {Definition(f) : f \in fields} : guards(d)}])

(* One field's table is searched for a record that refers to this one,     *)
(* which itself is known as it was loaded.  RESTRICT: 409.                 *)
ScanDependents(r) ==
  LET x == job[r].row
      doc(y) == IF y = x THEN job[r].doc ELSE data[y]
      referring(d) == {y \in RecordsOf(TableOf[d.field]) :
                         doc(y)[KeyOf[d.field]] = RefTo(x)}
  IN  /\ At(r, "dependents", {"delete_record"})
      /\ \E d \in job[r].defs :
           \/ /\ referring(d) = {}
              /\ Read(r, "dependents", [job[r] EXCEPT !.defs = @ \ {d}])
           \/ referring(d) # {} /\ Refuse(r)

DropRecord(r) ==
  LET x == job[r].row
  IN  /\ At(r, "dependents", {"delete_record"})
      /\ job[r].defs = {}
      /\ records' = records \ {x}
      /\ data' = [data EXCEPT ![x] = NoData]
      /\ UNCHANGED <<tables, fields, display, required, config, spent>>
      /\ End(r)

-----------------------------------------------------------------------------
(* The connection is lost, the worker is killed: 500.                      *)
Fail(r) == pc[r] # "idle" /\ Refuse(r)

RecordArrive(r) ==
  CreateRecord(r) \/ ReplaceRecord(r) \/ PatchRecord(r) \/ DeleteRecord(r)

RecordProceed(r) ==
  \/ LoadFields(r) \/ Validate(r) \/ InsertRecord(r) \/ WriteRecord(r)
  \/ LoadRelations(r) \/ ScanDependents(r) \/ DropRecord(r)

Next ==
  \E r \in Slots :
    \/ MetadataArrive(r) \/ MetadataProceed(r)
    \/ RecordArrive(r) \/ RecordProceed(r) \/ Fail(r)

Spec == Init /\ [][Next]_vars

-----------------------------------------------------------------------------
(* Properties of every state.                                              *)

(* No field and no record is left without its table, whatever inserts race *)
(* with delete_table.                                                      *)
RowsHaveTables == \A i \in fields \cup records : TableOf[i] \in tables

(* No two tables of a workspace share a slug and no two fields of a table  *)
(* share a key, whatever creations race (unique_identifier, the unique     *)
(* constraints).                                                           *)
NamesAreUnique ==
  /\ \A t, u \in tables :
       WorkspaceOf[t] = WorkspaceOf[u] /\ SlugOf[t] = SlugOf[u] => t = u
  /\ \A f, g \in fields :
       TableOf[f] = TableOf[g] /\ KeyOf[f] = KeyOf[g] => f = g

(* A relation never leads out of its workspace, whatever field is created  *)
(* or given another target (_validate_field_definition).                   *)
RelationsStayHome ==
  \A f \in fields :
    TypeOf[f] = "relation" =>
      WorkspaceOf[config[f].target] = WorkspaceOf[TableOf[f]]

(* The slug that create_table derives is free and fits its column, also    *)
(* where a number had to be appended, and the key of create_field is free: *)
(* nothing but another request's insert makes the insert fail.             *)
DerivedNamesAreFree ==
  \A r \in Slots \ crossed :
    /\ At(r, "commit", {"create_table"}) =>
         /\ SlugOf[job[r].row] \notin SlugsOf(WorkspaceOf[job[r].row])
         /\ Len(SlugOf[job[r].row]) <= MaxLength
    /\ At(r, "commit", {"create_field"}) =>
         KeyOf[job[r].row] \notin KeysTaken(TableOf[job[r].row])

-----------------------------------------------------------------------------
(* Properties of steps: what goes wrong needs two requests that overlap.   *)

Commits(r) == pc[r] # "idle" /\ pc'[r] = "idle"

Does(r, op) == Commits(r) /\ job[r].op = op

(* A request that no other one overtook has changed something.             *)
Alone == rows' # rows /\ \E r \in Slots \ crossed : Commits(r)

(* Values under a key that no field of the record's table has.             *)
Orphans ==
  {o \in records \X Keys :
     data[o[1]][o[2]] # None /\ o[2] \notin KeysTaken(TableOf[o[1]])}

(* A record has a key that no field of its table has only after a request  *)
(* that another one overtook: create, replace and patch admit known keys   *)
(* only, delete_field strips its key from all records.                     *)
OrphansNeedOverlap == [][ Alone => Orphans' \subseteq Orphans ]_vars

Resolves(f, v) == \E y \in records : v = RefTo(y) /\ TableOf[y] = config[f].target

(* Values of relation fields that do not lead to a record of the target.   *)
Lost(x, f) ==
  /\ TypeOf[f] = "relation" /\ TableOf[f] = TableOf[x]
  /\ data[x][KeyOf[f]] # None /\ ~Resolves(f, data[x][KeyOf[f]])

Dangling == {p \in records \X fields : Lost(p[1], p[2])}

(* A stored relation stops leading to a record of its target only in a     *)
(* request that another one overtook, or because delete_table removed the  *)
(* target table, update_field gave the field another target, the field is  *)
(* new over an orphaned value, or delete_record did not recognise the      *)
(* field's target because it is spelled in another way.                    *)
DanglingNeedsCause ==
  [][ Alone =>
      \A p \in Dangling' \ Dangling :
        LET f == p[2]
        IN  \/ f \notin fields
            \/ config[f].target \notin tables'
            \/ config'[f] # config[f]
            \/ ~config[f].plain ]_vars

(* A referenced record is not deleted: RELATIONS.md, "Deletion uses        *)
(* RESTRICT", for a delete_record that no other request overtook.          *)
DeletionRestricted ==
  [][ Alone =>
      \A r \in Slots, p \in Dangling' \ Dangling : ~Does(r, "delete_record") ]_vars

(* Records that are not what validate_payload would make of them: a PATCH  *)
(* of any field is refused, or changes other fields too.                   *)
Invalid ==
  {x \in records :
     LET defs == Definitions(TableOf[x])
     IN  ~Accepts(defs, data[x]) \/ Stored(defs, data[x]) # data[x]}

(* The fields make a stored record invalid only when a required field is   *)
(* added or update_field changes one: nothing a client does to records     *)
(* does it, unless another request overtakes it.                           *)
RecordsStayValid ==
  [][ Alone =>
      \/ Invalid' \subseteq Invalid
      \/ \E r \in Slots :
           \/ Does(r, "create_field") /\ job[r].required
           \/ Does(r, "update_field") ]_vars

(* The request may change key k of record x.                               *)
MayWrite(r, x, k) ==
  \/ Does(r, "replace_record") /\ job[r].row = x
  \/ Does(r, "patch_record") /\ job[r].row = x /\ job[r].payload[k] # None
  \/ /\ Does(r, "delete_field")
     /\ KeyOf[job[r].row] = k /\ TableOf[job[r].row] = TableOf[x]

(* A valid record keeps every value that a request is not about: PATCH     *)
(* merges, delete_field drops one key, and neither undoes the work of      *)
(* another request that did not overtake it.                               *)
OtherValuesKept ==
  [][ Alone =>
      \A x \in (records \cap records') \ Invalid, k \in Keys :
        data'[x][k] # data[x][k] => \E r \in Slots : MayWrite(r, x, k) ]_vars

(* A table that shows a key that none of its fields has.                   *)
Undisplayable ==
  {t \in tables : display[t] # None /\ display[t] \notin KeysTaken(t)}

(* The display field of a table names one of its fields, whatever fields   *)
(* are deleted and created and whatever update_table is asked to show, but *)
(* for requests that were overtaken.                                       *)
DisplayNeedsOverlap == [][ Alone => Undisplayable' \subseteq Undisplayable ]_vars

(* What a table shows is exchanged by update_table only and given up by    *)
(* the delete_field of that very field only ("Existing identities are      *)
(* never changed implicitly", create_field), but for requests that were    *)
(* overtaken.                                                              *)
DisplayChangesOnRequest ==
  [][ Alone =>
      \A t \in tables \cap tables' :
        display[t] # None /\ display'[t] # display[t] =>
          \E r \in Slots :
            \/ Does(r, "update_table")
            \/ /\ Does(r, "delete_field")
               /\ KeyOf[job[r].row] = display[t]
               /\ display'[t] = None ]_vars
=============================================================================
