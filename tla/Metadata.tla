------------------------------ MODULE Metadata ------------------------------
(***************************************************************************)
(* Tables and their fields (services/metadata_service.py): what each       *)
(* request reads, statement by statement, and what its COMMIT writes.      *)
(***************************************************************************)
EXTENDS Store

-----------------------------------------------------------------------------
(* Tables.                                                                 *)

SlugsOf(w) == {SlugOf[t] : t \in {t \in tables : WorkspaceOf[t] = w}}

(* create_table: the slugs taken are read, and a free one is chosen.       *)
CreateTable(r) ==
  \E t \in Tables, label \in Labels :
    /\ Fresh(t)
    /\ SlugOf[t] =
         UniqueIdentifier(label, SlugsOf(WorkspaceOf[t]), "-", "table")
    /\ Begin(r, "commit", [NoJob EXCEPT !.op = "create_table", !.row = t])

(* Mutant of InsertTable: uq_table_workspace_slug is missing.              *)
InsertTableAnySlug(r) ==
  LET t == job[r].row
  IN  /\ At(r, "commit", {"create_table"})
      /\ tables' = tables \cup {t} /\ spent' = spent \cup {t}
      /\ UNCHANGED <<fields, records, display, required, config, data>>
      /\ End(r)

(* The INSERT, or the IntegrityError of uq_table_workspace_slug.           *)
InsertTable(r) ==
  LET t == job[r].row
  IN  /\ At(r, "commit", {"create_table"})
      /\ \/ /\ SlugOf[t] \notin SlugsOf(WorkspaceOf[t])
            /\ tables' = tables \cup {t} /\ spent' = spent \cup {t}
            /\ UNCHANGED <<fields, records, display, required, config, data>>
            /\ End(r)
         \/ SlugOf[t] \in SlugsOf(WorkspaceOf[t]) /\ Refuse(r)

(* update_table as far as it sets the display field.                       *)
UpdateTable(r) ==
  \E t \in tables, k \in Keys :
    Begin(r, "fields", [NoJob EXCEPT !.op = "update_table", !.row = t,
                                     !.key = k, !.shown = display[t]])

KeysTaken(t) == {KeyOf[f] : f \in FieldsOf(t)}

(* Mutant of CheckDisplayField: any key will do.                           *)
CheckDisplayFieldNot(r) ==
  /\ At(r, "fields", {"update_table"})
  /\ Read(r, "commit", job[r])

CheckDisplayField(r) ==
  /\ At(r, "fields", {"update_table"})
  /\ \/ job[r].key \in KeysTaken(job[r].row) /\ Read(r, "commit", job[r])
     \/ job[r].key \notin KeysTaken(job[r].row) /\ Refuse(r)

(* The UPDATE, left out when the key is the one that was loaded; a table   *)
(* gone meanwhile is a StaleDataError.                                     *)
WriteTable(r) ==
  LET t == job[r].row
  IN  /\ At(r, "commit", {"update_table"})
      /\ display' = IF t \in tables /\ job[r].key # job[r].shown
                    THEN [display EXCEPT ![t] = job[r].key] ELSE display
      /\ UNCHANGED <<tables, fields, records, required, config, data, spent>>
      /\ End(r)

DeleteTable(r) ==
  \E t \in tables :
    Begin(r, "commit", [NoJob EXCEPT !.op = "delete_table", !.row = t])

(* The rows the ORM loaded and, by ON DELETE CASCADE, those it did not.    *)
DropTable(r) ==
  LET t == job[r].row
      mine == {i \in fields \cup records : TableOf[i] = t}
  IN  /\ At(r, "commit", {"delete_table"})
      /\ tables' = tables \ {t}
      /\ fields' = fields \ mine
      /\ records' = records \ mine
      /\ display' = [display EXCEPT ![t] = None]
      /\ required' = [f \in Fields |-> f \notin mine /\ required[f]]
      /\ config' = [f \in Fields |-> IF f \in mine THEN NoConfig ELSE config[f]]
      /\ data' = [x \in Records |-> IF x \in mine THEN NoData ELSE data[x]]
      /\ UNCHANGED spent
      /\ End(r)

-----------------------------------------------------------------------------
(* Fields.                                                                 *)

(* create_field: the table is loaded; a relation looks for its target.     *)
CreateField(r) ==
  \E f \in Fields, b \in Flags : \E c \in Configs[TypeOf[f]] :
    /\ Fresh(f)
    /\ TableOf[f] \in tables
    /\ WellFormed(TypeOf[f], c)
    /\ Begin(r, IF TypeOf[f] = "relation" THEN "target" ELSE "fields",
             [NoJob EXCEPT !.op = "create_field", !.row = f, !.required = b,
                           !.config = c, !.shown = display[TableOf[f]]])

(* update_field: of required and config, those that are not None.          *)
UpdateField(r) ==
  \E f \in fields, b \in Flags \cup {None} :
  \E c \in Configs[TypeOf[f]] \cup {None} :
    /\ b # None \/ c # None
    /\ c # None => WellFormed(TypeOf[f], c)
    /\ Begin(r, IF c # None THEN "table" ELSE "commit",
             [NoJob EXCEPT !.op = "update_field", !.row = f, !.required = b,
                           !.config = c, !.defs = {Definition(f)}])

(* get_table for the field's own table.                                    *)
LoadTable(r) ==
  LET f == job[r].row
      t == TableOf[f]
  IN  /\ At(r, "table", {"update_field", "delete_field"})
      /\ \/ /\ t \in tables
            /\ job[r].op = "update_field"
            /\ Read(r, IF TypeOf[f] = "relation" THEN "target" ELSE "commit",
                    job[r])
         \/ /\ t \in tables
            /\ job[r].op = "delete_field"
            /\ Read(r, "scan", [job[r] EXCEPT !.shown = display[t]])
         \/ t \notin tables /\ Refuse(r)

(* Mutant of CheckTarget: the target may be any table.                     *)
CheckTargetAnywhere(r) ==
  LET target == job[r].config.target
  IN  /\ At(r, "target", {"create_field", "update_field"})
      /\ \/ /\ target \in tables
            /\ Read(r, IF job[r].op = "create_field" THEN "fields"
                       ELSE "commit", job[r])
         \/ target \notin tables /\ Refuse(r)

(* A relation's target is a table of the same workspace.                   *)
CheckTarget(r) ==
  LET target == job[r].config.target
      fine == /\ target \in tables
              /\ WorkspaceOf[target] = WorkspaceOf[TableOf[job[r].row]]
  IN  /\ At(r, "target", {"create_field", "update_field"})
      /\ \/ /\ fine
            /\ Read(r, IF job[r].op = "create_field" THEN "fields"
                       ELSE "commit", job[r])
         \/ ~fine /\ Refuse(r)

(* The key is the one asked for, unless another field has it, or the one   *)
(* derived from the label.                                                 *)
NameField(r) ==
  LET f == job[r].row
      taken == KeysTaken(TableOf[f])
      derived == {UniqueIdentifier(label, taken, "_", "field") : label \in Labels}
  IN  /\ At(r, "fields", {"create_field"})
      /\ \/ /\ KeyOf[f] \notin taken \/ KeyOf[f] \in derived
            /\ Read(r, "commit", job[r])
         \/ KeyOf[f] \in taken /\ Refuse(r)

(* Mutant of InsertField: any text field becomes the display field.        *)
InsertFieldShows(r) ==
  LET f == job[r].row
      t == TableOf[f]
      fine == t \in tables /\ KeyOf[f] \notin KeysTaken(t)
      shows == TypeOf[f] \in {"text", "long_text"}
  IN  /\ At(r, "commit", {"create_field"})
      /\ \/ /\ fine
            /\ fields' = fields \cup {f} /\ spent' = spent \cup {f}
            /\ required' = [required EXCEPT ![f] = job[r].required]
            /\ config' = [config EXCEPT ![f] = job[r].config]
            /\ display' = IF shows THEN [display EXCEPT ![t] = KeyOf[f]]
                          ELSE display
            /\ UNCHANGED <<tables, records, data>>
            /\ End(r)
         \/ ~fine /\ Refuse(r)

(* The INSERT, unless the table is gone or the key taken by now; the first *)
(* text field of the table becomes its display field.                      *)
InsertField(r) ==
  LET f == job[r].row
      t == TableOf[f]
      fine == t \in tables /\ KeyOf[f] \notin KeysTaken(t)
      shows == job[r].shown = None /\ TypeOf[f] \in {"text", "long_text"}
  IN  /\ At(r, "commit", {"create_field"})
      /\ \/ /\ fine
            /\ fields' = fields \cup {f} /\ spent' = spent \cup {f}
            /\ required' = [required EXCEPT ![f] = job[r].required]
            /\ config' = [config EXCEPT ![f] = job[r].config]
            /\ display' = IF shows THEN [display EXCEPT ![t] = KeyOf[f]]
                          ELSE display
            /\ UNCHANGED <<tables, records, data>>
            /\ End(r)
         \/ ~fine /\ Refuse(r)

(* Mutant of Changed: an argument left out is taken for a NULL to write.   *)
ChangedNull(asked, loaded) == asked # loaded

(* An UPDATE of the columns that differ from the values loaded.            *)
Changed(asked, loaded) == asked # None /\ asked # loaded

WriteField(r) ==
  LET f == job[r].row
      loaded == CHOOSE d \in job[r].defs : TRUE
  IN  /\ At(r, "commit", {"update_field"})
      /\ required' =
           IF f \in fields /\ Changed(job[r].required, loaded.required)
           THEN [required EXCEPT ![f] = job[r].required] ELSE required
      /\ config' =
           IF f \in fields /\ Changed(job[r].config, loaded.config)
           THEN [config EXCEPT ![f] = job[r].config] ELSE config
      /\ UNCHANGED <<tables, fields, records, display, data, spent>>
      /\ End(r)

DeleteField(r) ==
  \E f \in fields :
    Begin(r, "table", [NoJob EXCEPT !.op = "delete_field", !.row = f])

RecordsOf(t) == {x \in records : TableOf[x] = t}

(* The SELECT of the table's records, after the field was flushed away.    *)
ScanRecords(r) ==
  LET found == RecordsOf(TableOf[job[r].row])
  IN  /\ At(r, "scan", {"delete_field"})
      /\ Read(r, "commit",
              [job[r] EXCEPT !.found =
                 [x \in Records |-> IF x \in found THEN data[x] ELSE None]])

(* Mutant of DropField: the key stays in the records.                     *)
DropFieldOnly(r) ==
  LET f == job[r].row
      t == TableOf[f]
  IN  /\ At(r, "commit", {"delete_field"})
      /\ fields' = fields \ {f}
      /\ required' = [required EXCEPT ![f] = FALSE]
      /\ config' = [config EXCEPT ![f] = NoConfig]
      /\ display' = IF job[r].shown = KeyOf[f]
                    THEN [display EXCEPT ![t] = None] ELSE display
      /\ UNCHANGED <<tables, records, data, spent>>
      /\ End(r)

Stripped(doc, k) == [doc EXCEPT ![k] = None]

(* The field, its key in every record that the SELECT found with it, and   *)
(* the display field.  Each of these records is written as a whole; one    *)
(* that is gone, or a table that is, undoes everything.                    *)
DropField(r) ==
  LET f == job[r].row
      t == TableOf[f]
      k == KeyOf[f]
      found == job[r].found
      holders == {x \in Records : found[x] # None /\ found[x][k] # None}
      shows == job[r].shown = k
      fine == holders \subseteq records /\ (shows => t \in tables)
  IN  /\ At(r, "commit", {"delete_field"})
      /\ \/ /\ fine
            /\ fields' = fields \ {f}
            /\ required' = [required EXCEPT ![f] = FALSE]
            /\ config' = [config EXCEPT ![f] = NoConfig]
            /\ data' = [x \in Records |->
                          IF x \in holders THEN Stripped(found[x], k)
                          ELSE data[x]]
            /\ display' = IF shows THEN [display EXCEPT ![t] = None]
                          ELSE display
            /\ UNCHANGED <<tables, records, spent>>
            /\ End(r)
         \/ ~fine /\ Refuse(r)

MetadataArrive(r) ==
  \/ CreateTable(r) \/ UpdateTable(r) \/ DeleteTable(r)
  \/ CreateField(r) \/ UpdateField(r) \/ DeleteField(r)

MetadataProceed(r) ==
  \/ InsertTable(r) \/ CheckDisplayField(r) \/ WriteTable(r) \/ DropTable(r)
  \/ LoadTable(r) \/ CheckTarget(r) \/ NameField(r) \/ InsertField(r)
  \/ WriteField(r) \/ ScanRecords(r) \/ DropField(r)
=============================================================================
