--------------------------- MODULE RecordsProofs ---------------------------
(* Theorems about Records, for any tables, fields, records, documents,     *)
(* configurations and slots.                                               *)
EXTENDS Records, TLAPS, FiniteSetTheorems, WellFoundedInduction,
        SequenceTheorems

-----------------------------------------------------------------------------
(* The inductive invariant.                                                *)

TableOps  == {"create_table", "update_table", "delete_table"}
FieldOps  == {"create_field", "update_field", "delete_field"}
RecordOps == {"create_record", "replace_record", "patch_record", "delete_record"}

(* The target of a relation was looked up by now.                          *)
Checked(at, j) ==
  \/ at \in {"fields", "commit"} /\ j.op = "create_field"
  \/ at = "commit" /\ j.op = "update_field"

(* A job names a row of the kind that its operation is about and has the   *)
(* arguments that the commit will write.                                   *)
Fit(at, j) ==
  /\ at # "idle" => j.op \in TableOps \cup FieldOps \cup RecordOps
  /\ j.op \in TableOps => j.row \in Tables
  /\ j.op \in FieldOps => j.row \in Fields
  /\ j.op \in RecordOps => j.row \in Records
  /\ j.op = "update_table" => j.key \in Keys
  /\ j.op = "create_field" => j.required \in BOOLEAN /\ j.config \in AllConfigs
  /\ Checked(at, j) /\ TypeOf[j.row] = "relation" /\ j.config # None =>
       WorkspaceOf[j.config.target] = WorkspaceOf[TableOf[j.row]]

JobsFit == \A r \in Slots : Fit(pc[r], job[r])

IInv ==
  TypeOK /\ RowsHaveTables /\ NamesAreUnique /\ RelationsStayHome /\ JobsFit

-----------------------------------------------------------------------------
(* Documents.                                                              *)

LEMMA NoDataTyped == NoData \in Documents
BY DEF NoData, Documents

LEMMA NoJobTyped == NoJob \in Jobs
BY NoDataTyped DEF NoJob, Jobs

LEMMA NoConfigTyped == NoConfig \in AllConfigs
BY DEF NoConfig, AllConfigs

(* Validation makes a document of a document.                              *)
LEMMA StoredTyped ==
  ASSUME NEW defs, NEW doc \in Documents
  PROVE  Stored(defs, doc) \in Documents
<1> SUFFICES ASSUME NEW k \in Keys, Given(doc, k), NEW type
             PROVE  Coerced(type, doc[k]) \in JsonValues
  BY DEF Stored, Documents
<1>1. doc[k] \in JsonValues
  BY DEF Given, Documents
<1> QED BY <1>1 DEF Coerced, JsonValues

LEMMA SubmittedTyped ==
  ASSUME NEW j \in Jobs
  PROVE  Submitted(j) \in Documents
BY DEF Submitted, Merge, Jobs, Documents

LEMMA PayloadTyped == \A p \in Payloads : p \in Documents
BY InputsAssumption

LEMMA ConfigTyped ==
  \A f \in Fields : \A c \in Configs[TypeOf[f]] : c \in AllConfigs
BY InputsAssumption, IdsAssumption

LEMMA DefinitionsTyped ==
  ASSUME TypeOK
  PROVE  \A f \in fields : Definition(f) \in AllDefinitions
BY DEF TypeOK, Definition, AllDefinitions

-----------------------------------------------------------------------------
(* Kinds of steps.                                                         *)

(* A request reads: whatever it notes in its job.                          *)
LEMMA Reads ==
  ASSUME IInv, NEW r \in Slots, NEW at \in Stages, NEW j \in Jobs, Fit(at, j),
         Read(r, at, j)
  PROVE  IInv'
<1>1. /\ pc' = [pc EXCEPT ![r] = at] /\ job' = [job EXCEPT ![r] = j]
      /\ UNCHANGED <<tables, fields, records, display, required, config, data>>
      /\ UNCHANGED <<spent, crossed>>
  BY DEF Read, rows
<1>2. TypeOK'
  BY <1>1 DEF IInv, TypeOK
<1>3. JobsFit'
  BY <1>1 DEF IInv, TypeOK, JobsFit
<1>4. RowsHaveTables' /\ NamesAreUnique' /\ RelationsStayHome'
  BY <1>1 DEF IInv, RowsHaveTables, NamesAreUnique, RelationsStayHome
<1> QED BY <1>2, <1>3, <1>4 DEF IInv

LEMMA Begins ==
  ASSUME IInv, NEW r \in Slots, NEW at \in Stages, NEW j \in Jobs, Fit(at, j),
         Begin(r, at, j)
  PROVE  IInv'
BY Reads DEF Begin, Read

(* The rows have values of their kinds.                                    *)
RowsTyped ==
  /\ tables \subseteq Tables \cap spent
  /\ fields \subseteq Fields \cap spent
  /\ records \subseteq Records \cap spent
  /\ spent \subseteq Tables \cup Fields \cup Records
  /\ display \in [Tables -> Keys \cup {None}]
  /\ required \in [Fields -> BOOLEAN]
  /\ config \in [Fields -> AllConfigs]
  /\ data \in [Records -> Documents]

(* A transaction ends: it leaves no job behind.                            *)
LEMMA Ends ==
  ASSUME IInv, NEW r \in Slots, End(r), RowsTyped',
         RowsHaveTables', NamesAreUnique', RelationsStayHome'
  PROVE  IInv'
<1>1. /\ pc' = [pc EXCEPT ![r] = "idle"] /\ job' = [job EXCEPT ![r] = NoJob]
      /\ crossed' \subseteq Slots
  BY DEF End
<1>2. TypeOK'
  BY <1>1, NoJobTyped DEF IInv, TypeOK, RowsTyped, Stages
<1>3. Fit("idle", NoJob)
  BY DEF Fit, NoJob, Checked, TableOps, FieldOps, RecordOps
<1>4. JobsFit'
  BY <1>1, <1>3 DEF IInv, TypeOK, JobsFit
<1> QED BY <1>2, <1>4 DEF IInv

LEMMA Refuses ==
  ASSUME IInv, NEW r \in Slots, Refuse(r)
  PROVE  IInv'
<1>1. /\ UNCHANGED <<tables, fields, records, display, required, config, data>>
      /\ UNCHANGED spent
      /\ End(r)
  BY DEF Refuse, rows
<1>2. RowsTyped'
  BY <1>1 DEF IInv, TypeOK, RowsTyped
<1>3. RowsHaveTables' /\ NamesAreUnique' /\ RelationsStayHome'
  BY <1>1 DEF IInv, RowsHaveTables, NamesAreUnique, RelationsStayHome
<1> QED BY <1>1, <1>2, <1>3, Ends

-----------------------------------------------------------------------------
(* Every action keeps the invariant: the requests on tables.               *)

LEMMA OpsTyped ==
  ASSUME IInv, NEW r \in Slots
  PROVE  /\ job[r] \in Jobs /\ Fit(pc[r], job[r])
         /\ job[r].op \in TableOps => job[r].row \in Tables
         /\ job[r].op \in FieldOps => job[r].row \in Fields
         /\ job[r].op \in RecordOps => job[r].row \in Records
BY DEF IInv, TypeOK, JobsFit, Fit

LEMMA InvTableArrive ==
  ASSUME IInv, NEW r \in Slots,
         CreateTable(r) \/ UpdateTable(r) \/ DeleteTable(r)
  PROVE  IInv'
<1>1. CASE CreateTable(r)
  <2>1. PICK t \in Tables :
          Begin(r, "commit", [NoJob EXCEPT !.op = "create_table", !.row = t])
    BY <1>1 DEF CreateTable
  <2>2. [NoJob EXCEPT !.op = "create_table", !.row = t] \in Jobs
    BY NoJobTyped DEF Jobs, Ops
  <2>3. Fit("commit", [NoJob EXCEPT !.op = "create_table", !.row = t])
    BY DEF NoJob, Fit, Checked, TableOps, FieldOps, RecordOps
  <2> QED BY <2>1, <2>2, <2>3, Begins DEF Stages
<1>2. CASE UpdateTable(r)
  <2>1. PICK t \in tables, k \in Keys :
          Begin(r, "fields", [NoJob EXCEPT !.op = "update_table", !.row = t,
                                           !.key = k, !.shown = display[t]])
    BY <1>2 DEF UpdateTable
  <2> DEFINE j == [NoJob EXCEPT !.op = "update_table", !.row = t,
                                !.key = k, !.shown = display[t]]
  <2>2. t \in Tables /\ display[t] \in Keys \cup {None}
    BY DEF IInv, TypeOK
  <2>3. j \in Jobs
    BY <2>2, NoJobTyped DEF Jobs, Ops
  <2>4. Fit("fields", j)
    BY <2>2 DEF NoJob, Fit, Checked, TableOps, FieldOps, RecordOps
  <2> QED BY <2>1, <2>3, <2>4, Begins DEF Stages
<1>3. CASE DeleteTable(r)
  <2>1. PICK t \in tables :
          Begin(r, "commit", [NoJob EXCEPT !.op = "delete_table", !.row = t])
    BY <1>3 DEF DeleteTable
  <2>2. t \in Tables
    BY DEF IInv, TypeOK
  <2>3. [NoJob EXCEPT !.op = "delete_table", !.row = t] \in Jobs
    BY <2>2, NoJobTyped DEF Jobs, Ops
  <2>4. Fit("commit", [NoJob EXCEPT !.op = "delete_table", !.row = t])
    BY <2>2 DEF NoJob, Fit, Checked, TableOps, FieldOps, RecordOps
  <2> QED BY <2>1, <2>3, <2>4, Begins DEF Stages
<1> QED BY <1>1, <1>2, <1>3

LEMMA InvInsertTable ==
  ASSUME IInv, NEW r \in Slots, InsertTable(r)
  PROVE  IInv'
<1> DEFINE t == job[r].row
<1>1. t \in Tables
  BY OpsTyped DEF InsertTable, At, TableOps
<1>2. CASE /\ SlugOf[t] \notin SlugsOf(WorkspaceOf[t])
           /\ tables' = tables \cup {t} /\ spent' = spent \cup {t}
           /\ UNCHANGED <<fields, records, display, required, config, data>>
           /\ End(r)
  <2>1. RowsTyped'
    BY <1>1, <1>2 DEF IInv, TypeOK, RowsTyped
  <2>2. RowsHaveTables' /\ RelationsStayHome'
    BY <1>2 DEF IInv, RowsHaveTables, RelationsStayHome
  <2>3. NamesAreUnique'
    BY <1>2 DEF IInv, NamesAreUnique, SlugsOf
  <2> QED BY <1>2, <2>1, <2>2, <2>3, Ends
<1>3. CASE Refuse(r)
  BY <1>3, Refuses
<1> QED BY <1>2, <1>3 DEF InsertTable

LEMMA InvTableProceed ==
  ASSUME IInv, NEW r \in Slots, CheckDisplayField(r) \/ WriteTable(r)
  PROVE  IInv'
<1>1. CASE CheckDisplayField(r)
  <2>1. CASE Read(r, "commit", job[r]) /\ job[r].op = "update_table"
    <3>1. Fit("commit", job[r])
      BY <2>1, OpsTyped DEF Fit, Checked, TableOps
    <3> QED BY <2>1, <3>1, OpsTyped, Reads DEF Stages
  <2> QED BY <1>1, <2>1, Refuses DEF CheckDisplayField, At
<1>2. CASE WriteTable(r)
  <2>1. /\ UNCHANGED <<tables, fields, records, required, config, data>>
        /\ UNCHANGED spent
        /\ End(r)
    BY <1>2 DEF WriteTable
  <2>2. job[r].key \in Keys
    BY <1>2, OpsTyped DEF WriteTable, At, Fit
  <2>3. display' \in [Tables -> Keys \cup {None}]
    BY <1>2, <2>2 DEF WriteTable, IInv, TypeOK
  <2>4. RowsTyped'
    BY <2>1, <2>3 DEF IInv, TypeOK, RowsTyped
  <2>5. RowsHaveTables' /\ NamesAreUnique' /\ RelationsStayHome'
    BY <2>1 DEF IInv, RowsHaveTables, NamesAreUnique, RelationsStayHome
  <2> QED BY <2>1, <2>4, <2>5, Ends
<1> QED BY <1>1, <1>2

LEMMA InvDropTable ==
  ASSUME IInv, NEW r \in Slots, DropTable(r)
  PROVE  IInv'
<1> DEFINE t == job[r].row
           mine == {i \in fields \cup records : TableOf[i] = t}
<1>1. /\ tables' = tables \ {t} /\ fields' = fields \ mine
      /\ records' = records \ mine /\ UNCHANGED spent
      /\ End(r)
  BY DEF DropTable
<1>2. display' \in [Tables -> Keys \cup {None}]
  BY DEF DropTable, IInv, TypeOK
<1>3. required' \in [Fields -> BOOLEAN]
  BY DEF DropTable, IInv, TypeOK
<1>4. config' \in [Fields -> AllConfigs]
  BY NoConfigTyped DEF DropTable, IInv, TypeOK
<1>5. data' \in [Records -> Documents]
  BY NoDataTyped DEF DropTable, IInv, TypeOK
<1>6. RowsTyped'
  BY <1>1, <1>2, <1>3, <1>4, <1>5 DEF IInv, TypeOK, RowsTyped
<1>7. RowsHaveTables'
  BY <1>1 DEF IInv, RowsHaveTables
<1>8. NamesAreUnique'
  BY <1>1 DEF IInv, NamesAreUnique
<1>9. RelationsStayHome'
  <2>1. \A f \in fields' : f \in fields /\ config'[f] = config[f]
    BY <1>1 DEF DropTable, IInv, TypeOK
  <2> QED BY <2>1 DEF IInv, RelationsStayHome
<1> QED BY <1>1, <1>6, <1>7, <1>8, <1>9, Ends

-----------------------------------------------------------------------------
(* The requests on fields.                                                 *)

LEMMA InvCreateField ==
  ASSUME IInv, NEW r \in Slots, CreateField(r)
  PROVE  IInv'
<1>1. PICK f \in Fields, b \in Flags : \E c \in Configs[TypeOf[f]] :
        /\ TableOf[f] \in tables
        /\ Begin(r, IF TypeOf[f] = "relation" THEN "target" ELSE "fields",
                 [NoJob EXCEPT !.op = "create_field", !.row = f, !.required = b,
                               !.config = c, !.shown = display[TableOf[f]]])
  BY DEF CreateField
<1>2. PICK c \in Configs[TypeOf[f]] :
        /\ TableOf[f] \in tables
        /\ Begin(r, IF TypeOf[f] = "relation" THEN "target" ELSE "fields",
                 [NoJob EXCEPT !.op = "create_field", !.row = f, !.required = b,
                               !.config = c, !.shown = display[TableOf[f]]])
  BY <1>1
<1> DEFINE at == IF TypeOf[f] = "relation" THEN "target" ELSE "fields"
           j == [NoJob EXCEPT !.op = "create_field", !.row = f, !.required = b,
                              !.config = c, !.shown = display[TableOf[f]]]
<1>3. /\ c \in AllConfigs /\ b \in BOOLEAN
      /\ display[TableOf[f]] \in Keys \cup {None}
  BY <1>2, ConfigTyped, InputsAssumption DEF IInv, TypeOK
<1>4. j \in Jobs
  BY <1>3, NoJobTyped DEF Jobs, Ops
<1>5. Fit(at, j)
  BY <1>3 DEF NoJob, Fit, Checked, TableOps, FieldOps, RecordOps
<1> QED BY <1>2, <1>4, <1>5, Begins DEF Stages

LEMMA InvUpdateField ==
  ASSUME IInv, NEW r \in Slots, UpdateField(r)
  PROVE  IInv'
<1>1. PICK f \in fields, b \in Flags \cup {None} :
        \E c \in Configs[TypeOf[f]] \cup {None} :
          Begin(r, IF c # None THEN "table" ELSE "commit",
                [NoJob EXCEPT !.op = "update_field", !.row = f, !.required = b,
                              !.config = c, !.defs = {Definition(f)}])
  BY DEF UpdateField
<1>2. PICK c \in Configs[TypeOf[f]] \cup {None} :
        Begin(r, IF c # None THEN "table" ELSE "commit",
              [NoJob EXCEPT !.op = "update_field", !.row = f, !.required = b,
                            !.config = c, !.defs = {Definition(f)}])
  BY <1>1
<1> DEFINE at == IF c # None THEN "table" ELSE "commit"
           j == [NoJob EXCEPT !.op = "update_field", !.row = f, !.required = b,
                              !.config = c, !.defs = {Definition(f)}]
<1>3. f \in Fields
  BY DEF IInv, TypeOK
<1>4. /\ c \in AllConfigs \cup {None} /\ b \in BOOLEAN \cup {None}
      /\ {Definition(f)} \in SUBSET AllDefinitions
  BY <1>3, ConfigTyped, InputsAssumption, DefinitionsTyped DEF IInv
<1>5. j \in Jobs
  BY <1>3, <1>4, NoJobTyped DEF Jobs, Ops
<1>6. Fit(at, j)
  BY <1>3 DEF NoJob, Fit, Checked, TableOps, FieldOps, RecordOps
<1> QED BY <1>2, <1>5, <1>6, Begins DEF Stages

LEMMA InvDeleteField ==
  ASSUME IInv, NEW r \in Slots, DeleteField(r)
  PROVE  IInv'
<1>1. PICK f \in fields :
        Begin(r, "table", [NoJob EXCEPT !.op = "delete_field", !.row = f])
  BY DEF DeleteField
<1>2. f \in Fields
  BY DEF IInv, TypeOK
<1>3. [NoJob EXCEPT !.op = "delete_field", !.row = f] \in Jobs
  BY <1>2, NoJobTyped DEF Jobs, Ops
<1>4. Fit("table", [NoJob EXCEPT !.op = "delete_field", !.row = f])
  BY <1>2 DEF NoJob, Fit, Checked, TableOps, FieldOps, RecordOps
<1> QED BY <1>1, <1>3, <1>4, Begins DEF Stages

LEMMA InvFieldReads ==
  ASSUME IInv, NEW r \in Slots,
         LoadTable(r) \/ CheckTarget(r) \/ NameField(r) \/ ScanRecords(r)
  PROVE  IInv'
<1> DEFINE j == job[r]
           f == j.row
<1>1. j \in Jobs /\ Fit(pc[r], j)
  BY OpsTyped
<1>2. CASE LoadTable(r)
  <2>1. CASE /\ j.op = "update_field"
             /\ Read(r, IF TypeOf[f] = "relation" THEN "target" ELSE "commit", j)
    <3>1. Fit(IF TypeOf[f] = "relation" THEN "target" ELSE "commit", j)
      BY <1>1, <2>1 DEF Fit, Checked, FieldOps
    <3> QED BY <1>1, <2>1, <3>1, Reads DEF Stages
  <2>2. CASE /\ j.op = "delete_field"
             /\ TableOf[f] \in tables
             /\ Read(r, "scan", [j EXCEPT !.shown = display[TableOf[f]]])
    <3>1. display[TableOf[f]] \in Keys \cup {None}
      BY <2>2 DEF IInv, TypeOK
    <3>2. [j EXCEPT !.shown = display[TableOf[f]]] \in Jobs
      BY <1>1, <3>1 DEF Jobs
    <3>3. Fit("scan", [j EXCEPT !.shown = display[TableOf[f]]])
      BY <1>1, <2>2 DEF Fit, Checked, FieldOps, TableOps, RecordOps, Jobs
    <3> QED BY <2>2, <3>2, <3>3, Reads DEF Stages
  <2>3. CASE Refuse(r)
    BY <2>3, Refuses
  <2> QED BY <1>2, <2>1, <2>2, <2>3 DEF LoadTable
<1>3. CASE CheckTarget(r)
  <2>1. CASE /\ At(r, "target", {"create_field", "update_field"})
             /\ WorkspaceOf[j.config.target] = WorkspaceOf[TableOf[f]]
             /\ Read(r, IF j.op = "create_field" THEN "fields" ELSE "commit", j)
    <3>1. Fit(IF j.op = "create_field" THEN "fields" ELSE "commit", j)
      BY <1>1, <2>1 DEF Fit, Checked, FieldOps, At
    <3> QED BY <1>1, <2>1, <3>1, Reads DEF Stages
  <2>2. CASE Refuse(r)
    BY <2>2, Refuses
  <2> QED BY <1>3, <2>1, <2>2 DEF CheckTarget
<1>4. CASE NameField(r)
  <2>1. CASE At(r, "fields", {"create_field"}) /\ Read(r, "commit", j)
    <3>1. Fit("commit", j)
      BY <1>1, <2>1 DEF Fit, Checked, FieldOps, At
    <3> QED BY <1>1, <2>1, <3>1, Reads DEF Stages
  <2>2. CASE Refuse(r)
    BY <2>2, Refuses
  <2> QED BY <1>4, <2>1, <2>2 DEF NameField
<1>5. CASE ScanRecords(r)
  <2> DEFINE found == [x \in Records |->
                         IF x \in RecordsOf(TableOf[f]) THEN data[x] ELSE None]
  <2>1. At(r, "scan", {"delete_field"}) /\ Read(r, "commit", [j EXCEPT !.found = found])
    BY <1>5 DEF ScanRecords
  <2>2. found \in [Records -> Documents \cup {None}]
    BY DEF IInv, TypeOK
  <2>3. [j EXCEPT !.found = found] \in Jobs
    BY <1>1, <2>2 DEF Jobs
  <2>4. Fit("commit", [j EXCEPT !.found = found])
    BY <1>1, <2>1 DEF Fit, Checked, FieldOps, TableOps, RecordOps, Jobs, At
  <2> QED BY <2>1, <2>3, <2>4, Reads DEF Stages
<1> QED BY <1>2, <1>3, <1>4, <1>5

LEMMA InvInsertField ==
  ASSUME IInv, NEW r \in Slots, InsertField(r)
  PROVE  IInv'
<1> DEFINE f == job[r].row
           t == TableOf[f]
<1>1. /\ f \in Fields /\ job[r].required \in BOOLEAN
      /\ job[r].config \in AllConfigs
      /\ TypeOf[f] = "relation" =>
           WorkspaceOf[job[r].config.target] = WorkspaceOf[t]
  BY OpsTyped, NoneAssumption DEF InsertField, At, FieldOps, Fit, Checked
<1>2. CASE /\ t \in tables /\ KeyOf[f] \notin KeysTaken(t)
           /\ fields' = fields \cup {f} /\ spent' = spent \cup {f}
           /\ required' = [required EXCEPT ![f] = job[r].required]
           /\ config' = [config EXCEPT ![f] = job[r].config]
           /\ display' = IF job[r].shown = None
                             /\ TypeOf[f] \in {"text", "long_text"}
                         THEN [display EXCEPT ![t] = KeyOf[f]] ELSE display
           /\ UNCHANGED <<tables, records, data>>
           /\ End(r)
  <2>1. display' \in [Tables -> Keys \cup {None}]
    BY <1>1, <1>2, IdsAssumption DEF IInv, TypeOK
  <2>2. RowsTyped'
    BY <1>1, <1>2, <2>1 DEF IInv, TypeOK, RowsTyped
  <2>3. RowsHaveTables'
    BY <1>2 DEF IInv, RowsHaveTables
  <2>4. NamesAreUnique'
    BY <1>2 DEF IInv, NamesAreUnique, KeysTaken, FieldsOf
  <2>5. RelationsStayHome'
    BY <1>1, <1>2 DEF IInv, RelationsStayHome, TypeOK
  <2> QED BY <1>2, <2>2, <2>3, <2>4, <2>5, Ends
<1>3. CASE Refuse(r)
  BY <1>3, Refuses
<1> QED BY <1>2, <1>3 DEF InsertField

LEMMA InvWriteField ==
  ASSUME IInv, NEW r \in Slots, WriteField(r)
  PROVE  IInv'
<1> DEFINE f == job[r].row
           loaded == CHOOSE d \in job[r].defs : TRUE
<1>1. /\ f \in Fields
      /\ job[r].required \in BOOLEAN \cup {None}
      /\ job[r].config \in AllConfigs \cup {None}
      /\ TypeOf[f] = "relation" /\ job[r].config # None =>
           WorkspaceOf[job[r].config.target] = WorkspaceOf[TableOf[f]]
  BY OpsTyped DEF WriteField, At, FieldOps, Fit, Checked, Jobs
<1>2. /\ UNCHANGED <<tables, fields, records, display, data, spent>>
      /\ End(r)
  BY DEF WriteField
<1>3. required' \in [Fields -> BOOLEAN]
  BY <1>1 DEF WriteField, Changed, IInv, TypeOK
<1>4. config' \in [Fields -> AllConfigs]
  BY <1>1 DEF WriteField, Changed, IInv, TypeOK
<1>5. RowsTyped'
  BY <1>2, <1>3, <1>4 DEF IInv, TypeOK, RowsTyped
<1>6. RowsHaveTables' /\ NamesAreUnique'
  BY <1>2 DEF IInv, RowsHaveTables, NamesAreUnique
<1>7. RelationsStayHome'
  <2>1. \A g \in fields : config'[g] = config[g]
          \/ (g = f /\ job[r].config # None /\ config'[g] = job[r].config)
    BY <1>1 DEF WriteField, Changed, IInv, TypeOK
  <2> QED BY <1>1, <1>2, <2>1 DEF IInv, RelationsStayHome
<1> QED BY <1>2, <1>5, <1>6, <1>7, Ends

LEMMA StrippedTyped ==
  ASSUME NEW doc \in Documents, NEW k \in Keys
  PROVE  Stripped(doc, k) \in Documents
BY DEF Stripped, Documents

LEMMA InvDropField ==
  ASSUME IInv, NEW r \in Slots, DropField(r)
  PROVE  IInv'
<1> DEFINE f == job[r].row
           t == TableOf[f]
           k == KeyOf[f]
           found == job[r].found
           holders == {x \in Records : found[x] # None /\ found[x][k] # None}
<1>1. /\ f \in Fields /\ k \in Keys /\ t \in Tables
      /\ found \in [Records -> Documents \cup {None}]
  BY OpsTyped, IdsAssumption DEF DropField, At, FieldOps, Fit, Jobs
<1>2. CASE /\ fields' = fields \ {f}
           /\ required' = [required EXCEPT ![f] = FALSE]
           /\ config' = [config EXCEPT ![f] = NoConfig]
           /\ data' = [x \in Records |->
                         IF x \in holders THEN Stripped(found[x], k)
                         ELSE data[x]]
           /\ display' = IF job[r].shown = k THEN [display EXCEPT ![t] = None]
                         ELSE display
           /\ UNCHANGED <<tables, records, spent>>
           /\ End(r)
  <2>1. data' \in [Records -> Documents]
    <3>1. \A x \in holders : Stripped(found[x], k) \in Documents
      BY <1>1, StrippedTyped
    <3> HIDE DEF holders
    <3> QED BY <1>2, <3>1 DEF IInv, TypeOK
  <2>2. display' \in [Tables -> Keys \cup {None}]
    BY <1>1, <1>2 DEF IInv, TypeOK
  <2>3. RowsTyped'
    BY <1>1, <1>2, <2>1, <2>2, NoConfigTyped DEF IInv, TypeOK, RowsTyped
  <2>4. RowsHaveTables' /\ NamesAreUnique'
    BY <1>2 DEF IInv, RowsHaveTables, NamesAreUnique
  <2>5. RelationsStayHome'
    BY <1>1, <1>2 DEF IInv, RelationsStayHome, TypeOK
  <2> QED BY <1>2, <2>3, <2>4, <2>5, Ends
<1>3. CASE Refuse(r)
  BY <1>3, Refuses
<1> QED BY <1>2, <1>3 DEF DropField

-----------------------------------------------------------------------------
(* The requests on records.                                                *)

LEMMA InvRecordArrive ==
  ASSUME IInv, NEW r \in Slots, RecordArrive(r)
  PROVE  IInv'
<1>1. CASE CreateRecord(r)
  <2>1. PICK x \in Records, p \in Payloads :
          Begin(r, "fields",
                [NoJob EXCEPT !.op = "create_record", !.row = x, !.payload = p])
    BY <1>1 DEF CreateRecord
  <2> DEFINE j == [NoJob EXCEPT !.op = "create_record", !.row = x, !.payload = p]
  <2>2. j \in Jobs
    BY PayloadTyped, NoJobTyped DEF Jobs, Ops
  <2>3. Fit("fields", j)
    BY DEF NoJob, Fit, Checked, TableOps, FieldOps, RecordOps
  <2> QED BY <2>1, <2>2, <2>3, Begins DEF Stages
<1>2. CASE ReplaceRecord(r) \/ PatchRecord(r)
  <2>1. PICK op \in {"replace_record", "patch_record"}, x \in records,
             p \in Payloads :
          Begin(r, "fields", [NoJob EXCEPT !.op = op, !.row = x,
                                           !.payload = p, !.doc = data[x]])
    BY <1>2 DEF ReplaceRecord, PatchRecord
  <2> DEFINE j == [NoJob EXCEPT !.op = op, !.row = x,
                                !.payload = p, !.doc = data[x]]
  <2>2. x \in Records /\ data[x] \in Documents
    BY DEF IInv, TypeOK
  <2>3. j \in Jobs
    BY <2>2, PayloadTyped, NoJobTyped DEF Jobs, Ops
  <2>4. Fit("fields", j)
    BY <2>2 DEF NoJob, Fit, Checked, TableOps, FieldOps, RecordOps
  <2> QED BY <2>1, <2>3, <2>4, Begins DEF Stages
<1>3. CASE DeleteRecord(r)
  <2>1. PICK x \in records :
          Begin(r, "relations", [NoJob EXCEPT !.op = "delete_record", !.row = x,
                                              !.doc = data[x]])
    BY <1>3 DEF DeleteRecord
  <2> DEFINE j == [NoJob EXCEPT !.op = "delete_record", !.row = x,
                                !.doc = data[x]]
  <2>2. x \in Records /\ data[x] \in Documents
    BY DEF IInv, TypeOK
  <2>3. j \in Jobs
    BY <2>2, NoJobTyped DEF Jobs, Ops
  <2>4. Fit("relations", j)
    BY <2>2 DEF NoJob, Fit, Checked, TableOps, FieldOps, RecordOps
  <2> QED BY <2>1, <2>3, <2>4, Begins DEF Stages
<1> QED BY <1>1, <1>2, <1>3 DEF RecordArrive

(* A request on a record reads definitions.                                *)
LEMMA ReadsDefinitions ==
  ASSUME IInv, NEW r \in Slots, NEW at \in {"related", "dependents"},
         job[r].op \in RecordOps,
         NEW defs \in SUBSET AllDefinitions,
         Read(r, at, [job[r] EXCEPT !.defs = defs])
  PROVE  IInv'
<1>1. job[r] \in Jobs /\ Fit(pc[r], job[r])
  BY OpsTyped
<1>2. [job[r] EXCEPT !.defs = defs] \in Jobs
  BY <1>1 DEF Jobs
<1>3. Fit(at, [job[r] EXCEPT !.defs = defs])
  BY <1>1 DEF Fit, Checked, FieldOps, TableOps, RecordOps, Jobs
<1> QED BY <1>2, <1>3, Reads DEF Stages

LEMMA InvRecordReads ==
  ASSUME IInv, NEW r \in Slots,
         LoadFields(r) \/ Validate(r) \/ LoadRelations(r) \/ ScanDependents(r)
  PROVE  IInv'
<1>1. job[r] \in Jobs /\ Fit(pc[r], job[r])
  BY OpsTyped
<1>2. CASE LoadFields(r)
  <2>1. Definitions(TableOf[job[r].row]) \in SUBSET AllDefinitions
    BY DefinitionsTyped DEF IInv, Definitions, FieldsOf
  <2> QED BY <1>2, <2>1, ReadsDefinitions, Refuses
          DEF LoadFields, At, Writes, RecordOps
<1>3. CASE Validate(r)
  <2>1. CASE Read(r, "commit", job[r]) /\ At(r, "related", Writes)
    <3>1. Fit("commit", job[r])
      BY <1>1, <2>1 DEF Fit, Checked, RecordOps, Writes, At
    <3> QED BY <1>1, <2>1, <3>1, Reads DEF Stages
  <2> QED BY <1>3, <2>1, Refuses DEF Validate
<1>4. CASE LoadRelations(r)
  <2>1. {Definition(f) : f \in fields} \in SUBSET AllDefinitions
    BY DefinitionsTyped DEF IInv
  <2> DEFINE guards(d) == /\ TypeOf[d.field] = "relation"
                          /\ d.config.target = TableOf[job[r].row]
                          /\ d.config.plain
             defs == {d \in {Definition(f) : f \in fields} : guards(d)}
  <2>2. defs \in SUBSET AllDefinitions
    BY <2>1
  <2>3. /\ job[r].op \in RecordOps
        /\ Read(r, "dependents", [job[r] EXCEPT !.defs = defs])
    BY <1>4 DEF LoadRelations, At, RecordOps
  <2> HIDE DEF defs
  <2> QED BY <2>2, <2>3, ReadsDefinitions
<1>5. CASE ScanDependents(r)
  <2>1. CASE \E d \in job[r].defs :
               Read(r, "dependents", [job[r] EXCEPT !.defs = @ \ {d}])
    <3>1. PICK d \in job[r].defs :
            Read(r, "dependents", [job[r] EXCEPT !.defs = job[r].defs \ {d}])
      BY <2>1
    <3>2. job[r].defs \ {d} \in SUBSET AllDefinitions
      BY <1>1 DEF Jobs
    <3> QED BY <1>5, <3>1, <3>2, ReadsDefinitions
            DEF ScanDependents, At, RecordOps
  <2> QED BY <1>5, <2>1, Refuses DEF ScanDependents
<1> QED BY <1>2, <1>3, <1>4, <1>5

LEMMA InvInsertRecord ==
  ASSUME IInv, NEW r \in Slots, InsertRecord(r)
  PROVE  IInv'
<1> DEFINE x == job[r].row
           doc == Stored(job[r].defs, Submitted(job[r]))
<1>1. x \in Records /\ doc \in Documents
  BY OpsTyped, SubmittedTyped, StoredTyped DEF InsertRecord, At, RecordOps
<1>2. CASE /\ TableOf[x] \in tables
           /\ records' = records \cup {x} /\ spent' = spent \cup {x}
           /\ data' = [data EXCEPT ![x] = doc]
           /\ UNCHANGED <<tables, fields, display, required, config>>
           /\ End(r)
  <2>1. RowsTyped'
    BY <1>1, <1>2 DEF IInv, TypeOK, RowsTyped
  <2>2. RowsHaveTables' /\ NamesAreUnique' /\ RelationsStayHome'
    BY <1>2 DEF IInv, RowsHaveTables, NamesAreUnique, RelationsStayHome
  <2> QED BY <1>2, <2>1, <2>2, Ends
<1>3. CASE Refuse(r)
  BY <1>3, Refuses
<1> QED BY <1>2, <1>3 DEF InsertRecord

LEMMA InvWriteRecord ==
  ASSUME IInv, NEW r \in Slots, WriteRecord(r) \/ DropRecord(r)
  PROVE  IInv'
<1> DEFINE doc == Stored(job[r].defs, Submitted(job[r]))
<1>1. doc \in Documents
  BY OpsTyped, SubmittedTyped, StoredTyped
<1>2. /\ UNCHANGED <<tables, fields, display, required, config, spent>>
      /\ End(r) /\ records' \subseteq records
  BY DEF WriteRecord, DropRecord
<1>3. data' \in [Records -> Documents]
  BY <1>1, NoDataTyped DEF WriteRecord, DropRecord, IInv, TypeOK
<1>4. RowsTyped'
  BY <1>2, <1>3 DEF IInv, TypeOK, RowsTyped
<1>5. RowsHaveTables' /\ NamesAreUnique' /\ RelationsStayHome'
  BY <1>2 DEF IInv, RowsHaveTables, NamesAreUnique, RelationsStayHome
<1> QED BY <1>2, <1>4, <1>5, Ends

-----------------------------------------------------------------------------
(* The invariant holds, and with it what it is made of.                    *)

LEMMA InvInit == Init => IInv
<1> SUFFICES ASSUME Init PROVE IInv
  OBVIOUS
<1>1. \A t \in Tables : display[t] \in Keys \cup {None}
  BY InputsAssumption DEF Init
<1>2. \A f \in Fields : required[f] \in BOOLEAN /\ config[f] \in AllConfigs
  <2> TAKE f \in Fields
  <2>1. required[f] \in BOOLEAN
    <3>1. required \in [Fields -> Flags \cup {FALSE}]
      BY DEF Init
    <3>2. Flags \cup {FALSE} \subseteq BOOLEAN
      BY InputsAssumption
    <3> HIDE DEF Init
    <3> QED BY <3>1, <3>2, Zenon
  <2>2. f \in Preset => config[f] \in Configs[TypeOf[f]]
    BY DEF Init
  <2>3. f \notin Preset => config[f] = NoConfig
    BY DEF Init
  <2> QED BY <2>1, <2>2, <2>3, ConfigTyped, NoConfigTyped
<1>3. TypeOK
  BY <1>1, <1>2, PresetAssumption, NoJobTyped, NoDataTyped
     DEF Init, TypeOK, Stages
<1>4. RowsHaveTables /\ NamesAreUnique
  BY PresetAssumption, IdsAssumption DEF Init, RowsHaveTables, NamesAreUnique
<1>5. RelationsStayHome
  BY DEF Init, RelationsStayHome, Definable
<1>6. JobsFit
  BY DEF Init, JobsFit, Fit, NoJob, Checked, TableOps, FieldOps, RecordOps
<1> QED BY <1>3, <1>4, <1>5, <1>6 DEF IInv

LEMMA InvNext == IInv /\ [Next]_vars => IInv'
<1> SUFFICES ASSUME IInv, [Next]_vars PROVE IInv'
  OBVIOUS
<1>1. ASSUME NEW r \in Slots, MetadataArrive(r) PROVE IInv'
  BY <1>1, InvTableArrive, InvCreateField, InvUpdateField, InvDeleteField
     DEF MetadataArrive
<1>2. ASSUME NEW r \in Slots, MetadataProceed(r) PROVE IInv'
  BY <1>2, InvInsertTable, InvTableProceed, InvDropTable, InvFieldReads,
     InvInsertField, InvWriteField, InvDropField DEF MetadataProceed
<1>3. ASSUME NEW r \in Slots, RecordProceed(r) PROVE IInv'
  BY <1>3, InvRecordReads, InvInsertRecord, InvWriteRecord DEF RecordProceed
<1>4. ASSUME NEW r \in Slots, Fail(r) PROVE IInv'
  BY <1>4, Refuses DEF Fail
<1>5. CASE UNCHANGED vars
  <2>1. /\ UNCHANGED <<tables, fields, records, display, required, config, data>>
        /\ UNCHANGED <<spent, pc, job, crossed>>
    BY <1>5 DEF vars, rows
  <2> QED BY <2>1 DEF IInv, TypeOK, RowsHaveTables, NamesAreUnique,
                      RelationsStayHome, JobsFit
<1> QED BY <1>1, <1>2, <1>3, <1>4, <1>5, InvRecordArrive DEF Next

LEMMA Invariant == Spec => []IInv
BY InvInit, InvNext, PTL DEF Spec

(* Every variable of the metadata engine holds a value of its kind,        *)
(* whatever documents and configurations the requests bring.               *)
THEOREM Typing == Spec => []TypeOK
BY Invariant, PTL DEF IInv

(* No field and no record outlives its table, however inserts race with    *)
(* delete_table.                                                           *)
THEOREM TablesOfRows == Spec => []RowsHaveTables
BY Invariant, PTL DEF IInv

(* Two creations that chose the same slug or key do not both succeed.      *)
THEOREM UniqueNames == Spec => []NamesAreUnique
BY Invariant, PTL DEF IInv

(* create_field and update_field keep every relation in its workspace,     *)
(* though both look for the target in an earlier statement.                *)
THEOREM RelationsAtHome == Spec => []RelationsStayHome
BY Invariant, PTL DEF IInv
-----------------------------------------------------------------------------
(* Names.  The letters are any set S that has the digits.                  *)

(* What is not empty has a least number.                                   *)
LEMMA Least ==
  ASSUME NEW S, S \subseteq Nat, S # {}
  PROVE  \E n \in S : \A m \in S : n <= m
<1> DEFINE R == OpToRel(<, Nat)
<1>1. IsWellFoundedOn(R, Nat)
  BY NatLessThanWellFounded
<1>2. PICK n \in S : \A m \in S : <<m, n>> \notin R
  <2> HIDE DEF R
  <2> QED BY <1>1, WFMin
<1>3. \A m \in S : m < n => <<m, n>> \in R
  BY DEF OpToRel
<1> HIDE DEF R
<1>4. \A m \in S : ~(m < n)
  BY <1>2, <1>3
<1>5. \A m \in S : n <= m
  <2> SUFFICES ASSUME NEW m \in S PROVE n <= m
    OBVIOUS
  <2>1. m \in Nat /\ n \in Nat /\ ~(m < n)
    BY <1>4
  <2> QED BY <2>1
<1> QED BY <1>5

(* A number is a sequence of digits.                                       *)
LEMMA Numerals ==
  ASSUME NEW S, Digits \subseteq S, NEW n \in 1 .. MaxIndex
  PROVE  /\ Numeral[n] \in Seq(S) /\ Len(Numeral[n]) \in Nat
         /\ Len(Numeral[n]) + 2 <= MaxLength
         /\ \A i \in 1 .. Len(Numeral[n]) : Numeral[n][i] \in Digits
<1> DEFINE d == Numeral[n]
<1>1. d \in Seq(Digits) /\ Len(d) + 2 <= MaxLength
  BY NumbersAssumption
<1> HIDE DEF d
<1>2. d \in Seq(S) /\ Len(d) \in Nat
  BY <1>1, SeqMonotonic, LenProperties
<1>3. \A i \in 1 .. Len(d) : d[i] \in Digits
  BY <1>1, ElementOfSeq
<1> QED BY <1>1, <1>2, <1>3 DEF d

(* What ends in a separator and a number.                                  *)
Ending(base, separator, n) == base \o (<<separator>> \o Numeral[n])

(* In x there is a separator at p, and the digits of d after it.           *)
EndsAt(x, p, separator, d) ==
  /\ Len(x) = p + Len(d)
  /\ x[p] = separator
  /\ \A i \in 1 .. Len(d) : x[p + i] = d[i]

LEMMA Endings ==
  ASSUME NEW S, Digits \subseteq S, NEW base \in Seq(S),
         NEW separator \in S \ Digits, NEW n \in 1 .. MaxIndex
  PROVE  /\ Ending(base, separator, n) \in Seq(S)
         /\ Len(base) \in Nat
         /\ EndsAt(Ending(base, separator, n), Len(base) + 1, separator,
                   Numeral[n])
<1> DEFINE d == Numeral[n]
           s == <<separator>> \o d
           x == base \o s
<1>1. Len(base) \in Nat
  OBVIOUS
<1>2. d \in Seq(S) /\ Len(d) \in Nat
  BY Numerals
<1>3. /\ s \in Seq(S) /\ Len(s) = 1 + Len(d)
      /\ s[1] = separator /\ \A i \in 1 .. Len(d) : s[i + 1] = d[i]
  <2> HIDE DEF d
  <2>1. /\ <<separator>> \in Seq(S) /\ Len(<<separator>>) = 1
        /\ <<separator>>[1] = separator
    OBVIOUS
  <2>2. \A i \in 1 .. 1 + Len(d) :
          s[i] = IF i <= 1 THEN <<separator>>[i] ELSE d[i - 1]
    BY <1>2, <2>1, ConcatProperties
  <2>3. s \in Seq(S) /\ Len(s) = 1 + Len(d)
    BY <1>2, <2>1, ConcatProperties
  <2> QED BY <1>2, <2>1, <2>2, <2>3
<1>4. /\ x \in Seq(S) /\ Len(x) = Len(base) + Len(s)
      /\ \A i \in 1 .. Len(s) : x[Len(base) + i] = s[i]
  <2> HIDE DEF d, s
  <2>1. /\ x \in Seq(S) /\ Len(x) = Len(base) + Len(s)
        /\ \A i \in 1 .. Len(base) + Len(s) :
             x[i] = IF i <= Len(base) THEN base[i] ELSE s[i - Len(base)]
    BY <1>3, ConcatProperties
  <2>2. ASSUME NEW i \in 1 .. Len(s) PROVE x[Len(base) + i] = s[i]
    <3>1. Len(s) \in Nat
      BY <1>3
    <3> QED BY <1>1, <2>1, <3>1
  <2> QED BY <2>1, <2>2
<1>5. x = Ending(base, separator, n)
  BY DEF Ending
<1>6. EndsAt(x, Len(base) + 1, separator, d)
  <2> HIDE DEF d, s, x
  <2>1. Len(x) = Len(base) + 1 + Len(d) /\ x[Len(base) + 1] = separator
    BY <1>1, <1>2, <1>3, <1>4
  <2>2. ASSUME NEW i \in 1 .. Len(d) PROVE x[Len(base) + 1 + i] = d[i]
    <3>1. i + 1 \in 1 .. Len(s) /\ Len(base) + (i + 1) = Len(base) + 1 + i
      BY <1>1, <1>2, <1>3
    <3>2. x[Len(base) + (i + 1)] = s[i + 1]
      BY <1>4, <3>1
    <3> QED BY <1>3, <3>1, <3>2
  <2> QED BY <2>1, <2>2 DEF EndsAt
<1> HIDE DEF x, d
<1> QED BY <1>1, <1>4, <1>5, <1>6 DEF d

(* Its length leaves room for the number.                                  *)
LEMMA EndingFits ==
  ASSUME NEW S, Digits \subseteq S, NEW base \in Seq(S),
         NEW separator \in S \ Digits, NEW n \in 1 .. MaxIndex,
         Len(base) + 1 + Len(Numeral[n]) <= MaxLength
  PROVE  Len(Ending(base, separator, n)) <= MaxLength
<1> DEFINE x == Ending(base, separator, n)
           p == Len(base) + 1
           d == Numeral[n]
<1>1. EndsAt(x, p, separator, d)
  BY Endings
<1>2. p + Len(d) <= MaxLength
  OBVIOUS
<1>3. Len(x) <= MaxLength
  <2> HIDE DEF x, p, d
  <2> QED BY <1>1, <1>2 DEF EndsAt
<1> QED BY <1>3

(* The last separator tells where the number begins.                       *)
LEMMA NumberBegins ==
  ASSUME NEW x, NEW p \in Nat, NEW q \in Nat, NEW c, NEW d, NEW separator,
         separator \notin Digits, Len(c) \in Nat, Len(d) \in Nat,
         \A i \in 1 .. Len(c) : c[i] \in Digits,
         EndsAt(x, p, separator, c), EndsAt(x, q, separator, d)
  PROVE  q <= p
<1> SUFFICES ASSUME p < q PROVE FALSE
  OBVIOUS
<1>1. q - p \in 1 .. Len(c) /\ p + (q - p) = q
  BY DEF EndsAt
<1>2. x[q] = c[q - p]
  BY <1>1 DEF EndsAt
<1> QED BY <1>1, <1>2 DEF EndsAt

(* Different numbers make different names, even after different bases.     *)
LEMMA EndingsDiffer ==
  ASSUME NEW S, Digits \subseteq S, NEW a \in Seq(S), NEW b \in Seq(S),
         NEW separator \in S \ Digits,
         NEW m \in 1 .. MaxIndex, NEW n \in 1 .. MaxIndex,
         Ending(a, separator, m) = Ending(b, separator, n)
  PROVE  m = n
<1> DEFINE x == Ending(a, separator, m)
           p == Len(a) + 1
           q == Len(b) + 1
           c == Numeral[m]
           d == Numeral[n]
<1>1. /\ EndsAt(x, p, separator, c) /\ EndsAt(x, q, separator, d)
      /\ p \in Nat /\ q \in Nat
  <2>1. /\ EndsAt(Ending(a, separator, m), Len(a) + 1, separator, Numeral[m])
        /\ Len(a) \in Nat
    BY Endings
  <2>2. /\ EndsAt(Ending(b, separator, n), Len(b) + 1, separator, Numeral[n])
        /\ Len(b) \in Nat
    BY Endings
  <2> QED BY <2>1, <2>2
<1>2. /\ c \in Seq(S) /\ Len(c) \in Nat
      /\ \A i \in 1 .. Len(c) : c[i] \in Digits
  BY Numerals
<1>3. /\ d \in Seq(S) /\ Len(d) \in Nat
      /\ \A i \in 1 .. Len(d) : d[i] \in Digits
  BY Numerals
<1>4. c = d
  <2> HIDE DEF x, p, q, c, d
  <2>1. q <= p /\ p <= q
    BY <1>1, <1>2, <1>3, NumberBegins
  <2>2. p = q
    BY <1>1, <2>1
  <2>3. Len(c) = Len(d)
    BY <1>1, <1>2, <1>3, <2>2 DEF EndsAt
  <2>4. \A i \in 1 .. Len(c) : c[i] = d[i]
    BY <1>1, <2>2, <2>3 DEF EndsAt
  <2> QED BY <1>2, <1>3, <2>3, <2>4, SeqEqual
<1> QED BY <1>4, NumbersAssumption

(* Where there are more numbers than names taken, a number is free.        *)
LEMMA SomeFree ==
  ASSUME NEW taken, IsFiniteSet(taken), NEW lowest \in {1, 2},
         Cardinality(taken) + 1 < MaxIndex,
         NEW names, \A m, n \in lowest .. MaxIndex : names[m] = names[n] => m = n
  PROVE  \E n \in lowest .. MaxIndex : names[n] \notin taken
<1> SUFFICES ASSUME \A n \in lowest .. MaxIndex : names[n] \in taken
             PROVE  FALSE
  OBVIOUS
<1> DEFINE f == [n \in lowest .. MaxIndex |-> names[n]]
<1>1. MaxIndex \in Nat /\ Cardinality(taken) \in Nat
  BY NumbersAssumption, FS_CardinalityType
<1>2. f \in [lowest .. MaxIndex -> taken]
  OBVIOUS
<1>3. /\ IsFiniteSet(lowest .. MaxIndex)
      /\ Cardinality(lowest .. MaxIndex) =
           IF lowest > MaxIndex THEN 0 ELSE MaxIndex - lowest + 1
  <2>1. lowest \in Int /\ MaxIndex \in Int
    BY <1>1
  <2> QED BY <2>1, FS_Interval
<1>4. Cardinality(taken) < Cardinality(lowest .. MaxIndex)
  BY <1>1, <1>3
<1>5. \E m, n \in lowest .. MaxIndex : m # n /\ f[m] = f[n]
  <2> HIDE DEF f
  <2> QED BY <1>2, <1>3, <1>4, FS_PigeonHole
<1> QED BY <1>5

(* A cut name is no longer than it was cut to.                             *)
LEMMA CutFits ==
  ASSUME NEW S, NEW name \in Seq(S), NEW length \in Nat
  PROVE  /\ Cut(name, length) \in Seq(S)
         /\ Len(Cut(name, length)) <= length
<1> DEFINE n == IF length < Len(name) THEN length ELSE Len(name)
<1>1. n \in 0 .. Len(name) /\ Len(name) \in Nat /\ n <= length
  OBVIOUS
<1>2. /\ SubSeq(name, 1, n) \in Seq(S)
      /\ Len(SubSeq(name, 1, n)) = IF 1 <= n THEN n - 1 + 1 ELSE 0
  <2> HIDE DEF n
  <2>1. 1 \in 1 .. Len(name) + 1 /\ n \in 0 .. Len(name)
    BY <1>1
  <2> QED BY <2>1, SubSeqProperties
<1>3. Cut(name, length) = SubSeq(name, 1, n)
  BY DEF Cut
<1> HIDE DEF n
<1> QED BY <1>1, <1>2, <1>3

(* unique_identifier finds a name that is free and not too long.           *)
LEMMA UniqueIsFree ==
  ASSUME NEW S, Digits \subseteq S, NEW label \in Seq(S), NEW taken, IsFiniteSet(taken),
         Cardinality(taken) + 1 < MaxIndex,
         NEW separator \in S \ Digits, NEW prefix \in S
  PROVE  LET name == UniqueIdentifier(label, taken, separator, prefix)
         IN  name \notin taken /\ Len(name) <= MaxLength
<1> DEFINE base == Cut(label, MaxLength)
           fallback(n) == <<prefix, separator>> \o Numeral[n]
           numbered(n) == Numbered(base, separator, n)
           name == UniqueIdentifier(label, taken, separator, prefix)
<1>0. MaxIndex \in Nat /\ MaxLength \in Nat
  BY NumbersAssumption
<1>1. base \in Seq(S) /\ Len(base) <= MaxLength
  BY <1>0, CutFits
<1>2. CASE base = <<>>
  <2>1. \A n \in 1 .. MaxIndex : fallback(n) = Ending(<<prefix>>, separator, n)
    <3> SUFFICES ASSUME NEW n \in 1 .. MaxIndex
                 PROVE  fallback(n) = Ending(<<prefix>>, separator, n)
      OBVIOUS
    <3>1. Numeral[n] \in Seq(S) /\ <<prefix>> \in Seq(S)
          /\ <<separator>> \in Seq(S)
      BY Numerals
    <3>2. <<prefix, separator>> = <<prefix>> \o <<separator>>
      OBVIOUS
    <3> DEFINE d == Numeral[n]
    <3>3. (<<prefix>> \o <<separator>>) \o d = <<prefix>> \o (<<separator>> \o d)
      <4> HIDE DEF d
      <4> QED BY <3>1, ConcatAssociative
    <3> QED BY <3>2, <3>3 DEF Ending
  <2> DEFINE names == [n \in 1 .. MaxIndex |-> fallback(n)]
  <2>2. \A m, n \in 1 .. MaxIndex : names[m] = names[n] => m = n
    <3> SUFFICES ASSUME NEW m \in 1 .. MaxIndex, NEW n \in 1 .. MaxIndex,
                        fallback(m) = fallback(n)
                 PROVE  m = n
      OBVIOUS
    <3> DEFINE one == <<prefix>>
    <3>1. one \in Seq(S)
      OBVIOUS
    <3>2. Ending(one, separator, m) = Ending(one, separator, n)
      <4> HIDE DEF fallback
      <4> QED BY <2>1
    <3> HIDE DEF one
    <3> QED BY <3>1, <3>2, EndingsDiffer
  <2>3. \E n \in 1 .. MaxIndex : names[n] \notin taken
    <3> HIDE DEF names
    <3> QED BY <2>2, SomeFree
  <2> DEFINE free == {n \in 1 .. MaxIndex : fallback(n) \notin taken}
  <2>4. PICK k \in free : \A m \in free : k <= m
    <3>1. free \subseteq Nat /\ free # {}
      BY <2>3
    <3> HIDE DEF free
    <3> QED BY <3>1, Least
  <2>5. FirstFree(fallback, 1, taken) \in free
    BY <2>4 DEF FirstFree
  <2>6. name = fallback(FirstFree(fallback, 1, taken))
    BY <1>2 DEF UniqueIdentifier
  <2>7. \A n \in 1 .. MaxIndex : Len(fallback(n)) <= MaxLength
    <3> SUFFICES ASSUME NEW n \in 1 .. MaxIndex
                 PROVE  Len(fallback(n)) <= MaxLength
      OBVIOUS
    <3> DEFINE one == <<prefix>>
    <3>1. one \in Seq(S) /\ Len(one) = 1
      OBVIOUS
    <3>2. Len(one) + 1 + Len(Numeral[n]) <= MaxLength
      <4>1. Len(Numeral[n]) \in Nat /\ Len(Numeral[n]) + 2 <= MaxLength
        BY Numerals
      <4> HIDE DEF one
      <4> QED BY <1>0, <3>1, <4>1
    <3>3. fallback(n) = Ending(one, separator, n)
      BY <2>1
    <3> HIDE DEF one, fallback
    <3>4. Len(Ending(one, separator, n)) <= MaxLength
      BY <3>1, <3>2, EndingFits
    <3> QED BY <3>3, <3>4
  <2> QED BY <2>5, <2>6, <2>7
<1>3. CASE base # <<>> /\ base \notin taken
  <2>1. name = base
    BY <1>3 DEF UniqueIdentifier
  <2> QED BY <1>1, <1>3, <2>1
<1>4. CASE base # <<>> /\ base \in taken
  <2>1. \A n \in 2 .. MaxIndex :
          \E a \in Seq(S) :
            /\ numbered(n) = Ending(a, separator, n)
            /\ Len(a) + 1 + Len(Numeral[n]) <= MaxLength
    <3> SUFFICES ASSUME NEW n \in 2 .. MaxIndex
                 PROVE  \E a \in Seq(S) :
                          /\ numbered(n) = Ending(a, separator, n)
                          /\ Len(a) + 1 + Len(Numeral[n]) <= MaxLength
      OBVIOUS
    <3> DEFINE suffix == <<separator>> \o Numeral[n]
               room   == MaxLength - Len(suffix)
    <3>0. /\ Numeral[n] \in Seq(S) /\ Len(Numeral[n]) \in Nat
          /\ Len(Numeral[n]) + 2 <= MaxLength
      BY <1>0, Numerals
    <3>1. Len(suffix) = 1 + Len(Numeral[n])
      <4>1. <<separator>> \in Seq(S) /\ Len(<<separator>>) = 1
        OBVIOUS
      <4> DEFINE d == Numeral[n]
                 p == <<separator>>
      <4>2. Len(p \o d) = Len(p) + Len(d)
        <5>1. d \in Seq(S) /\ p \in Seq(S)
          BY <3>0, <4>1
        <5> HIDE DEF d, p
        <5> QED BY <5>1, ConcatProperties
      <4> QED BY <4>1, <4>2
    <3>2. room \in Nat
      <4> HIDE DEF suffix
      <4> QED BY <1>0, <3>0, <3>1
    <3>3. Cut(base, room) \in Seq(S) /\ Len(Cut(base, room)) <= room
      <4> HIDE DEF base, room
      <4> QED BY <1>1, <3>2, CutFits
    <3>4. numbered(n) = Ending(Cut(base, room), separator, n)
      BY DEF Numbered, Ending
    <3>5. Len(Cut(base, room)) + 1 + Len(Numeral[n]) <= MaxLength
      <4>1. room = MaxLength - (1 + Len(Numeral[n]))
        BY <3>1
      <4>2. Len(Cut(base, room)) \in Nat
        BY <3>3
      <4> DEFINE length == Len(Cut(base, room))
                 digits == Len(Numeral[n])
      <4>3. length <= room /\ digits \in Nat
        BY <3>0, <3>3
      <4>4. length + 1 + digits <= MaxLength
        <5>1. length \in Nat /\ room = MaxLength - (1 + digits)
          BY <4>1, <4>2
        <5> HIDE DEF room, base, length, digits
        <5> QED BY <1>0, <4>3, <5>1
      <4> QED BY <4>4
    <3> QED BY <3>3, <3>4, <3>5
  <2> DEFINE names == [n \in 2 .. MaxIndex |-> numbered(n)]
  <2>2. \A m, n \in 2 .. MaxIndex : names[m] = names[n] => m = n
    <3> SUFFICES ASSUME NEW m \in 2 .. MaxIndex, NEW n \in 2 .. MaxIndex,
                        numbered(m) = numbered(n)
                 PROVE  m = n
      OBVIOUS
    <3>1. PICK a \in Seq(S) : numbered(m) = Ending(a, separator, m)
      BY <2>1
    <3>2. PICK b \in Seq(S) : numbered(n) = Ending(b, separator, n)
      BY <2>1
    <3>3. m \in 1 .. MaxIndex /\ n \in 1 .. MaxIndex
      BY <1>0
    <3> HIDE DEF numbered
    <3>4. Ending(a, separator, m) = Ending(b, separator, n)
      BY <3>1, <3>2
    <3> QED BY <3>3, <3>4, EndingsDiffer
  <2>3. \E n \in 2 .. MaxIndex : names[n] \notin taken
    <3> HIDE DEF names
    <3> QED BY <2>2, SomeFree
  <2> DEFINE free == {n \in 2 .. MaxIndex : numbered(n) \notin taken}
  <2>4. PICK k \in free : \A m \in free : k <= m
    <3>1. free \subseteq Nat /\ free # {}
      BY <2>3
    <3> HIDE DEF free
    <3> QED BY <3>1, Least
  <2>5. FirstFree(numbered, 2, taken) \in free
    BY <2>4 DEF FirstFree
  <2>6. name = numbered(FirstFree(numbered, 2, taken))
    BY <1>4 DEF UniqueIdentifier
  <2>7. \A n \in 2 .. MaxIndex : Len(numbered(n)) <= MaxLength
    <3> SUFFICES ASSUME NEW n \in 2 .. MaxIndex
                 PROVE  Len(numbered(n)) <= MaxLength
      OBVIOUS
    <3>1. PICK a \in Seq(S) :
            /\ numbered(n) = Ending(a, separator, n)
            /\ Len(a) + 1 + Len(Numeral[n]) <= MaxLength
      BY <2>1
    <3>2. n \in 1 .. MaxIndex
      BY <1>0
    <3> HIDE DEF numbered
    <3>3. Len(Ending(a, separator, n)) <= MaxLength
      BY <3>1, <3>2, EndingFits
    <3> QED BY <3>1, <3>3
  <2> QED BY <2>5, <2>6, <2>7
<1> QED BY <1>2, <1>3, <1>4
=============================================================================
