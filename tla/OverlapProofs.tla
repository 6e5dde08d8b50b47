--------------------------- MODULE OverlapProofs ---------------------------
(* Theorems about what a request of Records does that no other request     *)
(* overtook: it commits on top of the rows that it has read.               *)
EXTENDS RecordsProofs

-----------------------------------------------------------------------------
(* What a request has learned about the rows so far.                       *)

Found(t) == [x \in Records |-> IF x \in RecordsOf(t) THEN data[x] ELSE None]

(* The field restricts the deletion of record x.                           *)
Guards(f, x) ==
  TypeOf[f] = "relation" /\ config[f].target = TableOf[x] /\ config[f].plain

CurTable(at, j) ==
  j.op = "update_table" /\ at = "commit" => j.key \in KeysTaken(j.row)

CurField(at, j) ==
  /\ j.op = "create_field" =>
       TableOf[j.row] \in tables /\ j.shown = display[TableOf[j.row]]
  /\ j.op = "delete_field" => j.row \in fields
  /\ j.op = "delete_field" /\ at \in {"scan", "commit"} =>
       j.shown = display[TableOf[j.row]]
  /\ j.op = "delete_field" /\ at = "commit" => j.found = Found(TableOf[j.row])

CurRecord(at, j) ==
  /\ j.op = "create_record" => j.row \notin records
  /\ j.op \in {"replace_record", "patch_record", "delete_record"} =>
       j.row \in records /\ j.doc = data[j.row]
  /\ j.op \in Writes /\ at \in {"related", "commit"} =>
       j.defs = Definitions(TableOf[j.row])
  /\ j.op \in Writes /\ at = "commit" =>
       Accepts(j.defs, Submitted(j)) /\ Related(j.defs, Submitted(j))
  /\ j.op = "delete_record" /\ at = "dependents" =>
       \A f \in fields : Guards(f, j.row) /\ Definition(f) \notin j.defs =>
         \A y \in RecordsOf(TableOf[f]) : data[y][KeyOf[f]] # RefTo(j.row)

Cur(at, j) ==
  at # "idle" => CurTable(at, j) /\ CurField(at, j) /\ CurRecord(at, j)

JobsCurrent == \A r \in Slots \ crossed : Cur(pc[r], job[r])

(* A table that does not exist has no display field.                       *)
Blank == \A t \in Tables \ tables : display[t] = None

CInv == IInv /\ JobsCurrent /\ Blank

-----------------------------------------------------------------------------
(* Reading keeps a request up to date; a commit overtakes the others.      *)

SameRows == UNCHANGED <<tables, fields, records, display, required, config, data>>

LEMMA CurKept ==
  ASSUME NEW at, NEW j, SameRows, Cur(at, j)
  PROVE  Cur(at, j)'
<1>1. /\ tables' = tables /\ fields' = fields /\ records' = records
      /\ display' = display /\ required' = required /\ config' = config
      /\ data' = data
  BY DEF SameRows
<1>2. /\ \A t : KeysTaken(t)' = KeysTaken(t)
      /\ \A t : RecordsOf(t)' = RecordsOf(t)
      /\ \A t : Definitions(t)' = Definitions(t)
      /\ \A f : Definition(f)' = Definition(f)
  BY <1>1 DEF KeysTaken, FieldsOf, RecordsOf, Definitions, Definition
<1>3. \A t : Found(t)' = Found(t)
  BY <1>1, <1>2 DEF Found
<1>4. \A defs, doc : Related(defs, doc)' <=> Related(defs, doc)
  BY <1>1 DEF Related, Finds
<1>5. CASE at = "idle"
  BY <1>5 DEF Cur
<1>6. CASE at # "idle"
  <2>1. CurTable(at, j)'
    BY <1>2, <1>6 DEF Cur, CurTable
  <2>2. CurField(at, j)'
    BY <1>1, <1>3, <1>6 DEF Cur, CurField
  <2>3. CurRecord(at, j)'
    BY <1>1, <1>2, <1>4, <1>6 DEF Cur, CurRecord, Guards
  <2> QED BY <2>1, <2>2, <2>3 DEF Cur
<1> QED BY <1>5, <1>6

LEMMA CurReads ==
  ASSUME CInv, NEW r \in Slots, NEW at, NEW j, Read(r, at, j),
         r \notin crossed => Cur(at, j)
  PROVE  JobsCurrent' /\ Blank'
<1>1. /\ pc' = [pc EXCEPT ![r] = at] /\ job' = [job EXCEPT ![r] = j]
      /\ UNCHANGED <<tables, fields, records, display, required, config, data>>
      /\ UNCHANGED <<spent, crossed>>
  BY DEF Read, rows
<1>2. ASSUME NEW a, NEW k, Cur(a, k) PROVE Cur(a, k)'
  BY <1>1, <1>2, CurKept DEF SameRows
<1>3. JobsCurrent'
  <2>1. \A q \in Slots \ crossed : Cur(pc'[q], job'[q])
    BY <1>1 DEF CInv, IInv, TypeOK, JobsCurrent
  <2> QED BY <1>1, <1>2, <2>1 DEF JobsCurrent
<1> QED BY <1>1, <1>3 DEF CInv, Blank

LEMMA CurEnds ==
  ASSUME CInv, NEW r \in Slots, End(r)
  PROVE  JobsCurrent'
<1>1. /\ pc' = [pc EXCEPT ![r] = "idle"] /\ job' = [job EXCEPT ![r] = NoJob]
      /\ crossed' = {q \in Slots \ {r} :
                       q \in crossed \/ (pc[q] # "idle" /\ rows' # rows)}
  BY DEF End
<1>2. SUFFICES ASSUME NEW q \in Slots \ crossed'
               PROVE  Cur(pc[q], job[q])'
  BY DEF JobsCurrent
<1>3. CASE pc'[q] = "idle"
  BY <1>3 DEF Cur
<1>4. CASE pc'[q] # "idle"
  <2>1. q # r
    BY <1>1, <1>4 DEF CInv, IInv, TypeOK
  <2>2. pc'[q] = pc[q] /\ job'[q] = job[q]
    BY <1>1, <2>1 DEF CInv, IInv, TypeOK
  <2>3. q \notin crossed /\ rows' = rows
    BY <1>1, <1>4, <2>1, <2>2
  <2>4. Cur(pc[q], job[q])
    BY <2>3 DEF CInv, JobsCurrent
  <2>5. SameRows
    BY <2>3 DEF rows, SameRows
  <2>6. \A a, k : Cur(a, k) => Cur(a, k)'
    BY <2>5, CurKept
  <2> QED BY <2>2, <2>4, <2>6
<1> QED BY <1>3, <1>4

LEMMA CurRefuses ==
  ASSUME CInv, NEW r \in Slots, Refuse(r)
  PROVE  JobsCurrent' /\ Blank'
BY CurEnds DEF Refuse, rows, CInv, Blank

(* What a request that read its last statement alone still knows.          *)
LEMMA Known ==
  ASSUME CInv, NEW r \in Slots, r \notin crossed, pc[r] # "idle"
  PROVE  /\ CurTable(pc[r], job[r]) /\ CurField(pc[r], job[r])
         /\ CurRecord(pc[r], job[r])
BY DEF CInv, JobsCurrent, Cur

-----------------------------------------------------------------------------
(* Every action that reads.                                                *)

LEMMA CurBegins ==
  ASSUME CInv, NEW r \in Slots, NEW at, NEW j, Begin(r, at, j), Cur(at, j)
  PROVE  JobsCurrent' /\ Blank'
BY CurReads DEF Begin, Read

LEMMA CurArrive ==
  ASSUME CInv, NEW r \in Slots, MetadataArrive(r) \/ RecordArrive(r)
  PROVE  JobsCurrent' /\ Blank'
<1>1. CASE CreateTable(r) \/ DeleteTable(r)
  <2>0. PICK op \in {"create_table", "delete_table"} :
          \E t : Begin(r, "commit", [NoJob EXCEPT !.op = op, !.row = t])
    BY <1>1 DEF CreateTable, DeleteTable
  <2>1. PICK t : Begin(r, "commit", [NoJob EXCEPT !.op = op, !.row = t])
    BY <2>0
  <2>2. Cur("commit", [NoJob EXCEPT !.op = op, !.row = t])
    BY DEF Cur, CurTable, CurField, CurRecord, NoJob, Writes
  <2> QED BY <2>1, <2>2, CurBegins
<1>2. CASE UpdateTable(r)
  <2>1. PICK t \in tables, k \in Keys :
          Begin(r, "fields", [NoJob EXCEPT !.op = "update_table", !.row = t,
                                           !.key = k, !.shown = display[t]])
    BY <1>2 DEF UpdateTable
  <2>2. Cur("fields", [NoJob EXCEPT !.op = "update_table", !.row = t,
                                    !.key = k, !.shown = display[t]])
    BY DEF Cur, CurTable, CurField, CurRecord, NoJob, Writes
  <2> QED BY <2>1, <2>2, CurBegins
<1>3. CASE CreateField(r)
  <2>1. PICK f \in Fields, b \in Flags : \E c \in Configs[TypeOf[f]] :
          /\ TableOf[f] \in tables
          /\ Begin(r, IF TypeOf[f] = "relation" THEN "target" ELSE "fields",
                   [NoJob EXCEPT !.op = "create_field", !.row = f,
                                 !.required = b, !.config = c,
                                 !.shown = display[TableOf[f]]])
    BY <1>3 DEF CreateField
  <2>2. PICK c :
          /\ TableOf[f] \in tables
          /\ Begin(r, IF TypeOf[f] = "relation" THEN "target" ELSE "fields",
                   [NoJob EXCEPT !.op = "create_field", !.row = f,
                                 !.required = b, !.config = c,
                                 !.shown = display[TableOf[f]]])
    BY <2>1
  <2>3. Cur(IF TypeOf[f] = "relation" THEN "target" ELSE "fields",
            [NoJob EXCEPT !.op = "create_field", !.row = f, !.required = b,
                          !.config = c, !.shown = display[TableOf[f]]])
    BY <2>2 DEF Cur, CurTable, CurField, CurRecord, NoJob, Writes
  <2> QED BY <2>2, <2>3, CurBegins
<1>4. CASE UpdateField(r)
  <2>1. PICK f \in fields, b \in Flags \cup {None} :
          \E c \in Configs[TypeOf[f]] \cup {None} :
            Begin(r, IF c # None THEN "table" ELSE "commit",
                  [NoJob EXCEPT !.op = "update_field", !.row = f,
                                !.required = b, !.config = c,
                                !.defs = {Definition(f)}])
    BY <1>4 DEF UpdateField
  <2>2. PICK c :
          Begin(r, IF c # None THEN "table" ELSE "commit",
                [NoJob EXCEPT !.op = "update_field", !.row = f, !.required = b,
                              !.config = c, !.defs = {Definition(f)}])
    BY <2>1
  <2>3. Cur(IF c # None THEN "table" ELSE "commit",
            [NoJob EXCEPT !.op = "update_field", !.row = f, !.required = b,
                          !.config = c, !.defs = {Definition(f)}])
    BY DEF Cur, CurTable, CurField, CurRecord, NoJob, Writes
  <2> QED BY <2>2, <2>3, CurBegins
<1>5. CASE DeleteField(r)
  <2>1. PICK f \in fields :
          Begin(r, "table", [NoJob EXCEPT !.op = "delete_field", !.row = f])
    BY <1>5 DEF DeleteField
  <2>2. Cur("table", [NoJob EXCEPT !.op = "delete_field", !.row = f])
    BY DEF Cur, CurTable, CurField, CurRecord, NoJob, Writes
  <2> QED BY <2>1, <2>2, CurBegins
<1>6. CASE CreateRecord(r)
  <2>1. PICK x \in Records, p \in Payloads :
          /\ Fresh(x)
          /\ Begin(r, "fields",
                   [NoJob EXCEPT !.op = "create_record", !.row = x, !.payload = p])
    BY <1>6 DEF CreateRecord
  <2>2. x \notin records
    BY <2>1 DEF Fresh, CInv, IInv, TypeOK
  <2>3. Cur("fields",
            [NoJob EXCEPT !.op = "create_record", !.row = x, !.payload = p])
    BY <2>2 DEF Cur, CurTable, CurField, CurRecord, NoJob, Writes
  <2> QED BY <2>1, <2>3, CurBegins
<1>7. CASE ReplaceRecord(r) \/ PatchRecord(r)
  <2>1. PICK op \in {"replace_record", "patch_record"}, x \in records,
             p \in Payloads :
          Begin(r, "fields", [NoJob EXCEPT !.op = op, !.row = x,
                                           !.payload = p, !.doc = data[x]])
    BY <1>7 DEF ReplaceRecord, PatchRecord
  <2>2. Cur("fields", [NoJob EXCEPT !.op = op, !.row = x, !.payload = p,
                                    !.doc = data[x]])
    BY DEF Cur, CurTable, CurField, CurRecord, NoJob, Writes
  <2> QED BY <2>1, <2>2, CurBegins
<1>8. CASE DeleteRecord(r)
  <2>1. PICK x \in records :
          Begin(r, "relations", [NoJob EXCEPT !.op = "delete_record", !.row = x,
                                              !.doc = data[x]])
    BY <1>8 DEF DeleteRecord
  <2>2. Cur("relations", [NoJob EXCEPT !.op = "delete_record", !.row = x,
                                       !.doc = data[x]])
    BY DEF Cur, CurTable, CurField, CurRecord, NoJob, Writes
  <2> QED BY <2>1, <2>2, CurBegins
<1> QED BY <1>1, <1>2, <1>3, <1>4, <1>5, <1>6, <1>7, <1>8
        DEF MetadataArrive, RecordArrive

LEMMA CurCheckDisplayField ==
  ASSUME CInv, NEW r \in Slots, CheckDisplayField(r)
  PROVE  JobsCurrent' /\ Blank'
<1>1. CASE /\ job[r].key \in KeysTaken(job[r].row)
           /\ Read(r, "commit", job[r])
  <2>1. Cur("commit", job[r])
    BY <1>1 DEF CheckDisplayField, At, Cur, CurTable, CurField, CurRecord, Writes
  <2> QED BY <1>1, <2>1, CurReads
<1> QED BY <1>1, CurRefuses DEF CheckDisplayField

LEMMA CurLoadTable ==
  ASSUME CInv, NEW r \in Slots, LoadTable(r)
  PROVE  JobsCurrent' /\ Blank'
<1> DEFINE f == job[r].row
           t == TableOf[f]
<1>1. job[r] \in Jobs /\ pc[r] # "idle"
  BY OpsTyped DEF CInv, LoadTable, At
<1>2. CASE job[r].op = "update_field" /\ \E at \in Stages : Read(r, at, job[r])
  <2>1. \A at : Cur(at, job[r])
    BY <1>2 DEF Cur, CurTable, CurField, CurRecord, Writes
  <2> QED BY <1>2, <2>1, CurReads
<1>3. CASE /\ job[r].op = "delete_field"
           /\ Read(r, "scan", [job[r] EXCEPT !.shown = display[t]])
  <2>1. r \notin crossed => f \in fields
    BY <1>1, <1>3, Known DEF CurField
  <2>2. r \notin crossed => Cur("scan", [job[r] EXCEPT !.shown = display[t]])
    BY <1>1, <1>3, <2>1 DEF Cur, CurTable, CurField, CurRecord, Writes, Jobs
  <2> QED BY <1>3, <2>2, CurReads
<1> QED BY <1>2, <1>3, CurRefuses DEF LoadTable, Stages

LEMMA CurCreateField ==
  ASSUME CInv, NEW r \in Slots, CheckTarget(r) \/ NameField(r)
  PROVE  JobsCurrent' /\ Blank'
<1>1. pc[r] # "idle" /\ job[r].op \in {"create_field", "update_field"}
  BY DEF CheckTarget, NameField, At
<1>2. r \notin crossed => \A at : Cur(at, job[r])
  BY <1>1, Known DEF Cur, CurTable, CurField, CurRecord, Writes
<1>3. CASE \E at \in Stages : Read(r, at, job[r])
  BY <1>2, <1>3, CurReads
<1> QED BY <1>3, CurRefuses DEF CheckTarget, NameField, Stages

LEMMA CurScanRecords ==
  ASSUME CInv, NEW r \in Slots, ScanRecords(r)
  PROVE  JobsCurrent' /\ Blank'
<1> DEFINE j == [job[r] EXCEPT !.found = Found(TableOf[job[r].row])]
<1>1. /\ job[r] \in Jobs /\ pc[r] = "scan" /\ job[r].op = "delete_field"
      /\ Read(r, "commit", j)
  BY OpsTyped DEF CInv, ScanRecords, At, Found
<1>2. r \notin crossed => CurField("scan", job[r])
  BY <1>1, Known
<1>3. r \notin crossed => Cur("commit", j)
  BY <1>1, <1>2 DEF Cur, CurTable, CurField, CurRecord, Writes, Jobs
<1> QED BY <1>1, <1>3, CurReads

LEMMA CurLoadFields ==
  ASSUME CInv, NEW r \in Slots, LoadFields(r)
  PROVE  JobsCurrent' /\ Blank'
<1> DEFINE j == [job[r] EXCEPT !.defs = Definitions(TableOf[job[r].row])]
<1>1. /\ job[r] \in Jobs /\ pc[r] # "idle" /\ job[r].op \in Writes
  BY OpsTyped DEF CInv, LoadFields, At
<1>2. CASE Read(r, "related", j)
  <2>1. r \notin crossed => CurRecord(pc[r], job[r])
    BY <1>1, Known
  <2>2. r \notin crossed => Cur("related", j)
    BY <1>1, <2>1 DEF Cur, CurTable, CurField, CurRecord, Writes, Jobs
  <2> QED BY <1>2, <2>2, CurReads
<1> QED BY <1>2, CurRefuses DEF LoadFields

LEMMA CurValidate ==
  ASSUME CInv, NEW r \in Slots, Validate(r)
  PROVE  JobsCurrent' /\ Blank'
<1> DEFINE doc == Submitted(job[r])
<1>1. pc[r] = "related" /\ job[r].op \in Writes
  BY DEF Validate, At
<1>2. CASE /\ Accepts(job[r].defs, doc) /\ Related(job[r].defs, doc)
           /\ Read(r, "commit", job[r])
  <2>1. r \notin crossed => CurRecord("related", job[r])
    BY <1>1, Known
  <2>2. r \notin crossed => Cur("commit", job[r])
    BY <1>1, <1>2, <2>1 DEF Cur, CurTable, CurField, CurRecord, Writes
  <2> QED BY <1>2, <2>2, CurReads
<1> QED BY <1>2, CurRefuses DEF Validate

LEMMA CurDeleteRecord ==
  ASSUME CInv, NEW r \in Slots, LoadRelations(r) \/ ScanDependents(r)
  PROVE  JobsCurrent' /\ Blank'
<1> DEFINE x == job[r].row
<1>1. /\ job[r] \in Jobs /\ pc[r] # "idle" /\ job[r].op = "delete_record"
  BY OpsTyped DEF CInv, LoadRelations, ScanDependents, At
<1>2. r \notin crossed => x \in records /\ job[r].doc = data[x]
  BY <1>1, Known DEF CurRecord
<1>3. ASSUME NEW defs,
             Read(r, "dependents", [job[r] EXCEPT !.defs = defs]),
             r \notin crossed =>
               \A f \in fields : Guards(f, x) /\ Definition(f) \notin defs =>
                 \A y \in RecordsOf(TableOf[f]) : data[y][KeyOf[f]] # RefTo(x)
      PROVE  JobsCurrent' /\ Blank'
  <2>1. r \notin crossed => Cur("dependents", [job[r] EXCEPT !.defs = defs])
    BY <1>1, <1>2, <1>3 DEF Cur, CurTable, CurField, CurRecord, Writes, Jobs
  <2> QED BY <1>3, <2>1, CurReads
<1>4. CASE LoadRelations(r)
  <2> DEFINE guards(d) == /\ TypeOf[d.field] = "relation"
                          /\ d.config.target = TableOf[x] /\ d.config.plain
             defs == {d \in {Definition(f) : f \in fields} : guards(d)}
  <2>1. Read(r, "dependents", [job[r] EXCEPT !.defs = defs])
    BY <1>4 DEF LoadRelations
  <2>2. \A f \in fields : Guards(f, x) => Definition(f) \in defs
    BY DEF Guards, Definition
  <2> HIDE DEF defs
  <2> QED BY <1>3, <2>1, <2>2
<1>5. CASE ScanDependents(r)
  <2>1. CASE \E d \in job[r].defs : Read(r, "dependents", [job[r] EXCEPT !.defs = @ \ {d}])
                /\ {y \in RecordsOf(TableOf[d.field]) :
                      (IF y = x THEN job[r].doc ELSE data[y])[KeyOf[d.field]]
                         = RefTo(x)} = {}
    <3>1. PICK d \in job[r].defs :
            /\ Read(r, "dependents", [job[r] EXCEPT !.defs = job[r].defs \ {d}])
            /\ {y \in RecordsOf(TableOf[d.field]) :
                  (IF y = x THEN job[r].doc ELSE data[y])[KeyOf[d.field]]
                     = RefTo(x)} = {}
      BY <2>1
    <3>2. r \notin crossed =>
            \A y \in RecordsOf(TableOf[d.field]) :
              data[y][KeyOf[d.field]] # RefTo(x)
      BY <1>2, <3>1
    <3>3. r \notin crossed =>
            \A f \in fields : Guards(f, x) /\ Definition(f) \notin job[r].defs =>
              \A y \in RecordsOf(TableOf[f]) : data[y][KeyOf[f]] # RefTo(x)
      BY <1>1, <1>5, Known DEF CurRecord, ScanDependents, At
    <3>4. r \notin crossed =>
            \A f \in fields :
              Guards(f, x) /\ Definition(f) \notin job[r].defs \ {d} =>
                \A y \in RecordsOf(TableOf[f]) : data[y][KeyOf[f]] # RefTo(x)
      BY <3>2, <3>3 DEF Definition
    <3> QED BY <1>3, <3>1, <3>4
  <2> QED BY <1>5, <2>1, CurRefuses DEF ScanDependents
<1> QED BY <1>4, <1>5

-----------------------------------------------------------------------------
(* The commits.                                                            *)

Write(r) ==
  \/ InsertTable(r) \/ WriteTable(r) \/ DropTable(r)
  \/ InsertField(r) \/ WriteField(r) \/ DropField(r)
  \/ InsertRecord(r) \/ WriteRecord(r) \/ DropRecord(r)

LEMMA WriteEnds ==
  ASSUME NEW r \in Slots, Write(r)
  PROVE  End(r) /\ pc[r] \in {"commit", "dependents"}
<1>1. End(r)
  BY DEF Write, InsertTable, WriteTable, DropTable, InsertField, WriteField,
     DropField, InsertRecord, WriteRecord, DropRecord, Refuse
<1>2. pc[r] \in {"commit", "dependents"}
  BY DEF Write, InsertTable, WriteTable, DropTable, InsertField, WriteField,
     DropField, InsertRecord, WriteRecord, DropRecord, At
<1> QED BY <1>1, <1>2

LEMMA BlankKept ==
  ASSUME CInv, NEW r \in Slots, Write(r)
  PROVE  Blank'
<1>1. \A t \in Tables \ tables : display[t] = None
  BY DEF CInv, Blank
<1>2. display \in [Tables -> Keys \cup {None}]
  BY DEF CInv, IInv, TypeOK
<1>3. CASE InsertTable(r)
  BY <1>1, <1>3 DEF Blank, InsertTable, Refuse, rows
<1>4. CASE WriteTable(r)
  BY <1>1, <1>2, <1>4 DEF Blank, WriteTable
<1>5. CASE DropTable(r)
  <2>1. /\ tables' = tables \ {job[r].row}
        /\ display' = [display EXCEPT ![job[r].row] = None]
    BY <1>5 DEF DropTable
  <2> QED BY <1>1, <1>2, <2>1 DEF Blank
<1>6. CASE InsertField(r)
  BY <1>1, <1>2, <1>6 DEF Blank, InsertField, Refuse, rows
<1>7. CASE DropField(r)
  <2>1. UNCHANGED tables
    BY <1>7 DEF DropField, Refuse, rows
  <2>2. \/ display' = display
        \/ display' = [display EXCEPT ![TableOf[job[r].row]] = None]
    BY <1>7 DEF DropField, Refuse, rows
  <2> QED BY <1>1, <1>2, <2>1, <2>2 DEF Blank
<1>8. CASE UNCHANGED <<tables, display>>
  BY <1>1, <1>8 DEF Blank
<1> QED BY <1>3, <1>4, <1>5, <1>6, <1>7, <1>8
        DEF Write, WriteField, InsertRecord, WriteRecord, DropRecord, Refuse, rows

LEMMA CInvInit == Init => CInv
<1> SUFFICES ASSUME Init PROVE CInv
  OBVIOUS
<1>1. JobsCurrent
  BY DEF Init, JobsCurrent, Cur
<1>2. Blank
  <2>1. ASSUME NEW t \in Tables \ tables, display[t] # None PROVE FALSE
    <3>1. PICK f \in fields : TableOf[f] = t
      BY <2>1 DEF Init
    <3>2. f \in Preset \cap Fields
      BY <3>1 DEF Init
    <3>3. t \in Preset
      BY <3>1, <3>2, PresetAssumption
    <3> QED BY <2>1, <3>3 DEF Init
  <2> QED BY <2>1 DEF Blank
<1> QED BY <1>1, <1>2, InvInit DEF CInv

(* Every step reads, refuses or commits.                                   *)
LEMMA Steps ==
  ASSUME CInv, [Next]_vars
  PROVE  /\ CInv'
         /\ \/ SameRows
            \/ \E r \in Slots : Write(r)
<1>1. IInv'
  BY InvNext DEF CInv
<1>2. CASE \E r \in Slots : Write(r)
  <2>1. PICK r \in Slots : Write(r)
    BY <1>2
  <2> QED BY <1>1, <2>1, WriteEnds, CurEnds, BlankKept DEF CInv
<1>3. CASE \E r \in Slots : MetadataArrive(r) \/ RecordArrive(r)
  <2>1. PICK r \in Slots : MetadataArrive(r) \/ RecordArrive(r)
    BY <1>3
  <2>2. UNCHANGED rows
    BY <2>1 DEF MetadataArrive, RecordArrive, CreateTable, UpdateTable,
       DeleteTable, CreateField, UpdateField, DeleteField, CreateRecord,
       ReplaceRecord, PatchRecord, DeleteRecord, Begin
  <2> QED BY <1>1, <2>1, <2>2, CurArrive DEF CInv, SameRows, rows
<1>4. CASE \E r \in Slots :
             \/ CheckDisplayField(r) \/ LoadTable(r) \/ CheckTarget(r)
             \/ NameField(r) \/ ScanRecords(r) \/ LoadFields(r)
             \/ Validate(r) \/ LoadRelations(r) \/ ScanDependents(r)
  <2>1. PICK r \in Slots :
             \/ CheckDisplayField(r) \/ LoadTable(r) \/ CheckTarget(r)
             \/ NameField(r) \/ ScanRecords(r) \/ LoadFields(r)
             \/ Validate(r) \/ LoadRelations(r) \/ ScanDependents(r)
    BY <1>4
  <2>2. UNCHANGED rows
    BY <2>1 DEF CheckDisplayField, LoadTable, CheckTarget, NameField,
       ScanRecords, LoadFields, Validate, LoadRelations, ScanDependents,
       Read, Refuse
  <2>3. JobsCurrent' /\ Blank'
    BY <2>1, CurCheckDisplayField, CurLoadTable, CurCreateField,
       CurScanRecords, CurLoadFields, CurValidate, CurDeleteRecord
  <2> QED BY <1>1, <2>2, <2>3 DEF CInv, SameRows, rows
<1>5. CASE \E r \in Slots : Fail(r)
  <2>1. PICK r \in Slots : Refuse(r)
    BY <1>5 DEF Fail
  <2> QED BY <1>1, <2>1, CurRefuses DEF CInv, Refuse, SameRows, rows
<1>6. CASE UNCHANGED vars
  <2>1. SameRows /\ UNCHANGED <<pc, job, crossed>>
    BY <1>6 DEF vars, rows, SameRows
  <2>2. \A a, k : Cur(a, k) => Cur(a, k)'
    BY <2>1, CurKept
  <2>3. JobsCurrent'
    BY <2>1, <2>2 DEF CInv, JobsCurrent
  <2> QED BY <1>1, <2>1, <2>3 DEF CInv, Blank, SameRows
<1>7. \/ \E r \in Slots : MetadataArrive(r) \/ RecordArrive(r) \/ Fail(r)
      \/ \E r \in Slots : MetadataProceed(r) \/ RecordProceed(r)
      \/ UNCHANGED vars
  BY DEF Next
<1> QED BY <1>2, <1>3, <1>4, <1>5, <1>6, <1>7
        DEF Write, MetadataProceed, RecordProceed

LEMMA Knowledge == Spec => []CInv
BY CInvInit, Steps, PTL DEF Spec

(* Request r commits a change on top of what it knows of the rows.         *)
Acts(r) ==
  /\ Write(r) /\ rows' # rows /\ Commits(r)
  /\ CurTable(pc[r], job[r]) /\ CurField(pc[r], job[r])
  /\ CurRecord(pc[r], job[r])

(* That is what a change of the rows by a request is that was not          *)
(* overtaken.                                                              *)
LEMMA AloneCommits ==
  ASSUME CInv, [Next]_vars, Alone
  PROVE  \E r \in Slots : Acts(r)
<1>1. PICK r \in Slots : Write(r)
  BY Steps DEF Alone, SameRows, rows
<1>2. End(r) /\ pc[r] # "idle"
  BY <1>1, WriteEnds
<1>3. \A q \in Slots \ {r} : pc'[q] = pc[q]
  BY <1>2 DEF End, CInv, IInv, TypeOK
<1>4. r \notin crossed /\ Commits(r)
  BY <1>3 DEF Alone, Commits
<1> QED BY <1>1, <1>2, <1>4, Known DEF Alone, Acts

(* What is stored is what was validated, by the fields of the table, and   *)
(* it replaces the document that was loaded.                               *)
LEMMA DocumentWritten ==
  ASSUME CInv, NEW r \in Slots, Acts(r), InsertRecord(r) \/ WriteRecord(r)
  PROVE  LET x == job[r].row
             defs == Definitions(TableOf[x])
             doc == Submitted(job[r])
         IN  /\ job[r].op \in Writes /\ x \in Records /\ doc \in Documents
             /\ Accepts(defs, doc) /\ Related(defs, doc)
             /\ IF job[r].op = "create_record" THEN x \notin records
                ELSE x \in records /\ job[r].doc = data[x]
             /\ UNCHANGED <<tables, fields, display, required, config>>
             /\ records' = records \cup {x}
             /\ data' = [data EXCEPT ![x] = Stored(defs, doc)]
<1> DEFINE x == job[r].row
           doc == Submitted(job[r])
<1>1. /\ pc[r] = "commit" /\ job[r].op \in Writes
      /\ rows' # rows /\ CurRecord(pc[r], job[r])
  BY DEF Acts, InsertRecord, WriteRecord, At, Writes
<1>2. x \in Records /\ doc \in Documents
  BY <1>1, OpsTyped, SubmittedTyped DEF CInv, Writes, RecordOps
<1>3. /\ job[r].defs = Definitions(TableOf[x])
      /\ Accepts(job[r].defs, doc) /\ Related(job[r].defs, doc)
  BY <1>1 DEF CurRecord
<1>4. IF job[r].op = "create_record" THEN x \notin records
      ELSE x \in records /\ job[r].doc = data[x]
  BY <1>1 DEF CurRecord, Writes
<1>5. CASE InsertRecord(r)
  BY <1>1, <1>2, <1>3, <1>4, <1>5 DEF InsertRecord, Refuse
<1>6. CASE WriteRecord(r)
  <2>1. /\ UNCHANGED <<tables, fields, records, display, required, config>>
        /\ data' = IF x \in records /\ Stored(job[r].defs, doc) # job[r].doc
                   THEN [data EXCEPT ![x] = Stored(job[r].defs, doc)] ELSE data
        /\ job[r].op # "create_record"
    BY <1>6 DEF WriteRecord, At
  <2>2. data' # data
    BY <1>1, <2>1 DEF rows
  <2> QED BY <1>1, <1>2, <1>3, <1>4, <2>1, <2>2
<1> QED BY <1>5, <1>6

LEMMA FieldDropped ==
  ASSUME CInv, NEW r \in Slots, Acts(r), DropField(r)
  PROVE  LET f == job[r].row
             t == TableOf[f]
             k == KeyOf[f]
         IN  /\ f \in fields /\ t \in Tables /\ k \in Keys
             /\ job[r].op = "delete_field"
             /\ UNCHANGED <<tables, records>>
             /\ fields' = fields \ {f}
             /\ required' = [required EXCEPT ![f] = FALSE]
             /\ config' = [config EXCEPT ![f] = NoConfig]
             /\ \A x \in records :
                  data'[x] = IF TableOf[x] = t THEN Stripped(data[x], k)
                             ELSE data[x]
             /\ display' = IF display[t] = k THEN [display EXCEPT ![t] = None]
                           ELSE display
<1> DEFINE f == job[r].row
           t == TableOf[f]
           k == KeyOf[f]
           found == job[r].found
           holders == {x \in Records : found[x] # None /\ found[x][k] # None}
<1>1. /\ pc[r] = "commit" /\ job[r].op = "delete_field"
      /\ rows' # rows /\ CurField(pc[r], job[r])
  BY DEF Acts, DropField, At
<1>2. /\ f \in fields /\ job[r].shown = display[t] /\ found = Found(t)
  BY <1>1 DEF CurField
<1>3. f \in Fields /\ t \in Tables /\ k \in Keys
  BY <1>2, IdsAssumption DEF CInv, IInv, TypeOK
<1>4. /\ fields' = fields \ {f}
      /\ required' = [required EXCEPT ![f] = FALSE]
      /\ config' = [config EXCEPT ![f] = NoConfig]
      /\ data' = [x \in Records |->
                    IF x \in holders THEN Stripped(found[x], k) ELSE data[x]]
      /\ display' = IF job[r].shown = k THEN [display EXCEPT ![t] = None]
                    ELSE display
      /\ UNCHANGED <<tables, records>>
  BY <1>1 DEF DropField, Refuse
<1>5. ASSUME NEW x \in records
      PROVE  data'[x] = IF TableOf[x] = t THEN Stripped(data[x], k) ELSE data[x]
  <2>1. x \in Records /\ data[x] \in Documents /\ data[x] # None
    BY NoneAssumption DEF CInv, IInv, TypeOK
  <2>2. found[x] = IF TableOf[x] = t THEN data[x] ELSE None
    BY <1>2, <2>1 DEF Found, RecordsOf
  <2>3. x \in holders <=> TableOf[x] = t /\ data[x][k] # None
    BY <2>1, <2>2
  <2>4. data[x][k] = None => Stripped(data[x], k) = data[x]
    BY <1>3, <2>1 DEF Stripped, Documents
  <2> HIDE DEF holders
  <2> QED BY <1>4, <2>1, <2>2, <2>3, <2>4
<1> QED BY <1>1, <1>2, <1>3, <1>4, <1>5

LEMMA TableDropped ==
  ASSUME CInv, NEW r \in Slots, DropTable(r)
  PROVE  LET t == job[r].row
         IN  /\ tables' = tables \ {t}
             /\ fields' = {f \in fields : TableOf[f] # t}
             /\ records' = {x \in records : TableOf[x] # t}
             /\ display' = [display EXCEPT ![t] = None]
             /\ \A f \in fields' : required'[f] = required[f] /\ config'[f] = config[f]
             /\ \A x \in records' : data'[x] = data[x]
<1> DEFINE t == job[r].row
           mine == {i \in fields \cup records : TableOf[i] = t}
<1>1. /\ tables' = tables \ {t} /\ fields' = fields \ mine
      /\ records' = records \ mine
      /\ display' = [display EXCEPT ![t] = None]
      /\ required' = [f \in Fields |-> f \notin mine /\ required[f]]
      /\ config' = [f \in Fields |-> IF f \in mine THEN NoConfig ELSE config[f]]
      /\ data' = [x \in Records |-> IF x \in mine THEN NoData ELSE data[x]]
  BY DEF DropTable
<1>2. fields \subseteq Fields /\ records \subseteq Records
      /\ required \in [Fields -> BOOLEAN]
  BY DEF CInv, IInv, TypeOK
<1>3. \A f \in fields' : f \in Fields /\ f \notin mine /\ required[f] \in BOOLEAN
  BY <1>1, <1>2
<1>4. \A f \in fields' : required'[f] = required[f]
  BY <1>1, <1>3
<1> QED BY <1>1, <1>2, <1>3, <1>4

(* The commits that leave fields, records and documents alone.             *)
LEMMA OthersWritten ==
  ASSUME CInv, NEW r \in Slots, Acts(r)
  PROVE  /\ InsertTable(r) =>
              /\ UNCHANGED <<fields, records, display, required, config, data>>
              /\ tables' = tables \cup {job[r].row}
         /\ WriteTable(r) =>
              /\ UNCHANGED <<tables, fields, records, required, config, data>>
              /\ job[r].op = "update_table" /\ job[r].key \in KeysTaken(job[r].row)
              /\ job[r].row \in tables
              /\ display' = [display EXCEPT ![job[r].row] = job[r].key]
         /\ WriteField(r) =>
              /\ UNCHANGED <<tables, fields, records, display, data>>
              /\ job[r].op = "update_field"
         /\ InsertField(r) =>
              /\ UNCHANGED <<tables, records, data>>
              /\ job[r].op = "create_field"
              /\ job[r].row \in Fields /\ TableOf[job[r].row] \in tables
              /\ KeyOf[job[r].row] \notin KeysTaken(TableOf[job[r].row])
              /\ fields' = fields \cup {job[r].row}
              /\ required' = [required EXCEPT ![job[r].row] = job[r].required]
              /\ config' = [config EXCEPT ![job[r].row] = job[r].config]
              /\ display' = IF /\ display[TableOf[job[r].row]] = None
                               /\ TypeOf[job[r].row] \in {"text", "long_text"}
                            THEN [display EXCEPT ![TableOf[job[r].row]] =
                                    KeyOf[job[r].row]]
                            ELSE display
         /\ DropRecord(r) =>
              /\ UNCHANGED <<tables, fields, display, required, config>>
              /\ records' = records \ {job[r].row}
              /\ data' = [data EXCEPT ![job[r].row] = NoData]
<1>1. rows' # rows /\ CurTable(pc[r], job[r]) /\ CurField(pc[r], job[r])
  BY DEF Acts
<1>2. ASSUME InsertTable(r)
      PROVE  /\ UNCHANGED <<fields, records, display, required, config, data>>
             /\ tables' = tables \cup {job[r].row}
  BY <1>1, <1>2 DEF InsertTable, Refuse
<1>3. ASSUME WriteTable(r)
      PROVE  /\ UNCHANGED <<tables, fields, records, required, config, data>>
             /\ job[r].op = "update_table" /\ job[r].key \in KeysTaken(job[r].row)
             /\ job[r].row \in tables
             /\ display' = [display EXCEPT ![job[r].row] = job[r].key]
  BY <1>1, <1>3 DEF WriteTable, At, CurTable, rows
<1>4. ASSUME WriteField(r)
      PROVE  /\ UNCHANGED <<tables, fields, records, display, data>>
             /\ job[r].op = "update_field"
  BY <1>4 DEF WriteField, At
<1>5. ASSUME InsertField(r)
      PROVE  /\ UNCHANGED <<tables, records, data>>
             /\ job[r].op = "create_field"
             /\ job[r].row \in Fields /\ TableOf[job[r].row] \in tables
             /\ KeyOf[job[r].row] \notin KeysTaken(TableOf[job[r].row])
             /\ fields' = fields \cup {job[r].row}
             /\ required' = [required EXCEPT ![job[r].row] = job[r].required]
             /\ config' = [config EXCEPT ![job[r].row] = job[r].config]
             /\ display' = IF /\ display[TableOf[job[r].row]] = None
                              /\ TypeOf[job[r].row] \in {"text", "long_text"}
                           THEN [display EXCEPT ![TableOf[job[r].row]] =
                                   KeyOf[job[r].row]]
                           ELSE display
  <2>1. job[r].op = "create_field" /\ job[r].row \in Fields
    BY <1>5, OpsTyped DEF InsertField, At, CInv, FieldOps
  <2>2. job[r].shown = display[TableOf[job[r].row]]
    BY <1>1, <2>1 DEF CurField
  <2> QED BY <1>1, <1>5, <2>1, <2>2 DEF InsertField, Refuse
<1>6. ASSUME DropRecord(r)
      PROVE  /\ UNCHANGED <<tables, fields, display, required, config>>
             /\ records' = records \ {job[r].row}
             /\ data' = [data EXCEPT ![job[r].row] = NoData]
  BY <1>6 DEF DropRecord
<1> QED BY <1>2, <1>3, <1>4, <1>5, <1>6

-----------------------------------------------------------------------------
(* No key without a field.                                                 *)

(* What is stored has values under the keys of the fields only.            *)
LEMMA StoredKeys ==
  ASSUME NEW t, NEW doc, NEW k \in Keys,
         Stored(Definitions(t), doc)[k] # None
  PROVE  k \in KeysTaken(t)
BY DEF Stored, Definitions, Definition, KeysTaken

LEMMA OrphansStep ==
  ASSUME CInv, NEW r \in Slots, Acts(r)
  PROVE  Orphans' \subseteq Orphans
<1> SUFFICES ASSUME NEW x \in records', NEW k \in Keys, data'[x][k] # None,
                    k \notin KeysTaken(TableOf[x])'
             PROVE  /\ x \in records /\ data[x][k] # None
                    /\ k \notin KeysTaken(TableOf[x])
  BY DEF Orphans
<1>1. CASE InsertTable(r) \/ WriteTable(r) \/ WriteField(r)
  BY <1>1, OthersWritten DEF KeysTaken, FieldsOf
<1>2. CASE DropTable(r)
  BY <1>2, TableDropped DEF KeysTaken, FieldsOf
<1>3. CASE InsertField(r)
  BY <1>3, OthersWritten DEF KeysTaken, FieldsOf
<1>4. CASE DropField(r)
  <2> DEFINE f == job[r].row
             t == TableOf[f]
  <2>1. /\ fields' = fields \ {f} /\ records' = records
        /\ data'[x] = IF TableOf[x] = t THEN Stripped(data[x], KeyOf[f])
                      ELSE data[x]
        /\ KeyOf[f] \in Keys
    BY <1>4, FieldDropped
  <2>2. x \in records /\ data[x] \in Documents
    BY <2>1 DEF CInv, IInv, TypeOK
  <2>3. data[x][k] # None /\ (TableOf[x] = t => k # KeyOf[f])
    BY <2>1, <2>2 DEF Stripped, Documents
  <2>4. k \notin KeysTaken(TableOf[x])
    BY <2>1, <2>3 DEF KeysTaken, FieldsOf
  <2> QED BY <2>2, <2>3, <2>4
<1>5. CASE InsertRecord(r) \/ WriteRecord(r)
  <2> DEFINE z == job[r].row
             doc == Stored(Definitions(TableOf[z]), Submitted(job[r]))
  <2>1. /\ z \in Records /\ fields' = fields /\ records' = records \cup {z}
        /\ data' = [data EXCEPT ![z] = doc]
    BY <1>5, DocumentWritten
  <2>2. data \in [Records -> Documents]
    BY DEF CInv, IInv, TypeOK
  <2>3. k \notin KeysTaken(TableOf[x])
    BY <2>1 DEF KeysTaken, FieldsOf
  <2>4. x # z
    <3>1. SUFFICES ASSUME x = z PROVE FALSE
      OBVIOUS
    <3>2. doc[k] # None
      BY <2>1, <2>2, <3>1
    <3> HIDE DEF doc
    <3> QED BY <2>3, <3>1, <3>2, StoredKeys DEF doc
  <2> QED BY <2>1, <2>2, <2>3, <2>4
<1>6. CASE DropRecord(r)
  <2>1. /\ fields' = fields /\ records' = records \ {job[r].row}
        /\ data' = [data EXCEPT ![job[r].row] = NoData]
    BY <1>6, OthersWritten
  <2>2. data \in [Records -> Documents] /\ x \in Records
    BY <2>1 DEF CInv, IInv, TypeOK
  <2> QED BY <2>1, <2>2 DEF KeysTaken, FieldsOf
<1> QED BY <1>1, <1>2, <1>3, <1>4, <1>5, <1>6 DEF Acts, Write

(* Values without a field come from requests that overlap, and from        *)
(* nothing else (delete_field, validate_payload).                          *)
THEOREM OrphansNeedTwo == Spec => OrphansNeedOverlap
<1>1. CInv /\ [Next]_vars => [Alone => Orphans' \subseteq Orphans]_vars
  BY AloneCommits, OrphansStep
<1> QED BY <1>1, Knowledge, PTL DEF Spec, OrphansNeedOverlap

-----------------------------------------------------------------------------
(* The display field.                                                      *)

LEMMA DisplayStep ==
  ASSUME CInv, NEW r \in Slots, Acts(r)
  PROVE  /\ Undisplayable' \subseteq Undisplayable
         /\ \A t \in tables \cap tables' :
              display[t] # None /\ display'[t] # display[t] =>
                \/ Does(r, "update_table")
                \/ /\ Does(r, "delete_field")
                   /\ KeyOf[job[r].row] = display[t]
                   /\ display'[t] = None
<1>1. display \in [Tables -> Keys \cup {None}] /\ tables \subseteq Tables
  BY DEF CInv, IInv, TypeOK
<1>2. Commits(r)
  BY DEF Acts
<1>3. CASE InsertTable(r)
  <2>1. UNCHANGED <<fields, display>> /\ tables' = tables \cup {job[r].row}
    BY <1>3, OthersWritten
  <2>2. job[r].row \in Tables
    BY <1>3, OpsTyped DEF CInv, InsertTable, At, TableOps
  <2>3. \A t \in tables' : display[t] # None => t \in tables
    BY <2>1, <2>2 DEF CInv, Blank
  <2> QED BY <2>1, <2>3 DEF Undisplayable, KeysTaken, FieldsOf
<1>4. CASE WriteTable(r)
  <2> DEFINE t == job[r].row
  <2>1. /\ UNCHANGED <<tables, fields>> /\ job[r].op = "update_table"
        /\ job[r].key \in KeysTaken(t)
        /\ t \in tables /\ display' = [display EXCEPT ![t] = job[r].key]
    BY <1>4, OthersWritten
  <2>2. \A u : KeysTaken(u)' = KeysTaken(u)
    BY <2>1 DEF KeysTaken, FieldsOf
  <2>3. /\ display'[t] \in KeysTaken(t)
        /\ \A u \in tables : u # t => display'[u] = display[u]
    BY <1>1, <2>1
  <2>4. Undisplayable' \subseteq Undisplayable
    BY <2>1, <2>2, <2>3 DEF Undisplayable
  <2> QED BY <1>2, <2>1, <2>4 DEF Does
<1>5. CASE DropTable(r)
  BY <1>1, <1>5, TableDropped DEF Undisplayable, KeysTaken, FieldsOf
<1>6. CASE InsertField(r)
  <2> DEFINE f == job[r].row
             t == TableOf[f]
  <2>1. /\ tables' = tables /\ fields' = fields \cup {f} /\ t \in tables
        /\ \/ display' = display
           \/ display[t] = None /\ display' = [display EXCEPT ![t] = KeyOf[f]]
    BY <1>6, OthersWritten
  <2>2. \A u \in tables : KeysTaken(u) \subseteq KeysTaken(u)'
    BY <2>1 DEF KeysTaken, FieldsOf
  <2>3. \A u \in tables : u = t => KeyOf[f] \in KeysTaken(u)'
    BY <2>1 DEF KeysTaken, FieldsOf
  <2>4. \A u \in tables : \/ display'[u] = display[u]
                          \/ u = t /\ display[u] = None /\ display'[u] = KeyOf[f]
    BY <1>1, <2>1
  <2> QED BY <2>1, <2>2, <2>3, <2>4 DEF Undisplayable
<1>7. CASE DropField(r)
  <2> DEFINE f == job[r].row
             t == TableOf[f]
             k == KeyOf[f]
  <2>1. /\ tables' = tables /\ fields' = fields \ {f} /\ t \in Tables
        /\ display' = IF display[t] = k THEN [display EXCEPT ![t] = None]
                      ELSE display
    BY <1>7, FieldDropped
  <2>2. \A u \in tables : display'[u] # None =>
          /\ display'[u] = display[u]
          /\ u = t => display[u] # k
    BY <1>1, <2>1
  <2>3. \A u \in tables : \A l \in KeysTaken(u) :
          (u = t => l # k) => l \in KeysTaken(u)'
    BY <2>1 DEF KeysTaken, FieldsOf
  <2>4. Undisplayable' \subseteq Undisplayable
    BY <2>1, <2>2, <2>3 DEF Undisplayable
  <2>5. \A u \in tables : display'[u] # display[u] =>
          display[u] = k /\ display'[u] = None
    BY <1>1, <2>1
  <2>6. Does(r, "delete_field")
    BY <1>2, <1>7 DEF Does, DropField, At
  <2> QED BY <1>1, <2>1, <2>4, <2>5, <2>6
<1>8. CASE UNCHANGED <<tables, fields, display>>
  BY <1>8 DEF Undisplayable, KeysTaken, FieldsOf
<1> QED BY <1>3, <1>4, <1>5, <1>6, <1>7, <1>8, OthersWritten, DocumentWritten
        DEF Acts, Write

(* A table shows a field that it has, whatever requests do that do not     *)
(* overlap.                                                                *)
THEOREM DisplayKept == Spec => DisplayNeedsOverlap
<1>1. CInv /\ [Next]_vars =>
        [Alone => Undisplayable' \subseteq Undisplayable]_vars
  BY AloneCommits, DisplayStep
<1> QED BY <1>1, Knowledge, PTL DEF Spec, DisplayNeedsOverlap

(* It goes on showing that field until it is asked to show another, or the *)
(* field is deleted (update_table, delete_field, create_field).            *)
THEOREM DisplayExchanged == Spec => DisplayChangesOnRequest
<1>1. CInv /\ [Next]_vars =>
        [ Alone =>
          \A t \in tables \cap tables' :
            display[t] # None /\ display'[t] # display[t] =>
              \E r \in Slots :
                \/ Does(r, "update_table")
                \/ /\ Does(r, "delete_field")
                   /\ KeyOf[job[r].row] = display[t]
                   /\ display'[t] = None ]_vars
  BY AloneCommits, DisplayStep
<1> QED BY <1>1, Knowledge, PTL DEF Spec, DisplayChangesOnRequest

-----------------------------------------------------------------------------
(* Relations that lead nowhere.                                            *)

(* A key of a table belongs to one definition.                             *)
LEMMA OneDefinition ==
  ASSUME CInv, NEW t, NEW d \in Definitions(t), NEW e \in Definitions(t),
         KeyOf[d.field] = KeyOf[e.field]
  PROVE  d = e
<1>1. PICK f \in fields : TableOf[f] = t /\ d = Definition(f)
  BY DEF Definitions, FieldsOf
<1>2. PICK g \in fields : TableOf[g] = t /\ e = Definition(g)
  BY DEF Definitions, FieldsOf
<1>3. d.field = f /\ e.field = g
  BY <1>1, <1>2 DEF Definition
<1> QED BY <1>1, <1>2, <1>3 DEF CInv, IInv, NamesAreUnique

(* The value stored under the key of a definition.                         *)
LEMMA StoredAt ==
  ASSUME NEW defs, NEW doc, NEW d \in defs, KeyOf[d.field] \in Keys,
         \A e \in defs : KeyOf[e.field] = KeyOf[d.field] => e = d
  PROVE  Stored(defs, doc)[KeyOf[d.field]] =
           IF Given(doc, KeyOf[d.field])
           THEN Coerced(TypeOf[d.field], doc[KeyOf[d.field]]) ELSE None
<1>1. (CHOOSE e \in defs : KeyOf[e.field] = KeyOf[d.field]) = d
  OBVIOUS
<1> QED BY <1>1 DEF Stored

(* A relation that validate_payload admits resolves to the record that it  *)
(* found.                                                                  *)
LEMMA StoredRelation ==
  ASSUME CInv, NEW t, NEW doc \in Documents,
         Accepts(Definitions(t), doc), Related(Definitions(t), doc),
         NEW f \in fields, TableOf[f] = t, TypeOf[f] = "relation",
         Stored(Definitions(t), doc)[KeyOf[f]] # None
  PROVE  Resolves(f, Stored(Definitions(t), doc)[KeyOf[f]])
<1> DEFINE d == Definition(f)
           v == doc[KeyOf[f]]
<1>1. d \in Definitions(t) /\ d.field = f /\ d.config = config[f]
  BY DEF Definitions, Definition, FieldsOf
<1>2. KeyOf[f] \in Keys
  BY IdsAssumption DEF CInv, IInv, TypeOK
<1>3. Stored(Definitions(t), doc)[KeyOf[f]] =
        IF Given(doc, KeyOf[f]) THEN Coerced("relation", v) ELSE None
  BY <1>1, <1>2, OneDefinition, StoredAt
<1>4. Given(doc, KeyOf[f])
  BY <1>3
<1>5. v \in JsonValues
  BY <1>2, <1>4 DEF Given, Documents
<1>6. v.json = "string"
  BY <1>1, <1>4 DEF Accepts, Fits
<1>7. PICK y \in records : v.reads = y /\ TableOf[y] = config[f].target
  BY <1>1, <1>4 DEF Related, Finds
<1>8. Coerced("relation", v) = RefTo(y)
  BY <1>5, <1>6, <1>7 DEF Coerced, RefTo, Text, JsonValues
<1> QED BY <1>3, <1>4, <1>7, <1>8 DEF Resolves

(* A record whose field spells its target the way str() does keeps the     *)
(* record that it refers to.                                               *)
LEMMA RecordDropped ==
  ASSUME CInv, NEW r \in Slots, Acts(r), DropRecord(r),
         NEW x \in records', NEW f \in fields, config[f].plain, Lost(x, f)'
  PROVE  x \in records /\ Lost(x, f)
<1> DEFINE z == job[r].row
<1>1. /\ records' = records \ {z} /\ data' = [data EXCEPT ![z] = NoData]
      /\ fields' = fields /\ config' = config
  BY DEF DropRecord
<1>2. /\ TypeOf[f] = "relation" /\ TableOf[f] = TableOf[x]
      /\ data'[x][KeyOf[f]] # None
      /\ \A y \in records' :
           TableOf[y] = config[f].target => data'[x][KeyOf[f]] # RefTo(y)
  BY <1>1 DEF Lost, Resolves
<1>3. data \in [Records -> Documents] /\ records \subseteq Records
  BY DEF CInv, IInv, TypeOK
<1>4. x \in records /\ data'[x] = data[x]
  BY <1>1, <1>3
<1>5. TableOf[z] = config[f].target => data[x][KeyOf[f]] # RefTo(z)
  <2>1. job[r].op = "delete_record" /\ pc[r] = "dependents" /\ job[r].defs = {}
    BY DEF DropRecord, At
  <2>2. \A g \in fields : Guards(g, z) =>
          \A y \in RecordsOf(TableOf[g]) : data[y][KeyOf[g]] # RefTo(z)
    BY <2>1 DEF Acts, CurRecord
  <2> QED BY <1>2, <1>4, <2>2 DEF Guards, RecordsOf
<1> QED BY <1>1, <1>2, <1>4, <1>5 DEF Lost, Resolves

(* What is left to show once the excuses of DanglingNeedsCause are put     *)
(* aside: the relation f of record x does not get lost.                    *)
LEMMA DanglingStep ==
  ASSUME CInv, NEW r \in Slots, Acts(r),
         NEW x \in records', NEW f \in fields \cap fields',
         config'[f] = config[f], config[f].target \in tables', config[f].plain,
         Lost(x, f)'
  PROVE  x \in records /\ Lost(x, f)
<1>1. /\ TypeOf[f] = "relation" /\ TableOf[f] = TableOf[x]
      /\ data'[x][KeyOf[f]] # None
      /\ \A y \in records' :
           TableOf[y] = config[f].target => data'[x][KeyOf[f]] # RefTo(y)
  BY DEF Lost, Resolves
<1>2. ASSUME x \in records, data'[x][KeyOf[f]] = data[x][KeyOf[f]],
             \A y \in records : TableOf[y] = config[f].target =>
               y \in records' \/ data[x][KeyOf[f]] # RefTo(y)
      PROVE  x \in records /\ Lost(x, f)
  BY <1>1, <1>2 DEF Lost, Resolves
<1>3. CASE InsertTable(r) \/ WriteTable(r) \/ WriteField(r) \/ InsertField(r)
  BY <1>2, <1>3, OthersWritten
<1>4. CASE DropTable(r)
  <2>1. /\ tables' = tables \ {job[r].row}
        /\ records' = {y \in records : TableOf[y] # job[r].row}
        /\ data'[x] = data[x]
    BY <1>4, TableDropped
  <2> QED BY <1>2, <2>1
<1>5. CASE DropField(r)
  <2> DEFINE k == KeyOf[job[r].row]
  <2>1. /\ records' = records /\ k \in Keys
        /\ data'[x] = data[x] \/ data'[x] = Stripped(data[x], k)
    BY <1>5, FieldDropped
  <2>2. data[x] \in Documents /\ KeyOf[f] \in Keys
    BY <2>1, IdsAssumption DEF CInv, IInv, TypeOK
  <2>3. data'[x][KeyOf[f]] = data[x][KeyOf[f]]
    BY <1>1, <2>1, <2>2 DEF Stripped, Documents
  <2> QED BY <1>2, <2>1, <2>3
<1>6. CASE InsertRecord(r) \/ WriteRecord(r)
  <2> DEFINE z == job[r].row
             defs == Definitions(TableOf[z])
             doc == Submitted(job[r])
  <2>1. /\ z \in Records /\ doc \in Documents
        /\ Accepts(defs, doc) /\ Related(defs, doc)
        /\ records' = records \cup {z}
        /\ data' = [data EXCEPT ![z] = Stored(defs, doc)]
    BY <1>6, DocumentWritten
  <2>2. data \in [Records -> Documents]
    BY DEF CInv, IInv, TypeOK
  <2>3. CASE x # z
    <3>1. x \in records /\ data'[x] = data[x]
      BY <2>1, <2>2, <2>3
    <3> QED BY <1>2, <2>1, <3>1
  <2>4. CASE x = z
    <3>1. data'[x] = Stored(defs, doc)
      BY <2>1, <2>2, <2>4
    <3>2. Resolves(f, Stored(defs, doc)[KeyOf[f]])
      BY <1>1, <2>1, <2>4, <3>1, StoredRelation
    <3> QED BY <1>1, <2>1, <3>1, <3>2 DEF Resolves
  <2> QED BY <2>3, <2>4
<1>7. CASE DropRecord(r)
  BY <1>7, RecordDropped
<1> QED BY <1>3, <1>4, <1>5, <1>6, <1>7 DEF Acts, Write

(* A relation gets lost only by overlap, by delete_table, by update_field, *)
(* by a new field over an orphaned value, or through a target that         *)
(* delete_record does not recognise.                                       *)
THEOREM DanglingExplained == Spec => DanglingNeedsCause
<1>1. ASSUME CInv, [Next]_vars, Alone, NEW p \in Dangling' \ Dangling
      PROVE  LET f == p[2]
             IN  \/ f \notin fields
                 \/ config[f].target \notin tables'
                 \/ config'[f] # config[f]
                 \/ ~config[f].plain
  <2>1. PICK r \in Slots : Acts(r)
    BY <1>1, AloneCommits
  <2>2. /\ p \in records' \X fields' /\ Lost(p[1], p[2])'
    BY <1>1 DEF Dangling
  <2>3. ~(p[1] \in records /\ p[2] \in fields /\ Lost(p[1], p[2]))
    BY <1>1, <2>2 DEF Dangling
  <2> QED BY <1>1, <2>1, <2>2, <2>3, DanglingStep
<1>2. CInv /\ [Next]_vars =>
        [ Alone =>
          \A p \in Dangling' \ Dangling :
            LET f == p[2]
            IN  \/ f \notin fields
                \/ config[f].target \notin tables'
                \/ config'[f] # config[f]
                \/ ~config[f].plain ]_vars
  BY <1>1
<1> QED BY <1>2, Knowledge, PTL DEF Spec, DanglingNeedsCause

(* Every relation spells its target the way str() spells a uuid.           *)
TargetsPlain == \A f \in fields : config[f].plain

(* A referenced record is not deleted but by overlap, for any tables,      *)
(* fields and records, as long as every target is spelled plainly: the     *)
(* spelling is all that breaks the promise of RELATIONS.md for a request   *)
(* that nobody overtakes.                                                  *)
THEOREM PlainDeletionRestricted == Spec /\ []TargetsPlain => DeletionRestricted
<1>1. ASSUME CInv, TargetsPlain, [Next]_vars, Alone,
             NEW q \in Slots, NEW p \in Dangling' \ Dangling,
             Does(q, "delete_record")
      PROVE  FALSE
  <2>1. PICK r \in Slots : Acts(r)
    BY <1>1, AloneCommits
  <2>2. End(r)
    BY <2>1, WriteEnds DEF Acts
  <2>3. q = r
    BY <1>1, <2>2 DEF End, CInv, IInv, TypeOK, Does, Commits
  <2>4. DropRecord(r)
    <3>1. job[r].op = "delete_record"
      BY <1>1, <2>3 DEF Does
    <3> QED BY <2>1, <3>1
            DEF Acts, Write, At, InsertTable, WriteTable, DropTable, InsertField,
                WriteField, DropField, InsertRecord, WriteRecord
  <2>5. fields' = fields
    BY <2>4 DEF DropRecord
  <2>6. p[1] \in records' /\ p[2] \in fields /\ Lost(p[1], p[2])'
    BY <1>1, <2>5 DEF Dangling
  <2>7. p[1] \in records /\ Lost(p[1], p[2])
    BY <1>1, <2>1, <2>4, <2>6, RecordDropped DEF TargetsPlain
  <2>8. p \in records \X fields
    <3>1. p \in records' \X fields'
      BY <1>1 DEF Dangling
    <3> QED BY <2>6, <2>7, <3>1
  <2> QED BY <1>1, <2>7, <2>8 DEF Dangling
<1>2. CInv /\ TargetsPlain /\ [Next]_vars =>
        [ Alone =>
          \A r \in Slots, p \in Dangling' \ Dangling :
            ~Does(r, "delete_record") ]_vars
  BY <1>1
<1> QED BY <1>2, Knowledge, PTL DEF Spec, DeletionRestricted

-----------------------------------------------------------------------------
(* Values that a request is not about.                                     *)

LEMMA StoredLocal ==
  ASSUME NEW defs, NEW doc, NEW old, NEW k \in Keys, doc[k] = old[k]
  PROVE  Stored(defs, doc)[k] = Stored(defs, old)[k]
BY DEF Stored, Given

LEMMA OtherValuesStep ==
  ASSUME CInv, NEW r \in Slots, Acts(r),
         NEW x \in (records \cap records') \ Invalid, NEW k \in Keys,
         data'[x][k] # data[x][k]
  PROVE  MayWrite(r, x, k)
<1>1. Commits(r)
  BY DEF Acts
<1>2. data \in [Records -> Documents] /\ records \subseteq Records
  BY DEF CInv, IInv, TypeOK
<1>3. CASE DropField(r)
  <2> DEFINE f == job[r].row
  <2>1. /\ job[r].op = "delete_field" /\ KeyOf[f] \in Keys
        /\ data'[x] = IF TableOf[x] = TableOf[f]
                      THEN Stripped(data[x], KeyOf[f]) ELSE data[x]
    BY <1>3, FieldDropped
  <2>2. TableOf[x] = TableOf[f] /\ KeyOf[f] = k
    BY <1>2, <2>1 DEF Stripped, Documents
  <2> QED BY <1>1, <2>1, <2>2 DEF MayWrite, Does
<1>4. CASE InsertRecord(r) \/ WriteRecord(r)
  <2> DEFINE z == job[r].row
             defs == Definitions(TableOf[z])
             doc == Submitted(job[r])
  <2>1. /\ job[r].op \in Writes
        /\ IF job[r].op = "create_record" THEN z \notin records
           ELSE z \in records /\ job[r].doc = data[z]
        /\ data' = [data EXCEPT ![z] = Stored(defs, doc)]
    BY <1>4, DocumentWritten
  <2>2. x = z /\ job[r].op \in {"replace_record", "patch_record"}
    BY <1>2, <2>1 DEF Writes
  <2>3. CASE job[r].op = "replace_record"
    BY <1>1, <2>2, <2>3 DEF MayWrite, Does
  <2>4. CASE job[r].op = "patch_record" /\ job[r].payload[k] # None
    BY <1>1, <2>2, <2>4 DEF MayWrite, Does
  <2>5. CASE job[r].op = "patch_record" /\ job[r].payload[k] = None
    <3>1. doc[k] = data[x][k]
      BY <2>1, <2>2, <2>5 DEF Submitted, Merge
    <3>2. Stored(defs, data[x]) = data[x]
      BY <2>2 DEF Invalid
    <3>3. data'[x] = Stored(defs, doc)
      BY <1>2, <2>1, <2>2
    <3>4. Stored(defs, doc)[k] = Stored(defs, data[x])[k]
      BY <3>1, StoredLocal
    <3> QED BY <3>2, <3>3, <3>4
  <2> QED BY <2>2, <2>3, <2>4, <2>5
<1>5. CASE DropTable(r)
  BY <1>5, TableDropped
<1>6. CASE InsertTable(r) \/ WriteTable(r) \/ WriteField(r) \/ InsertField(r)
  BY <1>6, OthersWritten
<1>7. CASE DropRecord(r)
  BY <1>2, <1>7, OthersWritten
<1> QED BY <1>3, <1>4, <1>5, <1>6, <1>7 DEF Acts, Write

(* A request changes the values it is about and no others of a valid       *)
(* record, unless it was overtaken.                                        *)
THEOREM ValuesKept == Spec => OtherValuesKept
<1>1. CInv /\ [Next]_vars =>
        [ Alone =>
          \A x \in (records \cap records') \ Invalid, k \in Keys :
            data'[x][k] # data[x][k] => \E r \in Slots : MayWrite(r, x, k) ]_vars
  BY AloneCommits, OtherValuesStep
<1> QED BY <1>1, Knowledge, PTL DEF Spec, OtherValuesKept

-----------------------------------------------------------------------------
(* Records stay what validate_payload makes of them.                       *)

Valid(defs, doc) == Accepts(defs, doc) /\ Stored(defs, doc) = doc

(* Coercion keeps a value in its type, changes it once only and does not   *)
(* empty it.                                                               *)
LEMMA CoercionKeeps ==
  ASSUME NEW type, NEW options, NEW v \in JsonValues
  PROVE  /\ Fits(type, options, v) => Fits(type, options, Coerced(type, v))
         /\ Coerced(type, Coerced(type, v)) = Coerced(type, v)
         /\ IsEmpty(Coerced(type, v)) <=> IsEmpty(v)
<1>1. CASE type \in {"date", "relation"}
  <2> DEFINE c == [v EXCEPT !.canonical = TRUE]
  <2>1. Coerced(type, v) = c /\ Coerced(type, c) = [c EXCEPT !.canonical = TRUE]
    BY <1>1 DEF Coerced
  <2>2. c.json = v.json /\ c.reads = v.reads /\ [c EXCEPT !.canonical = TRUE] = c
    BY DEF JsonValues
  <2> HIDE DEF c
  <2> QED BY <1>1, <2>1, <2>2 DEF Fits, IsEmpty
<1>2. CASE type \notin {"date", "relation"}
  BY <1>2 DEF Coerced
<1> QED BY <1>1, <1>2

(* validate_payload would accept what it returned, and return it again.    *)
LEMMA ValidationStable ==
  ASSUME CInv, NEW t, NEW doc \in Documents, Accepts(Definitions(t), doc)
  PROVE  Valid(Definitions(t), Stored(Definitions(t), doc))
<1> DEFINE defs == Definitions(t)
           s == Stored(defs, doc)
<1>1. s \in Documents
  BY StoredTyped
<1>2. \A d \in defs : KeyOf[d.field] \in Keys
  BY IdsAssumption DEF CInv, IInv, TypeOK, Definitions, FieldsOf, Definition
<1>3. ASSUME NEW k \in Keys, NEW d \in defs, KeyOf[d.field] = k
      PROVE  LET v == doc[k]
             IN  /\ s[k] = IF Given(doc, k) THEN Coerced(TypeOf[d.field], v)
                           ELSE None
                 /\ Given(s, k) <=> Given(doc, k)
                 /\ Given(doc, k) =>
                      Fits(TypeOf[d.field], d.config.options, s[k])
                 /\ Stored(defs, s)[k] = s[k]
  <2> DEFINE v == doc[k]
             type == TypeOf[d.field]
  <2>1. \A u : Stored(defs, u)[k] =
                 IF Given(u, k) THEN Coerced(type, u[k]) ELSE None
    BY <1>3, OneDefinition, StoredAt
  <2>2. CASE Given(doc, k)
    <3>1. v \in JsonValues
      BY <2>2 DEF Given, Documents
    <3>2. s[k] = Coerced(type, v)
      BY <2>1, <2>2
    <3>3. Coerced(type, v) \in JsonValues
      BY <3>1 DEF Coerced, JsonValues
    <3>4. ~IsEmpty(v) /\ Fits(type, d.config.options, v)
      BY <1>3, <2>2 DEF Accepts, Given
    <3>5. /\ ~IsEmpty(Coerced(type, v))
          /\ Fits(type, d.config.options, Coerced(type, v))
          /\ Coerced(type, Coerced(type, v)) = Coerced(type, v)
      BY <3>1, <3>4, CoercionKeeps
    <3>6. Given(s, k)
      BY <3>2, <3>3, <3>5, NoneAssumption DEF Given
    <3>7. Stored(defs, s)[k] = s[k]
      BY <2>1, <3>2, <3>5, <3>6
    <3> HIDE DEF s, defs
    <3> QED BY <2>2, <3>2, <3>5, <3>6, <3>7
  <2>3. CASE ~Given(doc, k)
    <3>1. s[k] = None
      BY <2>1, <2>3
    <3>2. ~Given(s, k)
      BY <3>1 DEF Given
    <3>3. Stored(defs, s)[k] = None
      BY <2>1, <3>2
    <3> HIDE DEF s, defs
    <3> QED BY <2>3, <3>1, <3>2, <3>3
  <2> QED BY <2>2, <2>3
<1>4. ASSUME NEW k \in Keys, ~ \E d \in defs : KeyOf[d.field] = k
      PROVE  s[k] = None /\ Stored(defs, s)[k] = None
  BY <1>4 DEF Stored
<1>5. Accepts(defs, s)
  <2>1. \A k \in Keys : s[k] # None => \E d \in defs : KeyOf[d.field] = k
    BY <1>4
  <2>2. ASSUME NEW d \in defs
        PROVE  IF Given(s, KeyOf[d.field])
               THEN Fits(TypeOf[d.field], d.config.options, s[KeyOf[d.field]])
               ELSE ~d.required
    BY <1>2, <1>3, <2>2 DEF Accepts
  <2> HIDE DEF s, defs
  <2> QED BY <2>1, <2>2 DEF Accepts
<1>6. Stored(defs, s) = s
  <2>1. \A k \in Keys : Stored(defs, s)[k] = s[k]
    BY <1>3, <1>4
  <2>2. Stored(defs, s) \in Documents
    BY <1>1, StoredTyped
  <2> HIDE DEF s, defs
  <2> QED BY <1>1, <2>1, <2>2 DEF Documents
<1> QED BY <1>5, <1>6 DEF Valid

Unambiguous(defs) ==
  \A d, e \in defs : KeyOf[d.field] = KeyOf[e.field] => d = e

(* A key is stored alike under definitions that agree on it.               *)
LEMMA StoredSame ==
  ASSUME NEW defs, NEW more, NEW doc, NEW k \in Keys, Unambiguous(defs),
         \A d : KeyOf[d.field] = k => (d \in defs <=> d \in more)
  PROVE  Stored(defs, doc)[k] = Stored(more, doc)[k]
<1>1. CASE \E d \in defs : KeyOf[d.field] = k
  <2>1. PICK d \in defs : KeyOf[d.field] = k
    BY <1>1
  <2>2. d \in more /\ \A e \in more : KeyOf[e.field] = k => e = d
    BY <2>1 DEF Unambiguous
  <2>3. \A e \in defs : KeyOf[e.field] = k => e = d
    BY <2>1 DEF Unambiguous
  <2> QED BY <2>1, <2>2, <2>3, StoredAt
<1>2. CASE ~ \E d \in defs : KeyOf[d.field] = k
  BY <1>2 DEF Stored
<1> QED BY <1>1, <1>2

(* A new field that may be left out keeps a document valid.                *)
LEMMA OptionalFieldAdded ==
  ASSUME NEW defs, NEW doc \in Documents, Valid(defs, doc), Unambiguous(defs),
         NEW d, ~d.required, KeyOf[d.field] \in Keys,
         \A e \in defs : KeyOf[e.field] # KeyOf[d.field]
  PROVE  Valid(defs \cup {d}, doc)
<1> DEFINE more == defs \cup {d}
<1>1. Accepts(defs, doc) /\ Stored(defs, doc) = doc
  BY DEF Valid
<1>2. doc[KeyOf[d.field]] = None
  BY <1>1 DEF Accepts
<1>3. Accepts(more, doc)
  BY <1>1, <1>2 DEF Accepts, Given
<1>4. ASSUME NEW k \in Keys PROVE Stored(more, doc)[k] = doc[k]
  <2>1. CASE k = KeyOf[d.field]
    BY <1>2, <2>1 DEF Stored, Given
  <2>2. CASE k # KeyOf[d.field]
    <3>1. \A e : KeyOf[e.field] = k => (e \in defs <=> e \in more)
      BY <2>2
    <3>2. Stored(defs, doc)[k] = Stored(more, doc)[k]
      BY <3>1, StoredSame
    <3> QED BY <1>1, <3>2
  <2> QED BY <2>1, <2>2
<1>5. Stored(more, doc) \in Documents
  BY StoredTyped
<1> HIDE DEF more
<1>6. Stored(more, doc) = doc
  BY <1>4, <1>5 DEF Documents
<1> QED BY <1>3, <1>6 DEF Valid, more

(* A document stays valid without a field and its key.                     *)
LEMMA FieldTakenAway ==
  ASSUME NEW defs, NEW doc \in Documents, Valid(defs, doc), Unambiguous(defs),
         NEW d \in defs, KeyOf[d.field] \in Keys,
         \A e \in defs : KeyOf[e.field] \in Keys
  PROVE  Valid(defs \ {d}, Stripped(doc, KeyOf[d.field]))
<1> DEFINE less == defs \ {d}
           l == KeyOf[d.field]
           s == Stripped(doc, l)
<1>1. Accepts(defs, doc) /\ Stored(defs, doc) = doc
  BY DEF Valid
<1>2. /\ s \in Documents /\ s[l] = None
      /\ \A k \in Keys : k # l => s[k] = doc[k]
  BY DEF Stripped, Documents
<1>3. \A e \in less : e \in defs /\ KeyOf[e.field] # l
  BY DEF Unambiguous
<1>4. \A e \in defs : KeyOf[e.field] # l => e \in less
  OBVIOUS
<1> HIDE DEF less, s
<1>5. Accepts(less, s)
  <2>1. \A k \in Keys : s[k] # None => \E e \in less : KeyOf[e.field] = k
    BY <1>1, <1>2, <1>4 DEF Accepts
  <2>2. \A e \in less :
          IF Given(s, KeyOf[e.field])
          THEN Fits(TypeOf[e.field], e.config.options, s[KeyOf[e.field]])
          ELSE ~e.required
    BY <1>1, <1>2, <1>3 DEF Accepts, Given
  <2> QED BY <2>1, <2>2 DEF Accepts
<1>6. ASSUME NEW k \in Keys PROVE Stored(less, s)[k] = s[k]
  <2>1. CASE k = l
    BY <1>2, <2>1 DEF Stored, Given
  <2>2. CASE k # l
    <3>1. Stored(less, s)[k] = Stored(less, doc)[k]
      BY <1>2, <2>2, StoredLocal
    <3>2. \A e : KeyOf[e.field] = k => (e \in defs <=> e \in less)
      BY <1>3, <1>4, <2>2
    <3>3. Stored(defs, doc)[k] = Stored(less, doc)[k]
      BY <3>2, StoredSame
    <3> QED BY <1>1, <1>2, <2>2, <3>1, <3>3
  <2> QED BY <2>1, <2>2
<1>7. Stored(less, s) \in Documents
  BY <1>2, StoredTyped
<1>8. Stored(less, s) = s
  BY <1>2, <1>6, <1>7 DEF Documents
<1> QED BY <1>5, <1>8 DEF Valid, less, s

LEMMA DefinitionsFine ==
  ASSUME CInv, NEW t
  PROVE  /\ Unambiguous(Definitions(t))
         /\ \A d \in Definitions(t) : KeyOf[d.field] \in Keys
<1>1. Unambiguous(Definitions(t))
  BY OneDefinition DEF Unambiguous
<1>2. \A d \in Definitions(t) : KeyOf[d.field] \in Keys
  BY IdsAssumption DEF CInv, IInv, TypeOK, Definitions, FieldsOf, Definition
<1> QED BY <1>1, <1>2

(* The definitions of a table change with its fields.                      *)
LEMMA DefinitionsSame ==
  ASSUME NEW t, \A f : TableOf[f] = t => (f \in fields <=> f \in fields'),
         \A f \in fields : TableOf[f] = t =>
           required'[f] = required[f] /\ config'[f] = config[f]
  PROVE  Definitions(t)' = Definitions(t)
<1>1. FieldsOf(t)' = FieldsOf(t)
  BY DEF FieldsOf
<1>2. \A f \in FieldsOf(t) : Definition(f)' = Definition(f)
  BY DEF Definition, FieldsOf
<1> QED BY <1>1, <1>2 DEF Definitions

LEMMA ValidStep ==
  ASSUME CInv, NEW r \in Slots, Acts(r),
         ~(job[r].op = "create_field" /\ job[r].required),
         job[r].op # "update_field",
         NEW x \in records',
         x \in records => Valid(Definitions(TableOf[x]), data[x])
  PROVE  Valid(Definitions(TableOf[x])', data'[x])
<1> DEFINE t == TableOf[x]
<1>1. /\ data \in [Records -> Documents] /\ records \subseteq Records
      /\ fields \subseteq Fields /\ required \in [Fields -> BOOLEAN]
      /\ config \in [Fields -> AllConfigs]
  BY DEF CInv, IInv, TypeOK
<1>2. ASSUME x \in records, data'[x] = data[x],
             Definitions(t)' = Definitions(t)
      PROVE  Valid(Definitions(t)', data'[x])
  BY <1>2
<1>3. CASE InsertTable(r) \/ WriteTable(r)
  <2>1. UNCHANGED <<fields, records, required, config, data>>
    BY <1>3, OthersWritten
  <2>2. Definitions(t)' = Definitions(t)
    BY <2>1, DefinitionsSame
  <2> QED BY <1>2, <2>1, <2>2
<1>4. CASE DropTable(r)
  <2>1. /\ x \in records /\ t # job[r].row /\ data'[x] = data[x]
        /\ fields' = {f \in fields : TableOf[f] # job[r].row}
        /\ \A f \in fields' : required'[f] = required[f] /\ config'[f] = config[f]
    BY <1>4, TableDropped
  <2>2. Definitions(t)' = Definitions(t)
    BY <2>1, DefinitionsSame
  <2> QED BY <1>2, <2>1, <2>2
<1>5. CASE InsertField(r)
  <2> DEFINE g == job[r].row
  <2>1. /\ g \in Fields /\ KeyOf[g] \notin KeysTaken(TableOf[g])
        /\ fields' = fields \cup {g} /\ UNCHANGED <<records, data>>
        /\ required' = [required EXCEPT ![g] = job[r].required]
        /\ config' = [config EXCEPT ![g] = job[r].config]
        /\ ~job[r].required
    BY <1>5, OthersWritten
  <2>2. g \notin fields
    BY <2>1 DEF KeysTaken, FieldsOf
  <2>3. \A f \in fields : required'[f] = required[f] /\ config'[f] = config[f]
    BY <1>1, <2>1, <2>2
  <2>4. CASE TableOf[g] # t
    <3>1. Definitions(t)' = Definitions(t)
      BY <2>1, <2>3, <2>4, DefinitionsSame
    <3> QED BY <1>2, <2>1, <3>1
  <2>5. CASE TableOf[g] = t
    <3> DEFINE d == [field |-> g, required |-> required'[g],
                     config |-> config'[g]]
    <3>1. Definitions(t)' = Definitions(t) \cup {d}
      <4>1. \A f \in FieldsOf(t) :
              [field |-> f, required |-> required'[f], config |-> config'[f]] =
                Definition(f)
        BY <2>3 DEF FieldsOf, Definition
      <4>2. FieldsOf(t)' = FieldsOf(t) \cup {g}
        BY <2>1, <2>5 DEF FieldsOf
      <4>3. Definitions(t)' =
              {[field |-> f, required |-> required'[f], config |-> config'[f]] :
                 f \in FieldsOf(t) \cup {g}}
        BY <4>2 DEF Definitions, Definition
      <4>4. Definitions(t) = {Definition(f) : f \in FieldsOf(t)}
        BY DEF Definitions
      <4> QED BY <4>1, <4>3, <4>4
    <3>2. ~d.required
      BY <1>1, <2>1
    <3>3. KeyOf[d.field] \in Keys
      BY <2>1, IdsAssumption
    <3>4. \A e \in Definitions(t) : KeyOf[e.field] # KeyOf[d.field]
      BY <2>1, <2>5 DEF Definitions, Definition, KeysTaken
    <3>5. data[x] \in Documents /\ Valid(Definitions(t), data[x])
      BY <1>1, <2>1
    <3> HIDE DEF d
    <3>6. Valid(Definitions(t) \cup {d}, data[x])
      BY <3>2, <3>3, <3>4, <3>5, DefinitionsFine, OptionalFieldAdded
    <3> QED BY <2>1, <3>1, <3>6
  <2> QED BY <2>4, <2>5
<1>6. CASE DropField(r)
  <2> DEFINE g == job[r].row
             d == Definition(g)
  <2>1. /\ g \in fields /\ fields' = fields \ {g} /\ x \in records
        /\ required' = [required EXCEPT ![g] = FALSE]
        /\ config' = [config EXCEPT ![g] = NoConfig]
        /\ data'[x] = IF t = TableOf[g] THEN Stripped(data[x], KeyOf[g])
                      ELSE data[x]
    BY <1>6, FieldDropped
  <2>2. \A f \in fields \ {g} :
          required'[f] = required[f] /\ config'[f] = config[f]
    BY <1>1, <2>1
  <2>3. CASE TableOf[g] # t
    <3>1. Definitions(t)' = Definitions(t)
      BY <2>1, <2>2, <2>3, DefinitionsSame
    <3> QED BY <1>2, <2>1, <2>3, <3>1
  <2>4. CASE TableOf[g] = t
    <3>1. d \in Definitions(t) /\ KeyOf[d.field] = KeyOf[g] /\ KeyOf[g] \in Keys
      BY <1>1, <2>1, <2>4, IdsAssumption DEF Definitions, FieldsOf, Definition
    <3>2. Definitions(t)' = Definitions(t) \ {d}
      <4>1. \A f \in FieldsOf(t) \ {g} : Definition(f)' = Definition(f)
        BY <2>2 DEF FieldsOf, Definition
      <4>2. FieldsOf(t)' = FieldsOf(t) \ {g}
        BY <2>1 DEF FieldsOf
      <4>3. Definitions(t)' =
              {[field |-> f, required |-> required'[f], config |-> config'[f]] :
                 f \in FieldsOf(t) \ {g}}
        BY <4>2 DEF Definitions, Definition
      <4>4. Definitions(t)' = {Definition(f) : f \in FieldsOf(t) \ {g}}
        BY <4>1, <4>3 DEF Definition
      <4>5. \A f \in FieldsOf(t) : Definition(f) = d => f = g
        BY DEF Definition
      <4>6. d = Definition(g)
        OBVIOUS
      <4>7. Definitions(t) = {Definition(f) : f \in FieldsOf(t)}
        BY DEF Definitions
      <4> HIDE DEF d
      <4> QED BY <4>4, <4>5, <4>6, <4>7
    <3>3. data[x] \in Documents /\ Valid(Definitions(t), data[x])
      BY <1>1, <2>1
    <3> HIDE DEF d
    <3>4. Valid(Definitions(t) \ {d}, Stripped(data[x], KeyOf[g]))
      BY <3>1, <3>3, DefinitionsFine, FieldTakenAway
    <3> QED BY <2>1, <2>4, <3>2, <3>4
  <2> QED BY <2>3, <2>4
<1>7. CASE InsertRecord(r) \/ WriteRecord(r)
  <2> DEFINE z == job[r].row
             doc == Submitted(job[r])
  <2>1. /\ z \in Records /\ doc \in Documents
        /\ Accepts(Definitions(TableOf[z]), doc)
        /\ UNCHANGED <<fields, required, config>>
        /\ records' = records \cup {z}
        /\ data' = [data EXCEPT ![z] = Stored(Definitions(TableOf[z]), doc)]
    BY <1>7, DocumentWritten
  <2>2. Definitions(t)' = Definitions(t)
    BY <2>1, DefinitionsSame
  <2>3. CASE x # z
    <3>1. x \in records /\ data'[x] = data[x]
      BY <1>1, <2>1, <2>3
    <3> QED BY <1>2, <2>2, <3>1
  <2>4. CASE x = z
    <3>1. data'[x] = Stored(Definitions(t), doc)
      BY <1>1, <2>1, <2>4
    <3>2. Valid(Definitions(t), Stored(Definitions(t), doc))
      BY <2>1, <2>4, ValidationStable
    <3> QED BY <2>2, <3>1, <3>2
  <2> QED BY <2>3, <2>4
<1>8. CASE DropRecord(r)
  <2>1. /\ UNCHANGED <<fields, required, config>>
        /\ records' = records \ {job[r].row}
        /\ data' = [data EXCEPT ![job[r].row] = NoData]
    BY <1>8, OthersWritten
  <2>2. x \in records /\ data'[x] = data[x]
    BY <1>1, <2>1
  <2>3. Definitions(t)' = Definitions(t)
    BY <2>1, DefinitionsSame
  <2> QED BY <1>2, <2>2, <2>3
<1>9. ~WriteField(r)
  BY OthersWritten
<1> QED BY <1>3, <1>4, <1>5, <1>6, <1>7, <1>8, <1>9 DEF Acts, Write

(* A stored record becomes invalid only when a required field is added or  *)
(* a field is redefined, or by requests that overlap.                      *)
THEOREM ValidityKept == Spec => RecordsStayValid
<1>1. ASSUME CInv, [Next]_vars, Alone
      PROVE  \/ Invalid' \subseteq Invalid
             \/ \E r \in Slots :
                  \/ Does(r, "create_field") /\ job[r].required
                  \/ Does(r, "update_field")
  <2>1. PICK r \in Slots : Acts(r)
    BY <1>1, AloneCommits
  <2>2. Commits(r)
    BY <2>1 DEF Acts
  <2>3. CASE \/ job[r].op = "create_field" /\ job[r].required
             \/ job[r].op = "update_field"
    BY <2>2, <2>3 DEF Does
  <2>4. CASE /\ ~(job[r].op = "create_field" /\ job[r].required)
             /\ job[r].op # "update_field"
    <3>1. ASSUME NEW x \in Invalid' PROVE x \in Invalid
      <4>1. x \in records' /\ ~Valid(Definitions(TableOf[x])', data'[x])
        BY <3>1 DEF Invalid, Valid
      <4>2. ~(x \in records => Valid(Definitions(TableOf[x]), data[x]))
        BY <1>1, <2>1, <2>4, <4>1, ValidStep
      <4> QED BY <4>2 DEF Invalid, Valid
    <3> QED BY <3>1
  <2> QED BY <2>3, <2>4
<1>2. CInv /\ [Next]_vars =>
        [ Alone =>
          \/ Invalid' \subseteq Invalid
          \/ \E r \in Slots :
               \/ Does(r, "create_field") /\ job[r].required
               \/ Does(r, "update_field") ]_vars
  BY <1>1
<1> QED BY <1>2, Knowledge, PTL DEF Spec, RecordsStayValid
-----------------------------------------------------------------------------
(* Derived names.                                                          *)

(* The letters of the labels, with the digits and separators of the names. *)
LEMMA Letters ==
  \E S : /\ Digits \subseteq S /\ Labels \subseteq Seq(S)
         /\ "-" \in S \ Digits /\ "_" \in S \ Digits
         /\ "table" \in S /\ "field" \in S
<1>1. PICK A : Labels \subseteq Seq(A)
  BY NamesAssumption
<1> DEFINE S == A \cup Digits \cup {"-", "_", "table", "field"}
<1>2. Seq(A) \subseteq Seq(S)
  <2>1. A \subseteq S
    BY Zenon
  <2> HIDE DEF S
  <2> QED BY <2>1, SeqMonotonic
<1>3. "-" \notin Digits /\ "_" \notin Digits
  BY Zenon DEF Digits
<1>4. /\ Digits \subseteq S /\ "-" \in S /\ "_" \in S
      /\ "table" \in S /\ "field" \in S
  BY Zenon
<1> HIDE DEF S
<1> QED BY <1>1, <1>2, <1>3, <1>4, Zenon

(* Rows take no more names than there are ids.                             *)
LEMMA Few ==
  ASSUME NEW ids, IsFiniteSet(ids), NEW some \in SUBSET ids, NEW attribute,
         Cardinality(ids) + 1 < MaxIndex,
         NEW taken, \A x \in taken : \E i \in some : attribute[i] = x
  PROVE  IsFiniteSet(taken) /\ Cardinality(taken) + 1 < MaxIndex
<1> DEFINE image == {attribute[i] : i \in some}
           f == [i \in some |-> attribute[i]]
<1>1. IsFiniteSet(some) /\ Cardinality(some) <= Cardinality(ids)
  BY FS_Subset
<1>2. f \in Surjection(some, image) /\ taken \in SUBSET image
  BY DEF Surjection
<1> HIDE DEF f, image
<1>3. IsFiniteSet(image) /\ Cardinality(image) <= Cardinality(some)
  BY <1>1, <1>2, FS_Surjection
<1>4. IsFiniteSet(taken) /\ Cardinality(taken) <= Cardinality(image)
  BY <1>2, <1>3, FS_Subset
<1>5. /\ Cardinality(taken) \in Nat /\ Cardinality(some) \in Nat
      /\ Cardinality(image) \in Nat /\ Cardinality(ids) \in Nat
      /\ MaxIndex \in Nat
  BY <1>1, <1>3, <1>4, FS_CardinalityType, NumbersAssumption
<1> QED BY <1>1, <1>3, <1>4, <1>5

LEMMA FewSlugs ==
  ASSUME IInv, NEW w
  PROVE  IsFiniteSet(SlugsOf(w)) /\ Cardinality(SlugsOf(w)) + 1 < MaxIndex
<1>1. tables \in SUBSET Tables
  BY DEF IInv, TypeOK
<1>2. \A x \in SlugsOf(w) : \E t \in tables : SlugOf[t] = x
  BY DEF SlugsOf
<1>3. IsFiniteSet(Tables) /\ Cardinality(Tables) + 1 < MaxIndex
  BY NamesAssumption, Zenon
<1> QED BY <1>1, <1>2, <1>3, Few

LEMMA FewKeys ==
  ASSUME IInv, NEW t
  PROVE  IsFiniteSet(KeysTaken(t)) /\ Cardinality(KeysTaken(t)) + 1 < MaxIndex
<1>1. fields \in SUBSET Fields
  BY DEF IInv, TypeOK
<1>2. \A x \in KeysTaken(t) : \E f \in fields : KeyOf[f] = x
  BY DEF KeysTaken, FieldsOf
<1>3. IsFiniteSet(Fields) /\ Cardinality(Fields) + 1 < MaxIndex
  BY NamesAssumption, Zenon
<1> QED BY <1>1, <1>2, <1>3, Few

(* What unique_identifier chooses is free, whatever the label.             *)
FreeSlug(t) ==
  SlugOf[t] \notin SlugsOf(WorkspaceOf[t]) /\ Len(SlugOf[t]) <= MaxLength

FreeKey(f) == KeyOf[f] \notin KeysTaken(TableOf[f])

LEMMA Chosen ==
  ASSUME NEW S, Digits \subseteq S, NEW label \in Seq(S), NEW taken,
         IsFiniteSet(taken), Cardinality(taken) + 1 < MaxIndex,
         NEW separator \in S \ Digits, NEW prefix \in S, NEW name,
         name = UniqueIdentifier(label, taken, separator, prefix)
  PROVE  name \notin taken /\ Len(name) <= MaxLength
BY UniqueIsFree

LEMMA SlugFree ==
  ASSUME IInv, NEW t, NEW label \in Labels,
         SlugOf[t] =
           UniqueIdentifier(label, SlugsOf(WorkspaceOf[t]), "-", "table")
  PROVE  FreeSlug(t)
<1>1. PICK S : /\ Digits \subseteq S /\ Labels \subseteq Seq(S)
               /\ "-" \in S \ Digits /\ "table" \in S
  BY Letters, Zenon
<1>2. label \in Seq(S)
  BY <1>1, Zenon
<1> DEFINE taken == SlugsOf(WorkspaceOf[t])
           name == SlugOf[t]
<1>3. IsFiniteSet(taken) /\ Cardinality(taken) + 1 < MaxIndex
  BY FewSlugs
<1>4. name = UniqueIdentifier(label, taken, "-", "table")
  BY Zenon
<1>5. name \notin taken /\ Len(name) <= MaxLength
  <2> HIDE DEF taken, name
  <2> QED BY <1>1, <1>2, <1>3, <1>4, Chosen, Zenon
<1> QED BY <1>5 DEF FreeSlug

LEMMA KeyFree ==
  ASSUME IInv, NEW f, NEW label \in Labels,
         KeyOf[f] =
           UniqueIdentifier(label, KeysTaken(TableOf[f]), "_", "field")
  PROVE  FreeKey(f)
<1>1. PICK S : /\ Digits \subseteq S /\ Labels \subseteq Seq(S)
               /\ "_" \in S \ Digits /\ "field" \in S
  BY Letters, Zenon
<1>2. label \in Seq(S)
  BY <1>1, Zenon
<1> DEFINE taken == KeysTaken(TableOf[f])
           name == KeyOf[f]
<1>3. IsFiniteSet(taken) /\ Cardinality(taken) + 1 < MaxIndex
  BY FewKeys, Zenon
<1>4. name = UniqueIdentifier(label, taken, "_", "field")
  BY Zenon
<1>5. name \notin taken
  <2> HIDE DEF taken, name
  <2> QED BY <1>1, <1>2, <1>3, <1>4, Chosen, Zenon
<1> QED BY <1>5, Zenon DEF FreeKey

(* The name of what a job is about to insert is free.                      *)
Free(at, j) ==
  at = "commit" =>
    /\ j.op = "create_table" => FreeSlug(j.row)
    /\ j.op = "create_field" => FreeKey(j.row)

LEMMA FreeNames ==
  DerivedNamesAreFree <=> \A r \in Slots \ crossed : Free(pc[r], job[r])
BY DEF DerivedNamesAreFree, At, Free, FreeSlug, FreeKey

NamesFree == \A r \in Slots \ crossed : Free(pc[r], job[r])

LEMMA FreeKept ==
  ASSUME NEW at, NEW j, UNCHANGED rows, Free(at, j)
  PROVE  Free(at, j)'
BY DEF rows, Free, FreeSlug, FreeKey, SlugsOf, KeysTaken, FieldsOf

(* A transaction that ends leaves the others their names, or it overtakes  *)
(* them.                                                                   *)
LEMMA FreeEnds ==
  ASSUME IInv, NamesFree, NEW r \in Slots, End(r)
  PROVE  NamesFree'
<1>1. /\ pc' = [pc EXCEPT ![r] = "idle"] /\ job' = [job EXCEPT ![r] = NoJob]
      /\ crossed' = {q \in Slots \ {r} :
                       q \in crossed \/ (pc[q] # "idle" /\ rows' # rows)}
  BY DEF End
<1>2. SUFFICES ASSUME NEW q \in Slots \ crossed'
               PROVE  Free(pc[q], job[q])'
  BY DEF NamesFree
<1>3. CASE pc'[q] = "idle"
  BY <1>3 DEF Free
<1>4. CASE pc'[q] # "idle"
  <2>1. q # r
    BY <1>1, <1>4 DEF IInv, TypeOK
  <2>2. pc'[q] = pc[q] /\ job'[q] = job[q]
    BY <1>1, <2>1 DEF IInv, TypeOK
  <2>3. q \notin crossed /\ rows' = rows
    BY <1>1, <1>4, <2>1, <2>2
  <2>4. Free(pc[q], job[q])
    BY <2>3 DEF NamesFree
  <2>5. \A at, j : Free(at, j) => Free(at, j)'
    BY <2>3, FreeKept
  <2> QED BY <2>2, <2>4, <2>5
<1> QED BY <1>3, <1>4

(* A statement that reads, or the first one, leaves every name free.       *)
LEMMA FreeReads ==
  ASSUME IInv, NamesFree, NEW r \in Slots, NEW at, NEW j,
         pc' = [pc EXCEPT ![r] = at], job' = [job EXCEPT ![r] = j],
         UNCHANGED <<rows, crossed>>, Free(at, j)
  PROVE  NamesFree'
<1>1. SUFFICES ASSUME NEW q \in Slots \ crossed'
               PROVE  Free(pc[q], job[q])'
  BY DEF NamesFree
<1>2. \A a, k : Free(a, k) => Free(a, k)'
  BY FreeKept
<1>3. Free(pc[q], job[q])
  <2>1. crossed' = crossed
    OBVIOUS
  <2> QED BY <2>1 DEF NamesFree
<1>4. pc'[q] = (IF q = r THEN at ELSE pc[q])
  BY DEF IInv, TypeOK
<1>5. job'[q] = (IF q = r THEN j ELSE job[q])
  BY DEF IInv, TypeOK
<1>6. CASE q = r
  <2>1. pc'[q] = at /\ job'[q] = j
    BY <1>4, <1>5, <1>6
  <2> QED BY <1>2, <2>1
<1>7. CASE q # r
  <2>1. pc'[q] = pc[q] /\ job'[q] = job[q]
    BY <1>4, <1>5, <1>7
  <2> QED BY <1>2, <1>3, <2>1
<1> QED BY <1>6, <1>7

LEMMA FreeJobs ==
  /\ \A t : FreeSlug(t) =>
       Free("commit", [NoJob EXCEPT !.op = "create_table", !.row = t])
  /\ \A t : Free("commit", [NoJob EXCEPT !.op = "delete_table", !.row = t])
  /\ \A at, f, b, c, d :
       Free(at, [NoJob EXCEPT !.op = "update_field", !.row = f, !.required = b,
                              !.config = c, !.defs = d])
BY DEF NoJob, Free

LEMMA FreeArrive ==
  ASSUME IInv, NamesFree, NEW r \in Slots, MetadataArrive(r) \/ RecordArrive(r)
  PROVE  NamesFree'
<1>1. ASSUME NEW at, NEW j, Begin(r, at, j), Free(at, j)
      PROVE  NamesFree'
  <2>1. /\ pc' = [pc EXCEPT ![r] = at] /\ job' = [job EXCEPT ![r] = j]
        /\ UNCHANGED <<rows, crossed>>
    BY <1>1 DEF Begin
  <2> QED BY <1>1, <2>1, FreeReads
<1>2. CASE CreateTable(r)
  <2>1. PICK t \in Tables, label \in Labels :
          /\ SlugOf[t] =
               UniqueIdentifier(label, SlugsOf(WorkspaceOf[t]), "-", "table")
          /\ Begin(r, "commit", [NoJob EXCEPT !.op = "create_table", !.row = t])
    BY <1>2, Zenon DEF CreateTable
  <2>2. FreeSlug(t)
    BY <2>1, SlugFree, Zenon
  <2>3. Free("commit", [NoJob EXCEPT !.op = "create_table", !.row = t])
    BY <2>2, FreeJobs, Zenon
  <2> QED BY <1>1, <2>1, <2>3
<1>3. CASE \/ UpdateTable(r) \/ CreateField(r) \/ DeleteField(r)
           \/ CreateRecord(r) \/ ReplaceRecord(r) \/ PatchRecord(r)
           \/ DeleteRecord(r)
  <2>1. PICK at \in Stages \ {"commit"} : \E j : Begin(r, at, j)
    BY <1>3 DEF UpdateTable, CreateField, DeleteField, CreateRecord,
       ReplaceRecord, PatchRecord, DeleteRecord, Stages
  <2>2. \A j : Free(at, j)
    BY <2>1 DEF Free
  <2> QED BY <1>1, <2>1, <2>2
<1>4. CASE DeleteTable(r)
  <2>1. PICK t \in tables :
          Begin(r, "commit", [NoJob EXCEPT !.op = "delete_table", !.row = t])
    BY <1>4 DEF DeleteTable
  <2>2. Free("commit", [NoJob EXCEPT !.op = "delete_table", !.row = t])
    BY FreeJobs, Zenon
  <2> QED BY <1>1, <2>1, <2>2
<1>5. CASE UpdateField(r)
  <2>1. PICK f, b, c :
          Begin(r, IF c # None THEN "table" ELSE "commit",
                [NoJob EXCEPT !.op = "update_field", !.row = f,
                              !.required = b, !.config = c,
                              !.defs = {Definition(f)}])
    BY <1>5 DEF UpdateField
  <2> DEFINE at == IF c # None THEN "table" ELSE "commit"
  <2>2. Free(at, [NoJob EXCEPT !.op = "update_field", !.row = f,
                               !.required = b, !.config = c,
                               !.defs = {Definition(f)}])
    BY FreeJobs, Zenon
  <2> HIDE DEF at
  <2> QED BY <1>1, <2>1, <2>2 DEF at
<1> QED BY <1>2, <1>3, <1>4, <1>5 DEF MetadataArrive, RecordArrive

LEMMA FreeProceed ==
  ASSUME IInv, NamesFree, NEW r \in Slots,
         \/ CheckDisplayField(r) \/ LoadTable(r) \/ CheckTarget(r)
         \/ NameField(r) \/ ScanRecords(r) \/ LoadFields(r)
         \/ Validate(r) \/ LoadRelations(r) \/ ScanDependents(r)
  PROVE  NamesFree'
<1>1. ASSUME NEW at, NEW j, Read(r, at, j), Free(at, j)
      PROVE  NamesFree'
  <2>1. /\ pc' = [pc EXCEPT ![r] = at] /\ job' = [job EXCEPT ![r] = j]
        /\ UNCHANGED <<rows, crossed>>
    BY <1>1 DEF Read
  <2> QED BY <1>1, <2>1, FreeReads
<1>2. CASE Refuse(r)
  BY <1>2, FreeEnds DEF Refuse
<1>3. ASSUME NEW at, NEW j, Read(r, at, j),
             at # "commit" \/ j.op \notin {"create_table", "create_field"}
      PROVE  NamesFree'
  <2>1. Free(at, j)
    BY <1>3 DEF Free
  <2> QED BY <1>1, <1>3, <2>1
<1>4. CASE NameField(r)
  <2> DEFINE f == job[r].row
             taken == KeysTaken(TableOf[f])
  <2>1. CASE Refuse(r)
    BY <1>2, <2>1
  <2>2. CASE ~Refuse(r)
    <3>1. /\ Read(r, "commit", job[r])
          /\ \/ KeyOf[f] \notin taken
             \/ \E label \in Labels :
                  KeyOf[f] = UniqueIdentifier(label, taken, "_", "field")
      BY <1>4, <2>2, Zenon DEF NameField
    <3>2. FreeKey(f)
      BY <3>1, KeyFree, Zenon DEF FreeKey
    <3>3. Free("commit", job[r])
      <4>1. job[r].op = "create_field"
        BY <1>4, Zenon DEF NameField, At
      <4> QED BY <3>2, <4>1, Zenon DEF Free
    <3> QED BY <1>1, <3>1, <3>3, Zenon
  <2> QED BY <2>1, <2>2
<1>5. CASE CheckDisplayField(r)
  BY <1>2, <1>3, <1>5 DEF CheckDisplayField, At
<1>6. CASE LoadTable(r)
  <2>1. CASE job[r].op = "update_field"
    BY <1>2, <1>3, <1>6, <2>1 DEF LoadTable
  <2>2. CASE job[r].op # "update_field"
    BY <1>2, <1>3, <1>6, <2>2 DEF LoadTable
  <2> QED BY <2>1, <2>2
<1>7. CASE CheckTarget(r)
  BY <1>2, <1>3, <1>7 DEF CheckTarget, At
<1>8. CASE ScanRecords(r)
  <2>1. job \in [Slots -> Jobs] /\ job[r].op = "delete_field"
    BY <1>8 DEF ScanRecords, At, IInv, TypeOK
  <2>2. PICK g :
          Read(r, "commit", [job[r] EXCEPT !.found = g])
    BY <1>8 DEF ScanRecords
  <2>3. [job[r] EXCEPT !.found = g].op = job[r].op
    BY <2>1 DEF Jobs
  <2> QED BY <1>3, <2>1, <2>2, <2>3
<1>9. CASE LoadFields(r) \/ LoadRelations(r) \/ ScanDependents(r)
  BY <1>2, <1>3, <1>9 DEF LoadFields, LoadRelations, ScanDependents
<1>10. CASE Validate(r)
  BY <1>2, <1>3, <1>10 DEF Validate, At, Writes
<1> QED BY <1>4, <1>5, <1>6, <1>7, <1>8, <1>9, <1>10

LEMMA FreeNext ==
  ASSUME IInv, NamesFree, [Next]_vars
  PROVE  NamesFree'
<1>1. CASE \E r \in Slots : Write(r) \/ Fail(r)
  BY <1>1, WriteEnds, FreeEnds DEF Fail, Refuse
<1>2. CASE \E r \in Slots : MetadataArrive(r) \/ RecordArrive(r)
  BY <1>2, FreeArrive
<1>3. CASE \E r \in Slots :
             \/ CheckDisplayField(r) \/ LoadTable(r) \/ CheckTarget(r)
             \/ NameField(r) \/ ScanRecords(r) \/ LoadFields(r)
             \/ Validate(r) \/ LoadRelations(r) \/ ScanDependents(r)
  BY <1>3, FreeProceed
<1>4. CASE UNCHANGED vars
  <2>1. UNCHANGED <<rows, pc, job, crossed>>
    BY <1>4 DEF vars
  <2>2. \A at, j : Free(at, j) => Free(at, j)'
    BY <2>1, FreeKept
  <2> QED BY <2>1, <2>2 DEF NamesFree
<1>5. \/ \E r \in Slots : MetadataArrive(r) \/ RecordArrive(r) \/ Fail(r)
      \/ \E r \in Slots : MetadataProceed(r) \/ RecordProceed(r)
      \/ UNCHANGED vars
  BY DEF Next
<1> QED BY <1>1, <1>2, <1>3, <1>4, <1>5
        DEF Write, MetadataProceed, RecordProceed

(* The slug that create_table derives is free and fits its column, and so  *)
(* is the key of create_field, unless another request committed since: for *)
(* any labels, any rows, any interleaving, and wherever a number had to be *)
(* appended and the base cut to make room for it.                          *)
THEOREM NamesDerivedFree == Spec => []DerivedNamesAreFree
<1>1. Init => NamesFree
  BY DEF Init, NamesFree, Free
<1>2. IInv /\ NamesFree /\ [Next]_vars => NamesFree'
  BY FreeNext
<1>3. NamesFree => DerivedNamesAreFree
  BY FreeNames DEF NamesFree
<1> QED BY <1>1, <1>2, <1>3, Invariant, PTL DEF Spec
=============================================================================
