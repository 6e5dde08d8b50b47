\* Two requests at a time on records, their tables and their relations.
\* Once every id is spent and every row gone, nothing is left to be asked:
\* the instance may stop.
CHECK_DEADLOCK FALSE
SPECIFICATION Spec
CONSTANTS
  people = people
  tasks = tasks
  away = away
  name = name
  assignee = assignee
  ada = ada
  task = task
  r1 = r1
  r2 = r2
  None = None
  Tables = {people, tasks, away}
  Fields = {name, assignee}
  Records = {ada, task}
  Uuids = {ada, task}
  Slots = {r1, r2}
  MaxLength = 3
  MaxIndex = 9
  Flags = {FALSE}
  Preset = {people, tasks, away, name, assignee}
  Plain = {TRUE}
  Operations = {"delete_table", "update_field", "create_record", "replace_record", "patch_record", "delete_record"}
  Shown = {}
  Keys <- MCKeys
  Numeral <- MCNumeral
  Labels <- MCLabels
  Payloads <- MCPayloads
  Configs <- MCConfigs
  WorkspaceOf <- MCWorkspaceOf
  SlugOf <- MCSlugOf
  TableOf <- MCTableOf
  KeyOf <- MCKeyOf
  TypeOf <- MCTypeOf
SYMMETRY Symmetry
INVARIANTS
  TypeOK
  RowsHaveTables
  RelationsStayHome
PROPERTIES
  DanglingNeedsCause
  OtherValuesKept
