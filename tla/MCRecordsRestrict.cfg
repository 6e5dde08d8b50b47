\* One request at a time; the target of a relation is spelled in any way
\* that reads as its uuid.
\* Once every id is spent and every row gone, nothing is left to be asked:
\* the instance may stop.
CHECK_DEADLOCK FALSE
SPECIFICATION Spec
CONSTANTS
  people = people
  tasks = tasks
  away = away
  name = name
  assignee = assignee
  ada = ada
  task = task
  r1 = r1
  None = None
  Tables = {people, tasks, away}
  Fields = {name, assignee}
  Records = {ada, task}
  Uuids = {ada, task}
  Slots = {r1}
  MaxLength = 3
  MaxIndex = 9
  Flags = {FALSE}
  Preset = {people, tasks, away, name, assignee}
  Plain = {TRUE, FALSE}
  Operations = {"create_record", "patch_record", "delete_record"}
  Shown = {}
  Keys <- MCKeys
  Numeral <- MCNumeral
  Labels <- MCLabels
  Payloads <- MCPayloads
  Configs <- MCConfigs
  WorkspaceOf <- MCWorkspaceOf
  SlugOf <- MCSlugOf
  TableOf <- MCTableOf
  KeyOf <- MCKeyOf
  TypeOf <- MCTypeOf
PROPERTIES
  DeletionRestricted
