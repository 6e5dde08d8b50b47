\* Two requests at a time on tables, fields and the records of a table.
\* Once every id is spent and every row gone, nothing is left to be asked:
\* the instance may stop.
CHECK_DEADLOCK FALSE
SPECIFICATION Spec
CONSTANTS
  t1 = t1
  t2 = t2
  t3 = t3
  long = long
  title = title
  total = total
  note = note
  x1 = x1
  r1 = r1
  r2 = r2
  None = None
  Tables = {t1, t2, t3, long}
  Fields = {title, total, note}
  Records = {x1}
  Uuids = {x1}
  Slots = {r1, r2}
  MaxLength = 3
  MaxIndex = 6
  Flags = {TRUE}
  Preset = {t1, title}
  Operations = {"create_table", "update_table", "delete_table", "create_field", "delete_field", "create_record", "patch_record"}
  Shown <- MCKeys
  Keys <- MCKeys
  Numeral <- MCNumeral
  Labels <- MCLabels
  Payloads <- MCPayloads
  Configs <- MCConfigs
  WorkspaceOf <- MCWorkspaceOf
  SlugOf <- MCSlugOf
  TableOf <- MCTableOf
  KeyOf <- MCKeyOf
  TypeOf <- MCTypeOf
SYMMETRY Symmetry
INVARIANTS
  NamesAreUnique
  DerivedNamesAreFree
PROPERTIES
  OrphansNeedOverlap
  RecordsStayValid
  DisplayNeedsOverlap
  DisplayChangesOnRequest
