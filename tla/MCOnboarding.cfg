\* Three requests at a time that bring one address into a workspace.
SPECIFICATION Spec
CONSTANTS
  a1 = a1
  a2 = a2
  a3 = a3
  typed = typed
  stored = stored
  r1 = r1
  r2 = r2
  r3 = r3
  None = None
  Accounts = {a1, a2, a3}
  Spellings = {typed, stored}
  Slots = {r1, r2, r3}
  Normal <- MCNormal
  EmailOf <- MCEmailOf
SYMMETRY Symmetry
INVARIANTS
  TypeOK
  OneAccountEach
PROPERTIES
  StrandedNeedsFailure
  RolesKept
