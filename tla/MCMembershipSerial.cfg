\* One handler at a time, no command of the operator.
\* An orphan workspace, or a deleted one, answers 404 for ever: the system
\* may stop.
CHECK_DEADLOCK FALSE
SPECIFICATION Spec
CONSTANTS
  i1 = i1
  i2 = i2
  i3 = i3
  r1 = r1
  u1 = u1
  u2 = u2
  u3 = u3
  None = None
  Users = {u1, u2, u3}
  Ids = {i1, i2, i3}
  Requests = {r1}
  Operators = {}
  Asked = {"OWNER", "ADMIN", "EDITOR"}
  Invitees = {u3}
INVARIANTS
  MembersHaveOwner
PROPERTIES
  BoundaryCrossedOnlyByStaleRead
  KeepsPromise
