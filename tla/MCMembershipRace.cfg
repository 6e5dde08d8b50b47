\* Two handlers that interleave, each of them an HTTP request or a command of
\* the operator; three members.
\* An orphan workspace, or a deleted one, answers 404 for ever: the system
\* may stop.
CHECK_DEADLOCK FALSE
SPECIFICATION Spec
CONSTANTS
  i1 = i1
  i2 = i2
  i3 = i3
  r1 = r1
  r2 = r2
  u1 = u1
  u2 = u2
  u3 = u3
  None = None
  Users = {u1, u2, u3}
  Ids = {i1, i2, i3}
  Requests = {r1, r2}
  Operators = {r1, r2}
  Asked = {"OWNER", "ADMIN"}
  Invitees = {}
SYMMETRY Symmetry
INVARIANTS
  TypeOK
  OneMembershipEach
  LockedReadsAreCurrent
  NoRowOutlivesWorkspace
PROPERTIES
  OwnersLostOnlyByStaleRead
  BoundaryCrossedOnlyByStaleRead
