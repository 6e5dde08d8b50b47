\* Two HTTP requests that lock the same rows in any order: do both return?
\* An orphan workspace, or a deleted one, answers 404 for ever: the system
\* may stop.
CHECK_DEADLOCK FALSE
SPECIFICATION FairSpec
CONSTANTS
  i1 = i1
  i2 = i2
  r1 = r1
  r2 = r2
  u1 = u1
  u2 = u2
  None = None
  Users = {u1, u2}
  Ids = {i1, i2}
  Requests = {r1, r2}
  Operators = {}
  Asked = {"OWNER"}
  Invitees = {u2}
PROPERTIES
  RequestsEnd
