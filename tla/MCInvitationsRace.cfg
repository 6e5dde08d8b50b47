\* Two handlers on the invitations of one address.
SPECIFICATION Spec
CONSTANTS
  r1 = r1
  r2 = r2
  i1 = i1
  i2 = i2
  Requests = {r1, r2}
  Links = {i1, i2}
  PinAttemptLimit = 3
SYMMETRY Symmetry
INVARIANTS
  TypeOK
  AttemptsCounted
  AcceptanceNeedsPin
PROPERTIES
  SecondLinkOnlyByOverlap
