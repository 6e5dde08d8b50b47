\* One handler at a time.
SPECIFICATION Spec
CONSTANTS
  r1 = r1
  i1 = i1
  i2 = i2
  i3 = i3
  Requests = {r1}
  Links = {i1, i2, i3}
  PinAttemptLimit = 3
PROPERTIES
  AcceptedOnlyWhilePending
  KeepsPromise
