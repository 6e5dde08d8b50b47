\* One request at a time.
SPECIFICATION Spec
CONSTANTS
  p1 = p1
  p2 = p2
  p3 = p3
  r1 = r1
  t1 = t1
  t2 = t2
  t3 = t3
  None = None
  Passwords = {p1, p2, p3}
  Tokens = {t1, t2, t3}
  Requests = {r1}
  Operators = {}
  OldHashes = {FALSE, TRUE}
PROPERTIES
  KeepsPromise
