\* Two handlers on one account, HTTP requests or the operator's reset.
SPECIFICATION Spec
CONSTANTS
  p1 = p1
  p2 = p2
  r1 = r1
  r2 = r2
  t1 = t1
  t2 = t2
  None = None
  Passwords = {p1, p2}
  Tokens = {t1, t2}
  Requests = {r1, r2}
  Operators = {r1, r2}
  OldHashes = {FALSE, TRUE}
SYMMETRY Symmetry
INVARIANTS
  TypeOK
PROPERTIES
  SessionsSurviveOnlyByOverlap
  UnflaggedOnlyByStaleRead
  ExchangedTwiceOnlyByOverlap
