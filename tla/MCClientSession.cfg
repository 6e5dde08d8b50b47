\* Two calls of one page whose answers come in any order, or not at all.
SPECIFICATION Spec
CONSTANTS
  c1 = c1
  en = en
  he = he
  c2 = c2
  k1 = k1
  k2 = k2
  k3 = k3
  None = None
  Calls = {c1, c2}
  Tokens = {k1, k2, k3}
  Locales = {en, he}
SYMMETRY Symmetry
INVARIANTS
  TypeOK
PROPERTIES
  SessionFollowsCookie
  AbandonedNeedsCause
  LocaleFollowsAccount
