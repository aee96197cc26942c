\* Two requests for two businesses whose keys may share their prefix.
CONSTANTS
  None = None
  b1 = b1
  b2 = b2
  r1 = r1
  r2 = r2
  p1 = p1
  p2 = p2
  m1 = m1
  Businesses = {b1, b2}
  Requests = {r1, r2}
  Prefixes = {p1, p2}
  Emails = {m1}
SYMMETRY MCSymmetry
SPECIFICATION Spec
INVARIANT TypeOK
INVARIANT Isolated
INVARIANT RevokedIsRefused
INVARIANT AnsweredIsUsable
INVARIANT OneCustomerPerEmail
INVARIANT ConflictsAreReal
PROPERTY WritesAreOwn
