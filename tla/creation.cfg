CONSTANTS
  None = None
  r1 = r1
  r2 = r2
  q1 = q1
  b1 = b1
  b2 = b2
  c1 = c1
  c2 = c2
  Requests = {r1, r2}
  Readers = {q1}
  Businesses = {b1, b2}
  Customers = {c1, c2}
  CustomerOf <- MCCustomerOf
  Items <- MCItems
  MaxItems = 2
  I32Max = 7
  I64Max = 63
SYMMETRY MCSymmetry
SPECIFICATION Spec
INVARIANT TypeOK
INVARIANT TotalIsSum
INVARIANT WholeInvoices
INVARIANT RefusedIfBad
PROPERTY BookSpec
CHECK_DEADLOCK FALSE
