\* Violated: see the comment of OtherBodyRejected in Payments.tla.
CONSTANTS
  None = None
  r1 = r1
  r2 = r2
  r3 = r3
  b1 = b1
  b2 = b2
  i1 = i1
  i2 = i2
  k1 = k1
  k2 = k2
  Requests <- MCRequests2
  Invoices = {i1}
  Businesses = {b1}
  Owner <- MCOwner1
  Keys = {k1}
  Tokens <- MCTokens
SPECIFICATION Spec
INVARIANT OtherBodyRejected
