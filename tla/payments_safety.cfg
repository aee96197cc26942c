\* Three requests race for one invoice with two keys; the second business does
\* not own the invoice.
CONSTANTS
  None = None
  r1 = r1
  r2 = r2
  r3 = r3
  b1 = b1
  b2 = b2
  i1 = i1
  i2 = i2
  k1 = k1
  k2 = k2
  Requests <- MCRequests3
  Invoices = {i1}
  Businesses = {b1, b2}
  Owner <- MCOwner1
  Keys = {k1, k2}
  Tokens <- MCTokens2
SPECIFICATION Spec
SYMMETRY MCSymmetry
INVARIANT TypeOK
INVARIANT SettledOnce
INVARIANT PaidIffSettled
INVARIANT OneAttemptPerKey
INVARIANT FreshSnapshot
INVARIANT ReplaysAgree
INVARIANT LedgerMatchesPsp
INVARIANT AnnouncedIsDurable
INVARIANT RefusedMeansUncharged
PROPERTY InvoiceSteps
PROPERTY LedgerSpec
