\* Two requests for one invoice, one endpoint, one or two connections, one fault.
CONSTANTS
  None = None
  r1 = r1
  r2 = r2
  e1 = e1
  b1 = b1
  i1 = i1
  k1 = k1
  u1 = u1
  Requests = {r1, r2}
  Invoices = {i1}
  Businesses = {b1}
  Owner <- MCOwner
  Keys = {k1}
  Tokens <- MCTokens
  Endpoints = {e1}
  Business <- MCBusiness
  Url <- MCUrl
  MaxAttempts = 2
  BatchLimit = 1
  MaxFaults = 1
  PoolSizes = {1, 2}
SPECIFICATION FairSpec
INVARIANT TypeOK
INVARIANT NotifiedIsStored
INVARIANT LostOnlyByFaults
INVARIANT SomeoneGoesOn
PROPERTY EveryCallReturns
PROPERTY ComesToRest
