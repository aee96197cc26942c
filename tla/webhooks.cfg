\* Three events, one more than a batch holds, for one endpoint; one fault.
CONSTANTS
  v1 = v1
  v2 = v2
  v3 = v3
  e1 = e1
  e2 = e2
  b1 = b1
  u1 = u1
  u2 = u2
  Events = {v1, v2, v3}
  Endpoints = {e1}
  Business <- MCBusiness
  Url <- MCUrl
  MaxAttempts = 2
  BatchLimit = 2
  MaxFaults = 1
SPECIFICATION FairSpec
INVARIANT TypeOK
INVARIANT PostsBounded
INVARIANT FinalIsEarned
INVARIANT LateAtMostOnce
INVARIANT NoOrphans
PROPERTY FinalIsFinal
PROPERTY DeliverySpec
PROPERTY EveryDeliveryEnds
