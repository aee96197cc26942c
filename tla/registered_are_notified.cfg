CONSTANTS
  v1 = v1
  v2 = v2
  v3 = v3
  e1 = e1
  e2 = e2
  b1 = b1
  u1 = u1
  u2 = u2
  Events = {v1}
  Endpoints = {e1, e2}
  Business <- MCBusiness
  Url <- MCUrl
  MaxAttempts = 2
  BatchLimit = 2
  MaxFaults = 1
SPECIFICATION Spec
INVARIANT RegisteredAreNotified
