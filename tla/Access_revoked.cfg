CONSTANTS
  owner = owner
  clerk = clerk
  R1 = R1
  R2 = R2
  Users = {owner, clerk}
  Owner = owner
  Holder = clerk
  Reqs = {R1, R2}
  MaxFails = 2
  MaxAttempts = 2
  MaxDaily = 1
  MaxRequests = 4
  MaxTokens = 3
  MaxEvents = 1
SYMMETRY Requests
SPECIFICATION Spec
CHECK_DEADLOCK FALSE
PROPERTIES RevokedStaysRevoked
