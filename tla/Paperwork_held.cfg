CONSTANTS
  R1 = R1
  R2 = R2
  W1 = W1
  W2 = W2
  Reqs = {R1, R2}
  Workers = {W1, W2}
  MaxRevisions = 1
  MaxReadings = 1
  MaxSheets = 2
  MaxWithdrawals = 0
  MaxFaults = 0
SPECIFICATION Spec
PROPERTY AppOrderHeld
CHECK_DEADLOCK FALSE
