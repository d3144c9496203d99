CONSTANTS
  R1 = R1
  R2 = R2
  W1 = W1
  W2 = W2
  Reqs = {R1, R2}
  Workers = {W1, W2}
  MaxRevisions = 3
  MaxReadings = 1
  MaxSheets = 2
  MaxWithdrawals = 2
  MaxFaults = 1
SPECIFICATION FairSpec
INVARIANTS NewestIsCurrent AppOrderWasApproved
PROPERTIES DecisionKept EveryReadingEnds
CHECK_DEADLOCK FALSE
