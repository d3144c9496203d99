CONSTANTS
  MaxBrokenRun = 1
  MaxDatedGap = 1
  LotCount = 1
  Lookback = 5
  Anchor = 4
  Amounts = {1000}
  OpeningStock = 2000
  LastDay = 11
  MaxOutage = 2
  MaxOddDays = 2
SPECIFICATION Spec
INVARIANTS NeverOverstated ExactWhenSound NoSilentDays
CHECK_DEADLOCK FALSE

