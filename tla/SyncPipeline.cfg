CONSTANTS
  T1 = T1
  T2 = T2
  Tasks = {T1, T2}
  Workers = 2
  LockTTL = 1
  TaskTimeout = 1
  Retry = 2
  PendingTTL = 1
  RunningTTL = 2
  Failing = {"sheets", "match"}
  MaxSaves = 2
  MaxFaults = 1
SPECIFICATION FairSpec
INVARIANTS OnePipelineAtATime FreshConsumption OnlyDeadRunsReportedStopped
PROPERTIES MatchNeverRegresses EverySaveMatched
CHECK_DEADLOCK FALSE
