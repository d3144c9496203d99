CONSTANTS
  R1 = R1
  R2 = R2
  a = a
  b = b
  Categories = {film}
  Unfiled = unfiled
  Reqs = {R1, R2}
  MaxMirs = 2
  MaxSyncs = 1
  LineCount = 2
  Materials = {a, b}
  Quantities = {1}
  Deliveries <- SomeDeliveries
  MaxEdits = 1
SYMMETRY Symmetric
SPECIFICATION Spec
INVARIANTS MismatchesFollowMir ClosureHasItsMir
PROPERTIES OverReceiptFlagged NothingOnBlockedLine ReceivedIsFiled SyncKeepsClosures
CHECK_DEADLOCK FALSE
