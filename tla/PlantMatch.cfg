CONSTANTS
  A = A
  B = B
  v = v
  X = X
  Y = Y
  D1 = D1
  D2 = D2
  D3 = D3
  boe = boe
  bill = bill
  other = other
  Nothing = Nothing
  NoDoc = NoDoc
  Lines = {1, 2, 3}
  Rows = {1, 2, 3, 4}
  NoRow = 0
  Docs = {D1, D2, D3}
  Orders = {A, B}
  Materials = {X, Y}
  Worlds <- SomeWorlds
  MaxChanges = 2
  PairRows = {1, 2, 3}
  MaxWeight = 2
  Ceilings = {2, 88}
SPECIFICATION EngineSpec
INVARIANTS RemovedStaysOff ReceiptCountedOnce OrdinaryDecisionsKept HeaviestWhenUncut
PROPERTY FlipGainsItsEnd
CHECK_DEADLOCK FALSE
