CONSTANTS
  L1 = L1
  L2 = L2
  M1 = M1
  M2 = M2
  editor = editor
  admin = admin
  nobody = nobody
  Nobody = nobody
  Lots = {L1, L2}
  Docs = {M1, M2}
  Openings = {M2}
  DocOf <- MCDocOf
  Users = {editor, admin}
  Admins = {admin}
  LastDay = 3
  BackDays = 1
  Straddle = 0
  RejectDays = 1
  MaxQty = 1
  MaxVouchers = 2
  MaxMove = 2
  MaxEvents = 4
SPECIFICATION StoreSpec
INVARIANTS LedgerInv NoNegativeDay ReturnsWithinIssue NothingBeforeReceipt RoomIsExact
PROPERTY ImplementsBook
CHECK_DEADLOCK FALSE
