CONSTANTS
  L1 = L1
  L2 = L2
  M1 = M1
  M2 = M2
  editor = editor
  admin = admin
  nobody = nobody
  Nobody = nobody
  Lots = {L1}
  Docs = {M1}
  Openings = {}
  DocOf <- MCOneDocOf
  Users = {editor, admin}
  Admins = {admin}
  LastDay = 2
  BackDays = 1
  Straddle = 0
  RejectDays = 1
  MaxQty = 2
  MaxVouchers = 3
  MaxMove = 2
  MaxEvents = 1
SPECIFICATION StoreSpec
INVARIANTS PendingCanBeWithdrawn
CHECK_DEADLOCK FALSE
