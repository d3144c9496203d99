CONSTANTS
  M1 = M1
  editor = editor
  admin = admin
  nobody = nobody
  R1 = R1
  R2 = R2
  Nobody = nobody
  Lots = {1, 2}
  Docs = {M1}
  Openings = {}
  DocOf <- MCSameDocOf
  Users = {editor, admin}
  Admins = {admin}
  LastDay = 1
  BackDays = 1
  Straddle = 0
  RejectDays = 1
  MaxQty = 1
  MaxVouchers = 3
  Reqs = {R1, R2}
  Allowed = {"ISSUE", "RETURN", "CANCEL", "CANCEL_MIR"}

SPECIFICATION FairDaySpec
INVARIANTS DeadlockNeedsReturn NumberedWithoutGaps
PROPERTIES EveryRequestEnds
