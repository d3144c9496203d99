CONSTANTS
  M1 = M1
  M2 = M2
  editor = editor
  admin = admin
  nobody = nobody
  R1 = R1
  R2 = R2
  Nobody = nobody
  Lots = {1, 2}
  Docs = {M1, M2}
  Openings = {M2}
  DocOf <- MCDocOf
  Users = {editor, admin}
  Admins = {admin}
  LastDay = 2
  BackDays = 1
  Straddle = 1
  RejectDays = 0
  MaxQty = 1
  MaxVouchers = 3
  Reqs = {R1, R2}
  Allowed = {"ISSUE", "RETURN", "CANCEL", "CANCEL_MIR", "REJECTION", "ADJUST", "APPROVE", "REJECT", "CANCEL_OPENING"}
SYMMETRY Swapped
SPECIFICATION MixesSpec
PROPERTIES CommitsAreSteps DecidedOnce
