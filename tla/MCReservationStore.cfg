SPECIFICATION StoreSpec
CONSTANTS
  Ids = {r1, r2}
  Principals = {p1}
  Mandates = {m1, m2}
  Payees = {y1, y2}
  Refs = {a1}
  None = None
  MaxAmount = 2
  Amounts = {2}
  Windows = {1, 2}
  MinWindow = 1
  Validities = {1}
  Tolerance = 1
  Cap = 2
  AggregateCap = 3
  PayeeLimit = 1
  MaxLag = 1
  MaxNow = 3
SYMMETRY Symmetry
INVARIANTS
  StoreTypeOK
  LimitsHold
  RecoveryCoversWindow
  OneRowPerReference
  SweepWaitsOutWindow
PROPERTIES
  HoldsUntilAccounted
  ImplementsLedger
CHECK_DEADLOCK FALSE
