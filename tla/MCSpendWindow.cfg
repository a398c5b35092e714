SPECIFICATION Spec
CONSTANTS
  Ids = {r1, r2}
  Principals = {p1}
  Mandates = {m1, m2}
  Payees = {y1}
  Refs = {}
  None = None
  MaxAmount = 2
  Amounts = {1, 2}
  Windows = {1}
  MinWindow = 1
  Validities = {3}
  Cap = 2
  AggregateCap = 2
  PayeeLimit = 2
  MaxLag = 0
  MaxNow = 5
  ReorgMargin = 0
  ClockSkew = 1
  Tolerance = 1
SYMMETRY Symmetry
INVARIANTS
  TypeOK
  OutflowWithinCaps
  PaymentsHeld
CHECK_DEADLOCK FALSE
