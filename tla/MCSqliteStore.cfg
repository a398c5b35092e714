SPECIFICATION SqliteSpec
CONSTANTS
  Ids = {r1, r2}
  Principals = {p1}
  Mandates = {m1}
  Payees = {y1}
  Refs = {a1, a2}
  Keys = {k1}
  Conns = {c1, c2}
  None = None
  MaxAmount = 2
  Amounts = {2}
  Windows = {1, 2}
  MinWindow = 1
  Ceilings = {1, 2}
  Validities = {0}
  Drifts = {1}
  Cap = 3
  AggregateCap = 3
  PayeeLimit = 2
  Retention = 1
  Ttl = 1
  MaxLag = 1
  MaxNow = 2
SYMMETRY Symmetry
INVARIANTS
  SqliteTypeOK
  PrunedNeverCounts
PROPERTIES
  CeilingIsImmutable
  KeyBlocksUntilExpiry
  ImplementsLedger
CHECK_DEADLOCK FALSE
