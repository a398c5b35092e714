SPECIFICATION Spec
CONSTANTS
  p1 = p1
  p2 = p2
  p3 = p3
  agent = agent
  m1 = m1
  m2 = m2
  payee = payee
  None = None
  Ids = {p1, p2, p3}
  Principals = {agent}
  Mandates = {m1, m2}
  Payees = {payee}
  Refs = {p1, p2, p3}
  Keys = {}
  RequestOf <- MCRequestOf
  KeyOf <- MCKeyOf
  MaxAmount = 1
  Amounts = {1}
  Windows = {1}
  MinWindow = 1
  Validities = {3}
  Margin = 1
  Tolerance = 1
  Cap = 1
  AggregateCap = 3
  PayeeLimit = 3
  MaxLag = 0
  MaxNow = 0
  Foreign = FALSE
  MayThrow = FALSE
  HookTime = 0
INVARIANTS
  PayloadsWithinMandateCap
CHECK_DEADLOCK FALSE
