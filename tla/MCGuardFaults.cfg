SPECIFICATION Spec
CONSTANTS
  p1 = p1
  p2 = p2
  p3 = p3
  k1 = k1
  agent = agent
  mandate = mandate
  payee = payee
  None = None
  Ids = {p1, p2}
  Principals = {agent}
  Mandates = {mandate}
  Payees = {payee}
  Refs = {p1, p2, p3}
  Keys = {k1}
  RequestOf <- MCRequestOf
  KeyOf <- MCKeyOf
  MaxAmount = 1
  Amounts = {1}
  Windows = {1}
  MinWindow = 1
  Validities = {3}
  Margin = 1
  Tolerance = 1
  Cap = 2
  AggregateCap = 3
  PayeeLimit = 3
  MaxLag = 1
  MaxNow = 3
  Foreign = FALSE
  MayThrow = TRUE
  HookTime = 3
PROPERTIES
  LeavesHeldOrLatched
  StoreSpec
CHECK_DEADLOCK FALSE
