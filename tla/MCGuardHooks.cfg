SPECIFICATION Spec
CONSTANTS
  p1 = p1
  p2 = p2
  p3 = p3
  k1 = k1
  agent = agent
  mandate = mandate
  payee = payee
  None = None
  Ids = {p1, p2, p3}
  Principals = {agent}
  Mandates = {mandate}
  Payees = {payee}
  Refs = {p1, p2, p3}
  Keys = {k1}
  RequestOf <- MCRequestOf
  KeyOf <- MCKeyOf
  MaxAmount = 1
  Amounts = {1}
  Windows = {1}
  MinWindow = 1
  Validities = {4}
  Margin = 1
  Tolerance = 1
  Cap = 3
  AggregateCap = 2
  PayeeLimit = 3
  MaxLag = 0
  MaxNow = 4
  Foreign = TRUE
  MayThrow = FALSE
  HookTime = 2
SYMMETRY Symmetry
INVARIANTS
  TypeOK
  HoldPerPayload
  OnePayloadPerKey
  SettledByOwnResponse
  FreedKeyIsOwn
  KeyCoversHold
  ResponsesFindTheirRow
CHECK_DEADLOCK FALSE
