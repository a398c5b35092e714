SPECIFICATION Spec
CONSTANTS
  shop = shop
  thief = thief
  None = None
  NotANumber = NotANumber
  p1 = p1
  p2 = p2
  p3 = p3
  Ids = {p1, p2, p3}
  c1 = c1
  c2 = c2
  agent = agent
  trip = trip
  Principals = {agent}
  Agent = agent
  Mandates = {"pinned-mandate", "__no_mandate__"}
  Payees = {shop, thief}
  Refs = {p1, p2, p3}
  Procs = {c1}
  Intents = {trip}
  IntentOf <- MCIntentOf
  Offers <- OneOffer
  Configs <- MCConfigs
  ConfigOf <- MCConfigOf
  Margin = 1
  LateRemoval = TRUE
  MaxAmount = 2
  Amounts = {1, 2}
  Windows = {1}
  MinWindow = 1
  Validities = {1, 2, 3, 4}
  Tolerance = 1
  Cap = 3
  AggregateCap = 3
  PayeeLimit = 3
  MaxLag = 0
  MaxNow = 2
SYMMETRY Symmetry
INVARIANTS
  OneLivePayloadPerIntent
CHECK_DEADLOCK FALSE
