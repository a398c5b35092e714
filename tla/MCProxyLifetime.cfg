SPECIFICATION Spec
CONSTANTS
  shop = shop
  thief = thief
  None = None
  NotANumber = NotANumber
  p1 = p1
  p2 = p2
  p3 = p3
  Ids = {p1}
  c1 = c1
  c2 = c2
  agent = agent
  trip = trip
  Principals = {agent}
  Agent = agent
  Mandates = {"pinned-mandate", "__no_mandate__"}
  Payees = {shop, thief}
  Refs = {p1}
  Procs = {c1}
  Intents = {trip}
  IntentOf <- MCIntentOf
  Offers <- OffersWithoutLifetime
  Configs <- MCConfigs
  ConfigOf <- MCConfigOf
  Margin = 1
  LateRemoval = FALSE
  MaxAmount = 2
  Amounts = {1, 2}
  Windows = {1}
  MinWindow = 1
  Validities = {1, 2, 3, 4}
  Tolerance = 1
  Cap = 2
  AggregateCap = 2
  PayeeLimit = 2
  MaxLag = 0
  MaxNow = 3
PROPERTIES
  LifetimeWithinWindow
CHECK_DEADLOCK FALSE
