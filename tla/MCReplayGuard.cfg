SPECIFICATION FairSpec
CONSTANTS
  k1 = k1
  r1 = r1
  r2 = r2
  r3 = r3
  r4 = r4
  broken = broken
  None = None
  Requests = {r1, r2, r3, r4, broken}
  Mortal = {r1, r2}
  PaymentKeys = {k1}
  KeyOf <- MCKeyOf
  Lease = 2
  MaxLag = 1
INVARIANTS
  TypeOK
  NewestWorkerGrants
PROPERTIES
  LeaseRespected
  OneGrantPerKey
  EveryClientIsAnswered
CHECK_DEADLOCK FALSE
