SPECIFICATION TransactionSpec
CONSTANTS
  Tasks = {t1, t2, t3}
  Conns = {c1, c2}
  None = None
  BusyRetries = 1
INVARIANTS
  TransactionTypeOK
PROPERTIES
  ImplementsAtomicCalls
  EveryCallIsAnswered
CHECK_DEADLOCK FALSE
