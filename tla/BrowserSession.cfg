SPECIFICATION Spec
CONSTANTS
  Tabs = {t1, t2}
  Accounts = {a, b}
  Earlier = a
  None = None
  HasLocks = TRUE
  MaxSessions = 2
  MaxEvents = 3
CHECK_DEADLOCK FALSE
INVARIANTS
  NothingIsLeft
  OneIdentity
  TokenNeedsLogin
  NoReuseWithoutLoss
PROPERTIES
  TransitionsEnd
