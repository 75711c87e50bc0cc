SPECIFICATION Spec
CONSTANTS
  Tabs = {t1, t2}
  Accounts = {a, b}
  Earlier = a
  None = None
  HasLocks = TRUE
  MaxSessions = 2
  MaxEvents = 4
PROPERTY IdentityTransitionsAdvanceTheEpoch
CHECK_DEADLOCK FALSE
