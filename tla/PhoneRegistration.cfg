SPECIFICATION Spec
CONSTANTS
  Accounts = {a, b}
  Earlier = a
  Tokens = {p, q}
  None = None
  MaxRetries = 3
  MaxEvents = 2
  MaxLosses = 1
CHECK_DEADLOCK FALSE
INVARIANTS
  RecordIsGenuine
  
  EndedStaysEnded
PROPERTIES
  RegistrationSettles
  RevokesSettle
