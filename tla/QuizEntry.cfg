SPECIFICATION EntrySpec
CONSTANTS
  SetIds = {a, b}
  Revisions = {1, 2}
  Nil = Nil
  Unheard = Unheard
  MaxVisits = 2
  MaxFaults = 1
CHECK_DEADLOCK FALSE
INVARIANTS
  EntryIsSound
  
PROPERTIES
  OutcomesArrive
