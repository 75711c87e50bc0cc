SPECIFICATION MCSpec
CONSTANTS
  Accounts = {a, b}
  Opens = {m}
  None = None
  MaxEvents = 3
  Home = Home
  Guide = Guide
  Outside = Outside
  Missing = Missing
  MaxActs = 2
CHECK_DEADLOCK FALSE
INVARIANTS
  
  TapNotForgotten
  BridgeIsSound
PROPERTIES
  DoneIsDone
  OpensSettle
  ReadsSettle
  BridgeComesUp
