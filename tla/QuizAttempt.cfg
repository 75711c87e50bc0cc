SPECIFICATION AttemptFairSpec
CONSTANTS
  None = None
  Unknown = Unknown
  ReviewId = ReviewId
  s = s
  e = e
  f = f
  Papers <- SmallPapers
  Essays = {e, f}
  Ids = {1, 2}
  MaxActs = 3
  MaxCalls = 2
  MaxLosses = 1
CHECK_DEADLOCK FALSE
INVARIANTS
  AttemptTypeOK
  NothingSkipped
  RetryRepeatsItself
PROPERTIES
  
  RequestsSettle
