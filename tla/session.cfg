SPECIFICATION FairSpec
CONSTANTS
  Nobody = Nobody
  Threads = {t1, t2}
  ReadTimeouts = TRUE
  MaxRequests = 4
INVARIANTS
  InStepUntilTimeout
PROPERTIES
  RepliesInOrder
  CallsReturn
