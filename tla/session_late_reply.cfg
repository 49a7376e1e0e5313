SPECIFICATION Spec
CONSTANTS
  Nobody = Nobody
  Threads = {t1, t2}
  ReadTimeouts = TRUE
  MaxRequests = 3
INVARIANTS
  ReplyIsOwn
