\* Three messages; the sender waits for each write.
CONSTANTS
  empty = empty
  full = full
  large = large
  Msgs = {empty, full, large}
  BodySize <- MCSizes
  MaxSize = 2
  OneAtATime = TRUE
  Garbage = garbage
SPECIFICATION StreamFairSpec
INVARIANTS ReceivedAsSent ErrorsHaveCause
PROPERTY EveryMessageArrives
CHECK_DEADLOCK FALSE
