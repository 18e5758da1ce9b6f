\* Two threads; every id is published once.
CONSTANTS
  RF = 3
  Ids = {i1, i2, i3}
  Clocks <- MCChain
  Ttls = {1, 2}
  Threads = {t1, t2}
  AgeCap = 3
  MaxEnqueues = 3
  Resend = FALSE
SYMMETRY Symmetry
SPECIFICATION Spec
INVARIANTS SizeExact IndexFindsQueued QueueSorted
PROPERTIES DroppedOnlyWhenDue ImplementsContract
