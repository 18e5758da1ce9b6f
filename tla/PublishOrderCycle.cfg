\* Three overlapping publishes.
CONSTANTS
  RF = 3
  Msgs = {m1, m2, m3}
  InitViews <- MCFresh
  MaxClock = 3
  MaxRestarts = 0
  None = None
SYMMETRY Symmetry
SPECIFICATION Spec
INVARIANT StampsSortable
CHECK_DEADLOCK FALSE
