\* Two messages, a restart, and processes that start with different clocks.
CONSTANTS
  RF = 3
  Msgs = {m1, m2}
  InitViews <- MCAssigned
  MaxClock = 3
  MaxRestarts = 1
  None = None
SYMMETRY Symmetry
SPECIFICATION Spec
INVARIANTS RealTimeOrder
CHECK_DEADLOCK FALSE
