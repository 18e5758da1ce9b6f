\* Two calls of connect, two endpoints of which one has a node, one failing accept.
CONSTANTS
  Endpoints = {e1, e2}
  Reachable = {e1}
  Connects = {c1, c2}
  MaxBackoff = 4
  TimeCap = 2
  MaxKills = 2
  MaxErrors = 1
SPECIFICATION ConnectingSpec
INVARIANTS LiveAndDeadPartition OneAccept
PROPERTIES ReturnsAfterBackoff ConnectEnds SessionIsServed
