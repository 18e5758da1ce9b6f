\* Two publishes, and a connection that may be lost.
CONSTANTS
  Publishes = {p1, p2}
  MaxReplies = 1
  MayBreak = TRUE
  MayStray = FALSE
SPECIFICATION SessionSpec
INVARIANTS NoViolation VerdictsAgree
PROPERTY HandshakeEnds
CHECK_DEADLOCK FALSE
