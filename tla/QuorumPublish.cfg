\* Two publishes, every ring size, every kind of answer.
CONSTANTS
  Msgs = {m1, m2}
  Remote = {r1, r2, r3}
  Self = self
  Nobody = nobody
  Quorums <- MCAnyRing
  Answers <- MCAnyAnswer
SYMMETRY Symmetry
SPECIFICATION Spec
INVARIANTS StampedOnceByTwoNodes UnavailableNotStamped NoNodeAskedTwice
CHECK_DEADLOCK FALSE
