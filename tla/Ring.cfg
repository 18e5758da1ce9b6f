\* Rings of up to five nodes on five keys.
CONSTANTS
  NodeIds = {n1, n2, n3, n4, n5}
  SelfId = n1
  KeySpace = 5
  Asked = {2}
  Null = null
SYMMETRY Symmetry
SPECIFICATION Spec
INVARIANTS MapsAgree PlacementFollowsRing QuorumIsUsable
PROPERTIES JoinMovesOneReplica SuccessiveQuorumsMeet
CHECK_DEADLOCK FALSE
