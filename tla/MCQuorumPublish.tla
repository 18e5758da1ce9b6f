-------------------------- MODULE MCQuorumPublish --------------------------
(***************************************************************************)
(* Instances of QuorumPublish for TLC.  MCLargeRing: the arrays of a ring  *)
(* of three or more nodes, of which the third may be down; MCSmallRing:    *)
(* those of rings of one and two nodes, which name a node twice before     *)
(* find_quorum_for_operation compresses them.                              *)
(***************************************************************************)
EXTENDS QuorumPublish, TLC

Different(q) == \A i, j \in 1 .. RF : i # j => q[i] # q[j]

MCLargeRing == {q \in [1 .. RF -> Remote \cup {Self, Nobody}] :
                  Different(q) /\ q[1] # Nobody /\ q[2] # Nobody}

MCSmallRing ==
  LET Two == {q \in [1 .. RF -> Remote \cup {Self, Nobody}] :
                Different(q) /\ q[1] # Nobody /\ Self \in {q[i] : i \in 1 .. RF}
                             /\ Nobody \in {q[i] : i \in 1 .. RF}}
  IN  Two \cup {<<Self, Nobody, Nobody>>}

MCAnyRing == MCLargeRing \cup MCSmallRing

MCWellFormed == {QueuedAnswer("here"), QueuedAnswer("there"), Refused, Failure}
MCAnyAnswer == MCWellFormed \cup {TooLong}

Symmetry == Permutations(Remote) \cup Permutations(Msgs)
=============================================================================
