--------------------------- MODULE MCPublishOrder ---------------------------
(***************************************************************************)
(* Instances of PublishOrder for TLC.  MCFresh: a process finds the id of  *)
(* each node and zero counters in its node objects.  MCAssigned: node 1    *)
(* may not know the id of node 2, and the own clock of a node may have     *)
(* another value.  These satisfy IdsAssigned and NoneAhead.  MCUnset and   *)
(* MCAhead do not: no ids, and a clock for another node that is ahead.     *)
(***************************************************************************)
EXTENDS PublishOrder, TLC

MCFresh ==
  [n \in Positions |-> {[i \in Positions |-> [node_id |-> i, generation |-> 0, clock |-> 0]]}]

MCAssigned ==
  [n \in Positions |->
     {[i \in Positions |-> [node_id |-> IF i = unknown THEN 0 ELSE i, generation |-> 0,
                            clock |-> IF i = n THEN c ELSE 0]] :
        c \in {0, 1}, unknown \in IF n = 1 THEN {0, 2} ELSE {0}}]

MCUnset ==
  [n \in Positions |-> {[i \in Positions |-> [node_id |-> 0, generation |-> 0, clock |-> 0]]}]

MCAhead ==
  [n \in Positions |-> {[i \in Positions |-> [node_id |-> i, generation |-> 0,
                                             clock |-> IF i = n THEN 0 ELSE 2]]}]

ASSUME MCAssignedIsFit == InitViews = MCAssigned => IdsAssigned /\ NoneAhead

Symmetry == Permutations(Msgs)
=============================================================================
