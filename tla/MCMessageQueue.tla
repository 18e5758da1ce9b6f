--------------------------- MODULE MCMessageQueue ---------------------------
(***************************************************************************)
(* Instances of MessageQueue for TLC.  The clocks of MCChain are ordered   *)
(* by operator<, two of them equal in that order: the second and the third *)
(* differ, but each is ahead of the other at one node.                     *)
(***************************************************************************)
EXTENDS MessageQueue, TLC

Ticks(a, b, c) ==
  [i \in Positions |-> [node_id |-> i, generation |-> 0, clock |-> <<a, b, c>>[i]]]

MCChain == {Ticks(1, 1, 0), Ticks(2, 3, 0), Ticks(3, 2, 0)}
Symmetry == Permutations(Ids) \cup Permutations(Threads)
=============================================================================
