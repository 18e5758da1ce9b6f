---------------------------- MODULE VectorClock ----------------------------
(***************************************************************************)
(* Node clocks and vector clocks (node/src/node_clock.*, vector_clock.h).  *)
(*                                                                         *)
(* A node clock is the record of the class' three fields.  A vector clock  *)
(* is the array of RF node clocks, a function on 1..RF; the order of the   *)
(* positions is the order of the replicas of a key on the ring, so two     *)
(* clocks may hold different node ids, or the same ids at other positions. *)
(***************************************************************************)
EXTENDS Integers, FiniteSets

CONSTANT RF   \* the replication factor, a template parameter (3 in the node)

ASSUME RFAssumption == RF \in Nat \ {0}

Positions == 1 .. RF

NodeClock(Id, Gen, Clk) == [node_id : Id, generation : Gen, clock : Clk]

(***************************************************************************)
(* node_clock.  operator< throws comparison_error for clocks of different  *)
(* nodes; every caller below compares clocks of one node only.             *)
(***************************************************************************)
NodeClockLess(l, r) ==
  \/ l.generation < r.generation
  \/ l.generation = r.generation /\ l.clock < r.clock

\* std::max: the second operand only if the first one is less.
NodeClockMax(a, b) == IF NodeClockLess(a, b) THEN b ELSE a

(***************************************************************************)
(* vector_clock.                                                           *)
(***************************************************************************)

\* The position of rhs that position i of lhs is compared with: the inner loop
\* of operator< breaks at the first matching node id.
IsPartner(lhs, rhs, i, j) ==
  /\ lhs[i].node_id = rhs[j].node_id
  /\ \A k \in Positions : k < j => lhs[i].node_id # rhs[k].node_id

LeftLess(lhs, rhs) ==
  {i \in Positions : \E j \in Positions :
      IsPartner(lhs, rhs, i, j) /\ NodeClockLess(lhs[i], rhs[j])}

RightLess(lhs, rhs) ==
  {i \in Positions : \E j \in Positions :
      IsPartner(lhs, rhs, i, j) /\ NodeClockLess(rhs[j], lhs[i])}

\* operator<: more node clocks of lhs are behind than ahead.
VCLess(lhs, rhs) == Cardinality(LeftLess(lhs, rhs)) > Cardinality(RightLess(lhs, rhs))

VCGreater(lhs, rhs) == ~VCLess(lhs, rhs) /\ lhs # rhs

\* max() throws comparison_error unless the clocks name the same nodes at the
\* same positions.
SameQuorum(a, b) == \A i \in Positions : a[i].node_id = b[i].node_id

VCMax(a, b) == [i \in Positions |-> NodeClockMax(a[i], b[i])]
=============================================================================
