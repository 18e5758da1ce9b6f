---------------------------- MODULE PublishOrder ----------------------------
(***************************************************************************)
(* How a queue's messages get their vector clocks: each replica that takes *)
(* a message advances its own clock and answers with the clocks it knows   *)
(* (local_node_operations::send_proxy_publish), and the coordinator        *)
(* combines the two answers of the quorum (csauthenticated, the callback   *)
(* of handle_post_message).                                                *)
(*                                                                         *)
(* The replicas of the queue are the ring positions 1..RF; the coordinator *)
(* is another node.  Every process has node objects of its own, so view[n] *)
(* holds the clocks process n knows.  Nothing in the code ever writes a    *)
(* remote node's clock, and no constructor of node or node_clock sets any  *)
(* of the fields: a process starts with whatever InitViews allows it.      *)
(* The status of an answer is up to what sends it on, which is not part of *)
(* the source: local_node_operations leaves it unset.                      *)
(***************************************************************************)
EXTENDS VectorClock

CONSTANTS
  Msgs,        \* the messages published to the queue
  InitViews,   \* InitViews[n]: what process n may find in its node objects when it starts
  MaxClock,    \* bound on a node's clock
  MaxRestarts, \* bound on the restarts of nodes
  None         \* no clock

VectorClocks == [Positions -> NodeClock(Nat, Nat, Nat)]

ASSUME PublishOrderAssumption ==
  /\ RF = 3
  /\ MaxClock \in Nat /\ MaxRestarts \in Nat
  /\ \A n \in Positions : InitViews[n] # {} /\ InitViews[n] \subseteq VectorClocks
  /\ None \notin VectorClocks

\* The clock tells its three nodes apart.
DistinctIds(v) == \A i, j \in Positions : i # j => v[i].node_id # v[j].node_id

(***************************************************************************)
(* What the order of messages rests on and no line of the code provides:   *)
(* node_clock::node_id, "The node's unique identifier", has different      *)
(* values for the nodes of a queue, and no process starts with a clock for *)
(* another node that is ahead of the one that node itself starts with.     *)
(***************************************************************************)
IdsAssigned == \A n \in Positions : \A v \in InitViews[n] : DistinctIds(v)

NoneAhead ==
  \A n, i \in Positions : i # n =>
    \A v \in InitViews[n], w \in InitViews[i] : ~NodeClockLess(w[i], v[i])

VARIABLES
  view,      \* view[n][i]: the clock process n holds for the node at position i
  target,    \* target[m]: the two nodes the publish of m was sent to, {} before
  reply,     \* reply[m][n]: the clock node n answered with, or None
  stamp,     \* stamp[m]: the combined clock, or None
  failed,    \* the publishes with an answer that was not QUEUED or clocks that do not combine
  before,    \* history: before[m], the messages with a stamp when m was published
  disturbed, \* history: the messages one of whose nodes has restarted since it took it
  restarts   \* number of restarts so far

vars == <<view, target, reply, stamp, failed, before, disturbed, restarts>>

Stamped == {m \in Msgs : stamp[m] # None}

Init ==
  /\ view \in {v \in [Positions -> UNION {InitViews[n] : n \in Positions}] :
                \A n \in Positions : v[n] \in InitViews[n]}
  /\ target = [m \in Msgs |-> {}]
  /\ reply = [m \in Msgs |-> [n \in Positions |-> None]]
  /\ stamp = [m \in Msgs |-> None]
  /\ failed = {}
  /\ before = [m \in Msgs |-> {}]
  /\ disturbed = {}
  /\ restarts = 0

\* The coordinator sends m to a quorum of two replicas (quorum_logic::run).
Publish(m, Q) ==
  /\ target[m] = {}
  /\ target' = [target EXCEPT ![m] = Q]
  /\ before' = [before EXCEPT ![m] = Stamped]
  /\ UNCHANGED <<view, reply, stamp, failed, disturbed, restarts>>

\* ++_clock.clock, for a message of this queue or of any other queue of node n:
\* the clock is the node's, not the queue's.
Advance(n) ==
  /\ view[n][n].clock < MaxClock
  /\ view' = [view EXCEPT ![n][n].clock = @ + 1]

\* Mutant: the clock is not advanced.
TakeMessageNoTick(n, m) ==
  /\ n \in target[m] /\ reply[m][n] = None
  /\ reply' = [reply EXCEPT ![m][n] = view[n]]
  /\ UNCHANGED <<view, target, stamp, failed, before, disturbed, restarts>>

\* Node n takes m and answers with its clocks, its own one advanced.
TakeMessage(n, m) ==
  /\ n \in target[m] /\ reply[m][n] = None
  /\ Advance(n)
  /\ reply' = [reply EXCEPT ![m][n] = view'[n]]
  /\ UNCHANGED <<target, stamp, failed, before, disturbed, restarts>>

TakeOther(n) ==
  /\ Advance(n)
  /\ UNCHANGED <<target, reply, stamp, failed, before, disturbed, restarts>>

\* An answer reaches the coordinator with a status other than QUEUED: node_failed.
\* Both nodes were asked by then, so the publish fails.
NotQueued(m, n) ==
  /\ reply[m][n] # None
  /\ m \notin failed /\ stamp[m] = None
  /\ failed' = failed \cup {m}
  /\ UNCHANGED <<view, target, reply, stamp, before, disturbed, restarts>>

\* The second answer with status QUEUED reaches the coordinator: the clocks are
\* combined, unless max() throws because they name different nodes.
Combine(m, a, b) ==
  /\ target[m] = {a, b} /\ a # b
  /\ reply[m][a] # None /\ reply[m][b] # None
  /\ m \notin failed /\ stamp[m] = None
  /\ IF SameQuorum(reply[m][a], reply[m][b])
     THEN /\ stamp' = [stamp EXCEPT ![m] = VCMax(reply[m][a], reply[m][b])]
          /\ UNCHANGED failed
     ELSE failed' = failed \cup {m} /\ UNCHANGED stamp
  /\ UNCHANGED <<view, target, reply, before, disturbed, restarts>>

\* Node n stops and starts again: its node objects are constructed anew.
Restart(n) ==
  /\ restarts < MaxRestarts
  /\ restarts' = restarts + 1
  /\ \E v \in InitViews[n] : view' = [view EXCEPT ![n] = v]
  /\ disturbed' = disturbed \cup {m \in Msgs : reply[m][n] # None}
  /\ UNCHANGED <<target, reply, stamp, failed, before>>

Next ==
  \/ \E m \in Msgs, Q \in SUBSET Positions : Cardinality(Q) = 2 /\ Publish(m, Q)
  \/ \E n \in Positions, m \in Msgs : TakeMessage(n, m) \/ NotQueued(m, n)
  \/ \E n \in Positions : TakeOther(n)
  \/ \E m \in Msgs, a, b \in Positions : Combine(m, a, b)
  \/ \E n \in Positions : Restart(n)

Spec == Init /\ [][Next]_vars
-----------------------------------------------------------------------------
\* The types of the clocks each node holds, the replies and the stamps.
TypeOK ==
  /\ view \in [Positions -> VectorClocks]
  /\ target \in [Msgs -> SUBSET Positions]
  /\ reply \in [Msgs -> [Positions -> VectorClocks \cup {None}]]
  /\ stamp \in [Msgs -> VectorClocks \cup {None}]
  /\ failed \subseteq Msgs
  /\ before \in [Msgs -> SUBSET Msgs]
  /\ disturbed \subseteq Msgs
  /\ restarts \in 0 .. MaxRestarts

(***************************************************************************)
(* A message published after another one had its clock gets a greater      *)
(* clock, if none of the nodes that took the earlier message has restarted *)
(* since: whatever two replicas each publish used, and whatever other      *)
(* messages the replicas took in between, vector_clock's operator< orders  *)
(* the two messages the way they were published.  It holds where           *)
(* IdsAssigned and NoneAhead do, and fails without (README, Deviations).   *)
(***************************************************************************)
RealTimeOrder ==
  \A m2 \in Stamped : \A m1 \in before[m2] \ disturbed : VCLess(stamp[m1], stamp[m2])

(***************************************************************************)
(* docs/Node Restart.txt: "Must keep generation number in vector clock to  *)
(* preserve queue ordering during a restart".  The same order, for         *)
(* messages whose nodes may have restarted.  The code never sets or        *)
(* advances a generation.                                                  *)
(* The code does not keep this statement (README, Deviations).             *)
(***************************************************************************)
OrderKeptAcrossRestart ==
  \A m2 \in Stamped : \A m1 \in before[m2] : ~VCLess(stamp[m2], stamp[m1])

(***************************************************************************)
(* "Priority queue for queued_message sorted by vclock": operator<, the    *)
(* order of the multimap _queued_messages, is transitive on the clocks the *)
(* coordinator hands out.                                                  *)
(***************************************************************************)
StampsSortable ==
  \A a, b, c \in Stamped :
    VCLess(stamp[a], stamp[b]) /\ VCLess(stamp[b], stamp[c])
      => VCLess(stamp[a], stamp[c])
=============================================================================
