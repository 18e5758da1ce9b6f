------------------------------- MODULE Ring --------------------------------
(***************************************************************************)
(* The ring of a node (node/src/ring.cpp) and what it asks of its nodes    *)
(* (node::is_alive in node/src/node.cpp).                                  *)
(*                                                                         *)
(* A node is a pair of an id and the start of the range it handles.  Both  *)
(* maps of the ring are functions; an iterator of _ring_by_range is the    *)
(* key it points at.  Ranges and keys are the 128-bit numbers, here those  *)
(* below KeySpace.  The failure detector of a node is in FailureDetector;  *)
(* here it may change its mind at any time.                                *)
(***************************************************************************)
EXTENDS Integers, Sequences, FiniteSets, FiniteSetsExt, Functions

CONSTANTS
  NodeIds,   \* ids of the nodes that may join
  SelfId,    \* settings::nodeId
  KeySpace,  \* number of keys, 2^128 in the code
  Asked,     \* keys that operations are for
  Null       \* nullptr

ASSUME RingAssumption ==
  /\ KeySpace \in Nat \ {0}
  /\ Null \notin NodeIds
  /\ SelfId \in NodeIds
  /\ Asked \subseteq 0 .. KeySpace - 1

Keys == 0 .. KeySpace - 1

VARIABLES
  byRange,    \* _ring_by_range: from the start of a range to the id of its node
  byId,       \* _nodes_by_id: from an id to the start of the range of the node
  suspected,  \* nodes whose failure detector says DOWN
  forced,     \* nodes with _forced_failure set
  granted     \* history: the nodes of the last quorum returned for each key since a
              \* node joined

vars == <<byRange, byId, suspected, forced, granted>>

Empty == [x \in {} |-> x]

Init ==
  /\ byRange = Empty /\ byId = Empty
  /\ suspected = {} /\ forced = {}
  /\ granted = [k \in Asked |-> {}]

Starts == DOMAIN byRange
Members == DOMAIN byId
-----------------------------------------------------------------------------
is_alive(n) == n = SelfId \/ (n \notin forced /\ n \notin suspected)

(***************************************************************************)
(* Finding nodes: begin(), upper_bound() and the steps of an iterator.     *)
(***************************************************************************)
begin(starts) == Min(starts)

\* Mutant: lower_bound.
lower_bound(starts, key) ==
  LET above == {s \in starts : s >= key} IN
  IF above = {} THEN begin(starts) ELSE Min(above)

find_secondary_node(starts, key) ==
  LET above == {s \in starts : s > key} IN
  IF above = {} THEN begin(starts) ELSE Min(above)

find_primary_node(starts, secondary) ==
  IF secondary = begin(starts) THEN Max(starts)
  ELSE Max({s \in starts : s < secondary})

find_tertiary_node(starts, secondary) ==
  LET above == {s \in starts : s > secondary} IN
  IF above = {} THEN begin(starts) ELSE Min(above)

\* The ranges of the three nodes; the ring is not empty.
find_starts_for_key(starts, key) ==
  LET secondary == find_secondary_node(starts, key) IN
  <<find_primary_node(starts, secondary), secondary, find_tertiary_node(starts, secondary)>>

\* Mutant: the key modulo the number of nodes.
find_nodes_by_count(ring, key) ==
  LET starts == DOMAIN ring
      Nth(i) == CHOOSE s \in starts :
                  Cardinality({t \in starts : t < s}) = (key + i) % Cardinality(starts)
  IN  <<ring[Nth(0)], ring[Nth(1)], ring[Nth(2)]>>

\* Mutant: if one node is down, it is passed over before the replicas are chosen.
find_nodes_passing_over(ring, key) ==
  LET starts == DOMAIN ring
      alive == {s \in starts : is_alive(ring[s])}
      pool == IF Cardinality(alive) >= 3 /\ Cardinality(starts \ alive) = 1 THEN alive ELSE starts
      at == find_starts_for_key(pool, key)
  IN  <<ring[at[1]], ring[at[2]], ring[at[3]]>>

find_nodes_for_key(ring, key) ==
  LET at == find_starts_for_key(DOMAIN ring, key)
  IN  <<ring[at[1]], ring[at[2]], ring[at[3]]>>

(***************************************************************************)
(* find_quorum_for_operation.  The nodes that are alive, in the order of   *)
(* the shuffle, then the three tests that null a repeated node.            *)
(***************************************************************************)
Shuffles == {p \in [1 .. 3 -> 1 .. 3] : \A i, j \in 1 .. 3 : i # j => p[i] # p[j]}

\* Mutant: nodes that are down are not left out.
OutNodesAll(nodes) == nodes

\* The loop over the three nodes, with its counter as the length of what it added.
AddIfAlive(added, n) == IF is_alive(n) THEN Append(added, n) ELSE added

UpNodes(nodes) == AddIfAlive(AddIfAlive(AddIfAlive(<<>>, nodes[1]), nodes[2]), nodes[3])

OutNodes(nodes) ==
  LET up == UpNodes(nodes)
  IN  [i \in 1 .. 3 |-> IF i <= Len(up) THEN up[i] ELSE Null]

Compress(out) ==
  LET second == IF out[1] = out[2] THEN Null ELSE out[2] IN
  <<out[1], second, IF out[3] \in {second, out[1]} THEN Null ELSE out[3]>>

Quorum(key, p) ==
  LET nodes == find_nodes_for_key(byRange, key)
  IN  Compress(OutNodes(<<nodes[p[1]], nodes[p[2]], nodes[p[3]]>>))

Unavailable(key) ==
  \/ Starts = {}
  \/ Len(UpNodes(find_nodes_for_key(byRange, key))) < 2
-----------------------------------------------------------------------------
\* Mutant: the range is not checked for a conflict.
add_node_any_range(n, start) ==
  /\ n \notin Members
  /\ byRange' = [s \in Starts \cup {start} |-> IF s = start THEN n ELSE byRange[s]]
  /\ byId' = [m \in Members \cup {n} |-> IF m = n THEN start ELSE byId[m]]
  /\ granted' = [k \in Asked |-> {}]
  /\ UNCHANGED <<suspected, forced>>

\* check_no_conflict throws, and nothing changes, unless the guards hold.
add_node(n, start) ==
  /\ n \notin Members
  /\ start \notin Starts
  /\ byRange' = [s \in Starts \cup {start} |-> IF s = start THEN n ELSE byRange[s]]
  /\ byId' = [m \in Members \cup {n} |-> IF m = n THEN start ELSE byId[m]]
  /\ granted' = [k \in Asked |-> {}]
  /\ UNCHANGED <<suspected, forced>>

set_failed(n) ==
  /\ n \in Members
  /\ forced' = forced \cup {n}
  /\ UNCHANGED <<byRange, byId, suspected, granted>>

\* The failure detector of the node changes between UP and DOWN.
Interpret(n) ==
  /\ n \in Members \ {SelfId}
  /\ suspected' = SymDiff(suspected, {n})
  /\ UNCHANGED <<byRange, byId, forced, granted>>

find_quorum_for_operation(key, p) ==
  /\ ~Unavailable(key)
  /\ granted' = [granted EXCEPT ![key] = Range(Quorum(key, p)) \ {Null}]
  /\ UNCHANGED <<byRange, byId, suspected, forced>>

Next ==
  \/ \E n \in NodeIds : \/ \E start \in Keys : add_node(n, start)
                        \/ set_failed(n)
                        \/ Interpret(n)
  \/ \E key \in Asked, p \in Shuffles : find_quorum_for_operation(key, p)

Spec == Init /\ [][Next]_vars
-----------------------------------------------------------------------------
\* The types of the ring's two maps, and that only members are failed or suspected.
TypeOK ==
  /\ Starts \subseteq Keys /\ Members \subseteq NodeIds
  /\ byRange \in [Starts -> NodeIds] /\ byId \in [Members -> Keys]
  /\ suspected \subseteq Members /\ forced \subseteq Members
  /\ granted \in [Asked -> SUBSET NodeIds]

(***************************************************************************)
(* The two maps of the ring are inverse to each other: a node that         *)
(* conflicts by id or by range leaves neither of them changed.             *)
(***************************************************************************)
MapsAgree ==
  /\ \A s \in Starts : byRange[s] \in Members /\ byId[byRange[s]] = s
  /\ \A n \in Members : byId[n] \in Starts /\ byRange[byId[n]] = n

(***************************************************************************)
(* docs/Ring.txt: "Each node is responsible for handling subscriptions     *)
(* from its range identifier up to the following one".  Going up from a    *)
(* node's range start, and around the ring, the key is reached from the    *)
(* primary before any other start; the secondary is the first start after  *)
(* the key, and the tertiary the first one after the secondary.            *)
(***************************************************************************)
Distance(from, to) == (to - from) % KeySpace

PlacementFollowsRing ==
  \A key \in Keys : Starts # {} =>
    LET at == find_starts_for_key(Starts, key)
        Nearest(s, after) == /\ s \in Starts
                             /\ \A t \in Starts : Distance(after + 1, s) <= Distance(after + 1, t)
    IN  /\ at[1] \in Starts
        /\ \A t \in Starts : Distance(at[1], key) <= Distance(t, key)
        /\ Nearest(at[2], key)
        /\ Nearest(at[3], at[2])

(***************************************************************************)
(* "Finds a quorum of up nodes to fulfil a request for the given key":     *)
(* with three nodes or more in the ring, the array has two different nodes *)
(* in front, holds every replica of the key that is up and no other node,  *)
(* and no node twice, for every order the shuffle gives.                   *)
(***************************************************************************)
QuorumIsUsable ==
  Cardinality(Starts) >= 3 => \A key \in Asked : ~Unavailable(key) =>
    LET up == {n \in Range(find_nodes_for_key(byRange, key)) : is_alive(n)} IN
    \A p \in Shuffles :
      LET q == Quorum(key, p) IN
      /\ q[1] # Null /\ q[2] # Null
      /\ \A i, j \in 1 .. 3 : i # j => q[i] # q[j]
      /\ Range(q) \ {Null} = up

(***************************************************************************)
(* A node that joins a ring of three or more takes the place of at most    *)
(* one of the three replicas of any key, which is what lets a quorum of    *)
(* the new replicas know what one of the old replicas knew.                *)
(***************************************************************************)
JoinMovesOneReplica ==
  [][byRange' # byRange /\ Cardinality(Starts) >= 3 => \A key \in Keys :
       Cardinality(Range(find_nodes_for_key(byRange, key))
                     \cap Range(find_nodes_for_key(byRange', key))) >= 2]_vars

(***************************************************************************)
(* While no node joins, any two nodes of one quorum and any two of a later *)
(* one for the same key share a node, whatever failed or came back in      *)
(* between: the replicas are chosen before the test of is_alive.           *)
(***************************************************************************)
Majorities(nodes) == {q \in SUBSET nodes : Cardinality(q) = 2}

SuccessiveQuorumsMeet ==
  [][granted' # granted => \A key \in Asked :
       \A q \in Majorities(granted[key]), r \in Majorities(granted'[key]) : q \cap r # {}]_vars

(***************************************************************************)
(* "The first two nodes should be tried first followed by the last": when  *)
(* a quorum has two nodes, they are the first two of the array.            *)
(* The code does not keep this statement (README, Deviations).             *)
(***************************************************************************)
FirstTwoPresent ==
  \A key \in Keys, p \in Shuffles : ~Unavailable(key) =>
    LET q == Quorum(key, p) IN
    Cardinality(Range(q) \ {Null}) >= 2 => q[1] # Null /\ q[2] # Null
=============================================================================
