----------------------------- MODULE Connecting -----------------------------
(***************************************************************************)
(* A client that connects to its cluster (Cluster) and the accept loop of  *)
(* the one node of it that is up (Server).  connection_base first resolves *)
(* the name of the endpoint.  A connection then exists once the node's     *)
(* system has it, which the client's connect and the node's accept each    *)
(* learn later, in either order.  An endpoint without a node refuses, and  *)
(* so does the node once it has stopped or ended.                          *)
(***************************************************************************)
EXTENDS Cluster

CONSTANT MaxErrors  \* errors of accept other than those after stop()

ASSUME ConnectingAssumption ==
  /\ Cardinality(Reachable) = 1
  /\ "error" \notin Connects /\ MaxErrors \in Nat

VARIABLES
  resolved,  \* calls whose endpoint's name was resolved
  running, stopping, waiting, ready, peer, connections, errors  \* of Server

Node == INSTANCE Server WITH Peers <- Connects

node == <<running, stopping, waiting, ready, peer, connections, errors>>
allVars == <<clusterVars, resolved, node>>

ConnectingInit == ClusterInit /\ resolved = {} /\ Node!Init
-----------------------------------------------------------------------------
\* Only the first address is tried; a name that has none is an error.
after_resolve(c) ==
  /\ attempt[c] \in Endpoints /\ c \notin resolved
  /\ \/ resolved' = resolved \cup {c} /\ UNCHANGED clusterVars
     \/ connection_result(c, FALSE) /\ UNCHANGED resolved
  /\ UNCHANGED node

\* The connect reaches the node's system.
Connect(c) ==
  /\ c \in resolved /\ attempt[c] \in Reachable
  /\ Node!Connect(c)
  /\ UNCHANGED <<clusterVars, resolved>>

Refused(c) ==
  attempt[c] \notin Reachable \/ (peer[c] = "away" /\ (stopping \/ running = "ended"))

after_connect(c) ==
  /\ c \in resolved
  /\ peer[c] # "away" \/ Refused(c)
  /\ connection_result(c, peer[c] # "away")
  /\ UNCHANGED <<resolved, node>>

Client ==
  /\ \/ \E c \in Connects : try_connect_next_endpoint(c)
     \/ \E e \in Endpoints : kill_endpoint(e) \/ FailAgain(e)
     \/ Tick
  /\ UNCHANGED <<resolved, node>>

Accepts ==
  /\ \/ Node!start \/ Node!stop \/ Node!AcceptError
     \/ \E r \in Node!Results : Node!handle_accept(r)
     \/ \E c \in Connects : Node!Reset(c) \/ Node!Accepted(c)
  /\ UNCHANGED <<clusterVars, resolved>>

ConnectingNext ==
  \/ Client \/ Accepts
  \/ \E c \in Connects : after_resolve(c) \/ Connect(c) \/ after_connect(c)

\* The io services of both sides run their handlers, the system resolves and
\* connects what asks for it and accepts what has connected.
ConnectingSpec ==
  /\ ConnectingInit /\ [][ConnectingNext]_allVars
  /\ \A c \in Connects : /\ WF_allVars(after_resolve(c)) /\ WF_allVars(Connect(c))
                          /\ WF_allVars(after_connect(c))
  /\ WF_allVars(Node!start /\ UNCHANGED <<clusterVars, resolved>>)
  /\ WF_allVars((\E r \in Node!Results : Node!handle_accept(r)) /\ UNCHANGED <<clusterVars, resolved>>)
  /\ WF_allVars((\E c \in Connects : Node!Accepted(c)) /\ UNCHANGED <<clusterVars, resolved>>)
-----------------------------------------------------------------------------
(***************************************************************************)
(* While the server runs there is exactly one accept under way, whether    *)
(* the last one failed or gave a connection: the loop neither ends on an   *)
(* error nor runs twice.                                                   *)
(***************************************************************************)
OneAccept == Node!OneAccept

(***************************************************************************)
(* connect calls its handler in the end, with a session or an error,       *)
(* whatever becomes of the endpoint meanwhile: of its entry in the lists   *)
(* of the cluster and of the node behind it.                               *)
(***************************************************************************)
ConnectEnds == \A c \in Connects : attempt[c] \in Endpoints ~> attempt[c] \in {"session", "error"}

(***************************************************************************)
(* A client that was given a session is served in the end, whatever errors *)
(* the accepts before it met and in whichever order the two sides learned  *)
(* of the connection, unless it goes away or the server stops or ends.     *)
(***************************************************************************)
SessionIsServed ==
  \A c \in Connects :
    attempt[c] = "session"
      ~> c \in connections \/ peer[c] = "reset" \/ stopping \/ running = "ended"
=============================================================================
