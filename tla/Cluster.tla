------------------------------ MODULE Cluster -------------------------------
(***************************************************************************)
(* The client's list of nodes: cluster and cluster_endpoint                *)
(* (client/cpp/src).                                                       *)
(*                                                                         *)
(* Time is counted in units of MINIMUM_BACKOFF_SECS since the last failure *)
(* of an endpoint.  kill_endpoint is an operation of the class that        *)
(* nothing calls yet.                                                      *)
(***************************************************************************)
EXTENDS Integers, Sequences, FiniteSets, Functions

CONSTANTS
  Endpoints,   \* the endpoints the cluster was built with
  Reachable,   \* those whose node accepts connections
  Connects,    \* calls of connect the application makes
  MaxBackoff,  \* MAXIMUM_BACKOFF_SECS in these units (60 in the code)
  TimeCap,     \* time is not told apart from here on
  MaxKills     \* bound on the failures of endpoints

ASSUME ClusterAssumption ==
  /\ IsFiniteSet(Endpoints) /\ Reachable \subseteq Endpoints
  /\ MaxBackoff \in Nat /\ TimeCap \in Nat /\ MaxKills \in Nat

\* MINIMUM_BACKOFF_SECS doubled n times.
Doubled(n) == 2 ^ n

\* What the proofs use of powers of two.
ASSUME DoubledAssumption ==
  /\ Doubled(0) = 1
  /\ \A n \in 0 .. MaxKills : Doubled(n) \in Nat \ {0} /\ Doubled(n + 1) = 2 * Doubled(n)

VARIABLES
  live,      \* _liveEndpoints
  dead,      \* _deadEndpoints
  isFailed,  \* cluster_endpoint::_isFailed
  backoff,   \* cluster_endpoint::_currentBackoff
  since,     \* secs_since_last_try()
  attempt,   \* attempt[c]: the endpoint the call c is connecting to, or how it ended
  kills,     \* number of failures so far
  fails      \* fails[e]: calls of mark_failed since e was last up; kept for the properties

clusterVars == <<live, dead, isFailed, backoff, since, attempt, kills, fails>>
endpoints == <<isFailed, backoff, since, fails>>

\* The sequences in which each element of a finite set S occurs once.
Orders(S) == Bijection(1 .. Cardinality(S), S)

ClusterInit ==
  /\ live \in Orders(Endpoints) /\ dead = {}
  /\ isFailed = [e \in Endpoints |-> FALSE]
  /\ backoff = [e \in Endpoints |-> 0]
  /\ since = [e \in Endpoints |-> TimeCap]
  /\ attempt = [c \in Connects |-> "uncalled"]
  /\ kills = 0 /\ fails = [e \in Endpoints |-> 0]
-----------------------------------------------------------------------------
ready_for_retry(e) == since[e] >= backoff[e]

\* Mutant: the minimum, whatever it was.
minimum_backoff(b) == 1

increase_backoff(b) == IF b = 0 THEN 1 ELSE 2 * b

mark_failed(e) ==
  /\ since' = [since EXCEPT ![e] = 0]
  /\ isFailed' = [isFailed EXCEPT ![e] = TRUE]
  /\ backoff' = [backoff EXCEPT ![e] = increase_backoff(@)]
  /\ fails' = [fails EXCEPT ![e] = @ + 1]

\* remove leaves one element past the others, as e is in the list once; erase
\* takes that element away.
kill_endpoint(e) ==
  /\ kills < MaxKills /\ kills' = kills + 1
  /\ e \notin dead
  /\ mark_failed(e)
  /\ dead' = dead \cup {e}
  /\ \E i \in 1 .. Len(live) :
       /\ live[i] = e
       /\ live' = SubSeq(live, 1, i - 1) \o SubSeq(live, i + 1, Len(live))
  /\ UNCHANGED attempt

\* mark_failed for an endpoint that is already dead, by a user of the endpoint.
FailAgain(e) ==
  /\ kills < MaxKills /\ kills' = kills + 1
  /\ isFailed[e]
  /\ mark_failed(e)
  /\ UNCHANGED <<live, dead, attempt>>

\* Mutant: the endpoint is not erased from _deadEndpoints.
check_without_erase ==
  LET ready == {e \in dead : ready_for_retry(e)} IN
  /\ isFailed' = [e \in Endpoints |-> isFailed[e] /\ e \notin ready]
  /\ backoff' = [e \in Endpoints |-> IF e \in ready THEN 0 ELSE backoff[e]]
  /\ fails' = [e \in Endpoints |-> IF e \in ready THEN 0 ELSE fails[e]]
  /\ \E order \in Orders(ready) : live' = live \o order
  /\ UNCHANGED <<dead, since>>

\* mark_up for every endpoint that is ready, in the order of the set.
check_for_expired_deaths ==
  LET ready == {e \in dead : ready_for_retry(e)} IN
  /\ isFailed' = [e \in Endpoints |-> isFailed[e] /\ e \notin ready]
  /\ backoff' = [e \in Endpoints |-> IF e \in ready THEN 0 ELSE backoff[e]]
  /\ fails' = [e \in Endpoints |-> IF e \in ready THEN 0 ELSE fails[e]]
  /\ dead' = dead \ ready
  /\ \E order \in Orders(ready) : live' = live \o order
  /\ UNCHANGED since

try_connect_next_endpoint(c) ==
  /\ attempt[c] = "uncalled"
  /\ check_for_expired_deaths
  /\ \/ /\ live' = <<>>
        /\ attempt' = [attempt EXCEPT ![c] = "unavailable"]
     \/ \E e \in Range(live') : attempt' = [attempt EXCEPT ![c] = e]
  /\ UNCHANGED kills

\* Mutant: the handler is not called with an error.
connection_only_result(c, successful) ==
  /\ attempt[c] \in Endpoints /\ successful
  /\ attempt' = [attempt EXCEPT ![c] = "session"]
  /\ UNCHANGED <<live, dead, endpoints, kills>>

connection_result(c, successful) ==
  /\ attempt[c] \in Endpoints
  /\ attempt' = [attempt EXCEPT ![c] = IF successful THEN "session" ELSE "error"]
  /\ UNCHANGED <<live, dead, endpoints, kills>>

Tick ==
  /\ since' = [e \in Endpoints |-> IF since[e] < TimeCap THEN since[e] + 1 ELSE since[e]]
  /\ UNCHANGED <<live, dead, isFailed, backoff, attempt, kills, fails>>
-----------------------------------------------------------------------------
Ends == {"uncalled", "unavailable", "session", "error"}

\* The types of the endpoint collections, their backoff and the connects under way.
ClusterTypeOK ==
  /\ live \in Seq(Endpoints) /\ dead \subseteq Endpoints
  /\ isFailed \in [Endpoints -> BOOLEAN]
  /\ backoff \in [Endpoints -> Nat]
  /\ since \in [Endpoints -> 0 .. TimeCap]
  /\ attempt \in [Connects -> Endpoints \cup Ends]
  /\ kills \in 0 .. MaxKills /\ fails \in [Endpoints -> Nat]

(***************************************************************************)
(* Every endpoint is in exactly one of the two collections, once, and is   *)
(* marked failed exactly when it is in the dead one: killing it while      *)
(* connects are going on, and its return, neither lose nor double it.      *)
(***************************************************************************)
LiveAndDeadPartition ==
  /\ IsInjective(live)
  /\ Range(live) \cap dead = {} /\ Range(live) \cup dead = Endpoints
  /\ \A e \in Endpoints : isFailed[e] <=> e \in dead

(***************************************************************************)
(* An endpoint that died comes back only when the backoff has passed since *)
(* its last failure: MINIMUM_BACKOFF_SECS, doubled for every failure after *)
(* the first since it was last up.                                         *)
(***************************************************************************)
ReturnsAfterBackoff == [][\A e \in dead \ dead' : since[e] >= Doubled(fails[e] - 1)]_clusterVars

(***************************************************************************)
(* increase_backoff "doubles it if not up to MAXIMUM_BACKOFF_SECS": the    *)
(* backoff does not exceed the maximum.                                    *)
(* The code does not keep this statement (README, Deviations).             *)
(***************************************************************************)
BackoffCapped == \A e \in Endpoints : backoff[e] <= MaxBackoff

(***************************************************************************)
(* "A cluster is a collection of endpoints that is managed to provide      *)
(* fault tolerance in the face of errors": connect reports an error only   *)
(* if none of the live endpoints can be reached.                           *)
(* The code does not keep this statement (README, Deviations).             *)
(***************************************************************************)
ToleratesFaults ==
  \A c \in Connects : attempt[c] = "error" => Range(live) \cap Reachable = {}
=============================================================================
