------------------------------- MODULE Server -------------------------------
(***************************************************************************)
(* The accept loop of a node: server (node/src/server.cpp) on the io       *)
(* service main runs, with the peers that connect.  ServerSession has what *)
(* follows on a connection.                                                *)
(*                                                                         *)
(* An exception that no handler catches leaves io_service::run, and main,  *)
(* which ends the process.                                                 *)
(***************************************************************************)
EXTENDS Naturals, Sequences, FiniteSets

CONSTANTS
  Peers,     \* connections that peers make
  MaxErrors  \* errors of accept other than those after stop()

VARIABLES
  running,     \* whether main has started the server, and the io service runs
  stopping,    \* _stopping; the acceptor is open while it is FALSE
  waiting,     \* number of async_accept operations that have not completed
  ready,       \* results of those that have, whose handler has not run
  peer,        \* peer[p]: the state of its connection
  connections, \* _connections
  errors       \* errors of accept so far

vars == <<running, stopping, waiting, ready, peer, connections, errors>>

Init ==
  /\ running = "no" /\ stopping = FALSE /\ waiting = 0 /\ ready = <<>>
  /\ peer = [p \in Peers |-> "away"] /\ connections = {} /\ errors = 0
-----------------------------------------------------------------------------
accept_new == waiting' = waiting + 1

start ==
  /\ running = "no"
  /\ running' = "yes"
  /\ accept_new
  /\ UNCHANGED <<stopping, ready, peer, connections, errors>>

stop ==
  /\ running = "yes" /\ ~stopping
  /\ stopping' = TRUE
  /\ UNCHANGED <<running, waiting, ready, peer, connections, errors>>

\* The handler of the next result is called.
Handles(result) ==
  /\ running = "yes" /\ ready # <<>> /\ result = Head(ready)
  /\ ready' = Tail(ready)
  /\ UNCHANGED <<stopping, peer, errors>>

\* After stop() the connection is dropped.
Stopped(result) ==
  /\ Handles(result) /\ stopping
  /\ UNCHANGED <<running, waiting, connections>>

\* Mutant: the connection is not kept, and ends with the handler.
StartedDrops(result) ==
  /\ Handles(result) /\ ~stopping
  /\ result \in Peers /\ peer[result] = "open"
  /\ accept_new
  /\ UNCHANGED <<running, connections>>

\* connection_in::start, up to the start of the state, and the next accept.
Started(result) ==
  /\ Handles(result) /\ ~stopping
  /\ result \in Peers /\ peer[result] = "open"
  /\ connections' = connections \cup {result}
  /\ accept_new
  /\ UNCHANGED running

\* The peer has gone: remote_endpoint() throws a boost::system::system_error,
\* which is not a network_error.
Throws(result) ==
  /\ Handles(result) /\ ~stopping
  /\ result \in Peers /\ peer[result] = "reset"
  /\ running' = "ended"
  /\ UNCHANGED <<waiting, connections>>

\* Mutant: the next accept is started in the branch and after it.
FailedTwice(result) ==
  /\ Handles(result) /\ ~stopping /\ result = "error"
  /\ waiting' = waiting + 2
  /\ UNCHANGED <<running, connections>>

Failed(result) ==
  /\ Handles(result) /\ ~stopping /\ result = "error"
  /\ accept_new
  /\ UNCHANGED <<running, connections>>

handle_accept(result) ==
  Stopped(result) \/ Started(result) \/ Throws(result) \/ Failed(result)
-----------------------------------------------------------------------------
(***************************************************************************)
(* The peers and the operating system.                                     *)
(***************************************************************************)
Connect(p) ==
  /\ peer[p] = "away" /\ running # "ended" /\ ~stopping
  /\ peer' = [peer EXCEPT ![p] = "open"]
  /\ UNCHANGED <<running, stopping, waiting, ready, connections, errors>>

Reset(p) ==
  /\ peer[p] = "open"
  /\ peer' = [peer EXCEPT ![p] = "reset"]
  /\ UNCHANGED <<running, stopping, waiting, ready, connections, errors>>

Completes(result) ==
  /\ running # "ended" /\ waiting > 0
  /\ waiting' = waiting - 1
  /\ ready' = Append(ready, result)
  /\ UNCHANGED <<running, stopping, peer, connections>>

\* A connection is accepted once; one that was reset may be.
Accepted(p) ==
  /\ ~stopping /\ peer[p] # "away"
  /\ p \notin connections /\ \A i \in 1 .. Len(ready) : ready[i] # p
  /\ Completes(p)
  /\ UNCHANGED errors

AcceptError ==
  /\ \/ stopping /\ UNCHANGED errors
     \/ ~stopping /\ errors < MaxErrors /\ errors' = errors + 1
  /\ Completes("error")

Results == Peers \cup {"error"}

Next ==
  \/ start \/ stop \/ AcceptError
  \/ \E r \in Results : handle_accept(r)
  \/ \E p \in Peers : Connect(p) \/ Reset(p) \/ Accepted(p)

Spec == Init /\ [][Next]_vars

\* The io service runs its handlers, and the system accepts what has connected.
FairSpec ==
  /\ Spec
  /\ WF_vars(start)
  /\ WF_vars(\E r \in Results : handle_accept(r))
  /\ WF_vars(\E p \in Peers : Accepted(p))
-----------------------------------------------------------------------------
(***************************************************************************)
(* The types, and that a connection is in the server's set only after its  *)
(* peer connected.                                                         *)
(***************************************************************************)
TypeOK ==
  /\ running \in {"no", "yes", "ended"} /\ stopping \in BOOLEAN
  /\ waiting \in Nat /\ ready \in Seq(Results) /\ errors \in 0 .. MaxErrors
  /\ peer \in [Peers -> {"away", "open", "reset"}]
  /\ connections \subseteq {p \in Peers : peer[p] # "away"}

(***************************************************************************)
(* While the server runs there is exactly one accept under way, whether    *)
(* the last one failed or gave a connection: the loop neither ends on an   *)
(* error nor runs twice.                                                   *)
(***************************************************************************)
OneAccept == running = "yes" /\ ~stopping => waiting + Len(ready) = 1
=============================================================================
