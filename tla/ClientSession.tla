--------------------------- MODULE ClientSession ----------------------------
(***************************************************************************)
(* A client's session with a node: session, unauthenticated_state and      *)
(* authenticated_state (client/cpp/src), on connection_base and            *)
(* message_dispatcher (shared/src).                                        *)
(*                                                                         *)
(* Messages are whole here (MessageStream has their transfer): a write is  *)
(* pending until its status callback runs, and the reply to a message is   *)
(* read after that callback, as on the one thread that runs the io         *)
(* service.  A message carries an id and the id it is in reply to; a       *)
(* dispatcher maps the latter to a handler.  The node is the environment:  *)
(* it answers what it has received.                                        *)
(***************************************************************************)
EXTENDS Integers, Sequences, FiniteSets, Functions

CONSTANTS
  Publishes,   \* publish_message calls the application makes
  MaxReplies,  \* PublishResponse messages a node may send for one publish
  MayBreak,    \* whether the connection may be lost
  MayStray     \* whether the node may send a message nothing asked for

ASSUME ClientSessionAssumption ==
  /\ MaxReplies \in Nat \ {0}
  /\ MayBreak \in BOOLEAN /\ MayStray \in BOOLEAN

VARIABLES
  state,       \* _session_state
  up,          \* the connection is open at both ends
  nextId,      \* connection_base::_next_id
  challengeHandlers, \* ids with a handler for ChallengeResponse
  ackHandlers,       \* ids with a handler for AuthAck
  publishHandlers,   \* for PublishResponse: the id and the publish of each handler
  reading,     \* the state whose dispatcher the pending read uses, or "no"
  writing,     \* pending writes
  requests,    \* messages the node has and may answer
  inbox,       \* messages on their way to the client
  authCalls,   \* calls of the application's authenticate_callback
  published,   \* the publish_message calls made so far
  results,     \* results[p]: calls of the publish_message_callback of p
  stray        \* whether a stray message was sent

client == <<state, nextId, challengeHandlers, ackHandlers, publishHandlers>>
callbacks == <<authCalls, published, results>>
vars == <<client, up, reading, writing, requests, inbox, callbacks, stray>>

Get(id) == [type |-> "GetChallenge", id |-> id]
Answer(id, re) == [type |-> "AnswerChallenge", id |-> id, re |-> re]
Publish(id, p) == [type |-> "Publish", id |-> id, publish |-> p]

Init ==
  /\ state = "none" /\ up = TRUE /\ nextId = 0
  /\ challengeHandlers = {} /\ ackHandlers = {} /\ publishHandlers = {}
  /\ reading = "no" /\ writing = {} /\ requests = {} /\ inbox = <<>>
  /\ authCalls = <<>> /\ published = {} /\ results = [p \in Publishes |-> <<>>]
  /\ stray = FALSE
-----------------------------------------------------------------------------
(***************************************************************************)
(* The connection and the dispatchers.                                     *)
(***************************************************************************)
get_next_id == nextId' = nextId + 1

send_message(m) == writing' = writing \cup {m}

\* Without an id it is 0, whose entry a null handler erases.
set_handler(ids, handler, id) == IF handler THEN ids \cup {id} ELSE ids \ {id}

\* session::protocol_violation and invalidate: close() ends the connection.
protocol_violation == up' = FALSE
-----------------------------------------------------------------------------
(***************************************************************************)
(* Calls of the application.                                               *)
(***************************************************************************)

\* session::authenticate and unauthenticated_state::state_entry.
authenticate ==
  /\ state = "none"
  /\ state' = "unauthenticated"
  /\ get_next_id
  /\ challengeHandlers' = set_handler({}, TRUE, nextId')
  /\ send_message(Get(nextId'))
  /\ reading' = "unauthenticated"
  /\ UNCHANGED <<up, ackHandlers, publishHandlers, requests, inbox, callbacks, stray>>

\* In the unauthenticated state the call throws.
publish_message(p) ==
  /\ state = "authenticated"
  /\ p \notin published
  /\ published' = published \cup {p}
  /\ get_next_id
  /\ send_message(Publish(nextId', p))
  /\ UNCHANGED <<state, up, challengeHandlers, ackHandlers, publishHandlers,
                 reading, requests, inbox, authCalls, results, stray>>

\* Mutant: the handler for the response is not set.
SentNoHandler(w) ==
  /\ w \in writing /\ up
  /\ writing' = writing \ {w}
  /\ requests' = requests \cup {w}
  /\ UNCHANGED <<state, up, nextId, challengeHandlers, ackHandlers, publishHandlers,
                 reading, inbox, callbacks, stray>>

(***************************************************************************)
(* The status callback of a write.                                         *)
(***************************************************************************)
Sent(w) ==
  /\ w \in writing /\ up
  /\ writing' = writing \ {w}
  /\ requests' = requests \cup {w}
  /\ publishHandlers' = IF w.type = "Publish"
                        THEN publishHandlers \cup {[id |-> w.id, publish |-> w.publish]}
                        ELSE publishHandlers
  /\ UNCHANGED <<state, up, nextId, challengeHandlers, ackHandlers,
                 reading, inbox, callbacks, stray>>

\* on_message_sent with an error; a publish only logs it.
SendFailed(w) ==
  /\ w \in writing /\ ~up
  /\ writing' = writing \ {w}
  /\ authCalls' = IF w.type = "Publish" THEN authCalls ELSE Append(authCalls, FALSE)
  /\ UNCHANGED <<client, up, reading, requests, inbox, published, results, stray>>

(***************************************************************************)
(* A message was read: status callback, which does nothing on success, and *)
(* dispatch.  do_dispatch has a copy of the map, so it erases no handler.  *)
(***************************************************************************)
Received(m) ==
  /\ reading # "no" /\ inbox # <<>> /\ m = Head(inbox)
  /\ inbox' = Tail(inbox)

IsChallenge(m) ==
  reading = "unauthenticated" /\ m.type = "ChallengeResponse" /\ m.re \in challengeHandlers

IsAck(m) ==
  reading = "unauthenticated" /\ m.type = "AuthAck" /\ m.re \in ackHandlers

IsResponse(m) ==
  /\ reading = "authenticated" /\ m.type = "PublishResponse"
  /\ \E h \in publishHandlers : h.id = m.re

\* Mutant: nothing reads the AuthAck.
on_challenge_no_read(m) ==
  /\ Received(m) /\ IsChallenge(m)
  /\ get_next_id
  /\ ackHandlers' = set_handler(ackHandlers, TRUE, nextId')
  /\ challengeHandlers' = set_handler(challengeHandlers, FALSE, 0)
  /\ send_message(Answer(nextId', m.id))
  /\ reading' = "no"
  /\ UNCHANGED <<state, up, publishHandlers, requests, callbacks, stray>>

\* set_handler without an id removes the handler for messages in reply to none.
on_challenge_response(m) ==
  /\ Received(m) /\ IsChallenge(m)
  /\ get_next_id
  /\ ackHandlers' = set_handler(ackHandlers, TRUE, nextId')
  /\ challengeHandlers' = set_handler(challengeHandlers, FALSE, 0)
  /\ send_message(Answer(nextId', m.id))
  /\ reading' = "unauthenticated"
  /\ UNCHANGED <<state, up, publishHandlers, requests, callbacks, stray>>

\* Mutant: the next read still belongs to the unauthenticated state.
on_auth_ack_old_reader(m) ==
  /\ Received(m) /\ IsAck(m)
  /\ authCalls' = Append(authCalls, m.authorized)
  /\ state' = IF m.authorized THEN "authenticated" ELSE state
  /\ reading' = IF m.authorized THEN "unauthenticated" ELSE "no"
  /\ UNCHANGED <<up, nextId, challengeHandlers, ackHandlers, publishHandlers,
                 writing, requests, published, results, stray>>

\* Mutant: a client that was refused reads on.
on_auth_status_reads(ok) ==
  /\ state' = IF ok THEN "authenticated" ELSE state
  /\ reading' = IF ok THEN "authenticated" ELSE "unauthenticated"
  /\ authCalls' = Append(authCalls, ok)

\* With authenticated_state::state_entry, before the application's callback.
on_auth_status(ok) ==
  /\ state' = IF ok THEN "authenticated" ELSE state
  /\ reading' = IF ok THEN "authenticated" ELSE "no"
  /\ authCalls' = Append(authCalls, ok)

on_auth_ack(m) ==
  /\ Received(m) /\ IsAck(m)
  /\ on_auth_status(m.authorized)
  /\ UNCHANGED <<up, nextId, challengeHandlers, ackHandlers, publishHandlers,
                 writing, requests, published, results, stray>>

\* Mutant: a read loop over the handlers that do_dispatch never erases.
OnPublishResponseLoop(m) ==
  /\ Received(m) /\ IsResponse(m)
  /\ \E h \in publishHandlers :
       /\ h.id = m.re
       /\ results' = [results EXCEPT ![h.publish] = Append(@, "status")]
  /\ UNCHANGED <<client, up, reading, writing, requests, authCalls, published, stray>>

\* The responseHandler of a publish.  Nothing reads the next message.
OnPublishResponse(m) ==
  /\ Received(m) /\ IsResponse(m)
  /\ \E h \in publishHandlers :
       /\ h.id = m.re
       /\ results' = [results EXCEPT ![h.publish] = Append(@, "status")]
  /\ reading' = "no"
  /\ UNCHANGED <<client, up, writing, requests, authCalls, published, stray>>

on_unhandled_message(m) ==
  /\ Received(m) /\ ~IsChallenge(m) /\ ~IsAck(m) /\ ~IsResponse(m)
  /\ reading' = "no"
  /\ protocol_violation
  /\ UNCHANGED <<client, writing, requests, callbacks, stray>>

\* on_read_error: the status callback, then cancel_all_with_error.
ReadFailed ==
  /\ reading # "no" /\ ~up
  /\ reading' = "no"
  /\ IF reading = "unauthenticated"
     THEN authCalls' = Append(authCalls, FALSE) /\ UNCHANGED results
     ELSE /\ results' = [p \in Publishes |->
                           IF \E h \in publishHandlers : h.publish = p
                           THEN Append(results[p], "error") ELSE results[p]]
          /\ UNCHANGED authCalls
  /\ UNCHANGED <<client, up, writing, requests, inbox, published, stray>>
-----------------------------------------------------------------------------
(***************************************************************************)
(* The node, as far as a client sees it (its side is in ServerSession and  *)
(* QuorumPublish).                                                         *)
(***************************************************************************)
\* The client only hands a node's id back to it: any will do.
Reply(type, re) == [type |-> type, id |-> re, re |-> re]

Deliver(m) ==
  /\ up
  /\ inbox' = Append(inbox, m)
  /\ UNCHANGED <<client, up, reading, writing, callbacks>>

NodeAnswers(r) ==
  /\ r \in requests
  /\ \/ r.type = "GetChallenge" /\ Deliver(Reply("ChallengeResponse", r.id))
     \/ /\ r.type = "AnswerChallenge"
        /\ \E ok \in BOOLEAN :
             Deliver([type |-> "AuthAck", id |-> r.id, re |-> r.id, authorized |-> ok])
     \/ /\ r.type = "Publish"
        /\ Deliver(Reply("PublishResponse", r.id))
  /\ requests' = requests \ {r}
  /\ UNCHANGED stray

\* Another response to a publish that has been answered.
NodeAnswersAgain(h) ==
  /\ \A r \in requests : r.id # h.id
  /\ Cardinality({i \in 1 .. Len(inbox) : inbox[i] = Reply("PublishResponse", h.id)})
       + Len(results[h.publish]) < MaxReplies
  /\ Deliver(Reply("PublishResponse", h.id))
  /\ UNCHANGED <<requests, stray>>

NodeStrays ==
  /\ MayStray /\ ~stray
  /\ stray' = TRUE
  /\ Deliver(Reply("Gossip", 0))
  /\ UNCHANGED requests

Break ==
  /\ MayBreak /\ up
  /\ up' = FALSE
  /\ UNCHANGED <<client, reading, writing, requests, inbox, callbacks, stray>>

Reads == ReadFailed \/ \E m \in Range(inbox) :
           on_challenge_response(m) \/ on_auth_ack(m) \/ OnPublishResponse(m)
             \/ on_unhandled_message(m)

Next ==
  \/ authenticate
  \/ \E p \in Publishes : publish_message(p)
  \/ \E w \in writing : Sent(w) \/ SendFailed(w)
  \/ Reads
  \/ \E r \in requests : NodeAnswers(r)
  \/ \E h \in publishHandlers : NodeAnswersAgain(h)
  \/ NodeStrays
  \/ Break

Spec == Init /\ [][Next]_vars

\* The io service runs its handlers, and the node answers every message.
FairSpec ==
  /\ Spec
  /\ WF_vars(Reads)
  /\ WF_vars(\E w \in writing : Sent(w) \/ SendFailed(w))
  /\ WF_vars(\E r \in requests : NodeAnswers(r))
-----------------------------------------------------------------------------
Ids == 0 .. 2 + Cardinality(Publishes)

\* The types of the session's state, its handlers and the pending reads and writes.
TypeOK ==
  /\ state \in {"none", "unauthenticated", "authenticated"}
  /\ up \in BOOLEAN /\ stray \in BOOLEAN /\ nextId \in Ids
  /\ challengeHandlers \subseteq Ids /\ ackHandlers \subseteq Ids
  /\ publishHandlers \subseteq [id : Ids, publish : Publishes]
  /\ reading \in {"no", "unauthenticated", "authenticated"}
  /\ authCalls \in Seq(BOOLEAN) /\ published \subseteq Publishes
  /\ results \in [Publishes -> Seq({"status", "error"})]

(***************************************************************************)
(* The callback of a publish is called at most once, although a node may   *)
(* answer a publish twice, the dispatcher keeps the handler after the      *)
(* answer and cancel_all_with_error calls every handler it keeps.          *)
(***************************************************************************)
PublishCallbackOnce == \A p \in Publishes : Len(results[p]) <= 1

(***************************************************************************)
(* An application that was told it is authenticated is not told otherwise  *)
(* before or after: the error paths of the writes and reads of the         *)
(* handshake do not fire next to its success.                              *)
(***************************************************************************)
SuccessIsFinal ==
  \A i \in 1 .. Len(authCalls) : authCalls[i] => Len(authCalls) = 1

(***************************************************************************)
(* A node is not taken to violate the protocol for an answer to what it    *)
(* was asked, not even for a second one: the handler for each answer is in *)
(* place when the answer is dispatched, in the state whose dispatcher      *)
(* reads it.                                                               *)
(***************************************************************************)
AnswersAreExpected ==
  \A m \in Range(inbox) :
    reading # "no" /\ m = Head(inbox) /\ m.type # "Gossip" => IsChallenge(m) \/ IsAck(m) \/ IsResponse(m)

(***************************************************************************)
(* "The function that will be called after the publish operation           *)
(* completess": the callback of a publish is called in the end, with a     *)
(* node that answers.                                                      *)
(* The code does not keep this statement (README, Deviations).             *)
(***************************************************************************)
PublishCompletes ==
  \A p \in Publishes : p \in published ~> results[p] # <<>>

(***************************************************************************)
(* "clear the handler for the challenge response since we're not looking   *)
(* for that anymore": once the challenge is answered there is no handler   *)
(* for another.                                                            *)
(* The code does not keep this statement (README, Deviations).             *)
(***************************************************************************)
ChallengeHandlerCleared == ackHandlers # {} => challengeHandlers = {}
=============================================================================
