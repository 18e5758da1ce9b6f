--------------------------- MODULE ServerSession ----------------------------
(***************************************************************************)
(* The node's side of one connection: connection_in with the states        *)
(* csunauthenticated and csauthenticated (node/src), and the user lookup,  *)
(* which runs on a thread of the Cassandra driver                          *)
(* (user_account::is_authorized, cassandra_storage::find_user and          *)
(* cassandra_storage_async_helpers.cpp).                                   *)
(*                                                                         *)
(* Messages are whole.  The client is the environment: it may send any     *)
(* message at any time.  After close() the pending reads and writes, and   *)
(* those started later, complete with an error.                            *)
(***************************************************************************)
EXTENDS Integers, Sequences

CONSTANT MaxMessages  \* messages the client sends, at most

VARIABLES
  conn,           \* the socket
  registered,     \* whether the connection is in server::_connections
  nextId,         \* connection_base::_next_id
  getHandler,     \* whether the dispatcher has a handler for GetChallenge
  answerHandlers, \* ids with a handler for AnswerChallenge
  closeAfter,     \* _closeAfterTransmission
  reading,        \* the states whose reads are pending, in order
  writing,        \* pending writes
  inbox,          \* messages on their way to the node
  nsent,          \* messages the client has sent
  received,       \* history: the ids of the messages the client has been sent
  query,          \* where the lookup is: its async_query_state
  toPost,         \* verdicts authCallback will still be called with
  posted,         \* verdicts in the queue of the io service
  acks,           \* history: the AuthAck messages sent, in order
  freed           \* history: how often the async_query_state was deleted

dispatcher == <<nextId, getHandler, answerHandlers, closeAfter>>
lookup == <<query, toPost, freed>>
environment == <<nsent, received>>
vars == <<conn, registered, dispatcher, reading, writing, inbox, environment,
          lookup, posted, acks>>

NoQuery == [at |-> "none"]

Init ==
  /\ conn = "accepted" /\ registered = FALSE /\ nextId = 0
  /\ getHandler = FALSE /\ answerHandlers = {} /\ closeAfter = FALSE
  /\ reading = <<>> /\ writing = {} /\ inbox = <<>> /\ nsent = 0 /\ received = {}
  /\ query = NoQuery /\ toPost = <<>> /\ posted = <<>> /\ acks = <<>> /\ freed = 0
-----------------------------------------------------------------------------
(***************************************************************************)
(* The io thread: starting, reading and dispatching.                       *)
(***************************************************************************)

\* connection_in::start and csunauthenticated::start.
start ==
  /\ conn = "accepted"
  /\ conn' = "open" /\ registered' = TRUE
  /\ getHandler' = TRUE
  /\ reading' = Append(reading, "unauthenticated")
  /\ UNCHANGED <<nextId, answerHandlers, closeAfter, writing, inbox, environment,
                 lookup, posted, acks>>

\* csauthenticated::handle_read_result starts the next read before the dispatch.
Read(m) ==
  /\ conn = "open" /\ reading # <<>> /\ inbox # <<>> /\ m = Head(inbox)
  /\ inbox' = Tail(inbox)

\* Mutant: both states read on.
NextReadBoth == Append(Tail(reading), Head(reading))

NextRead ==
  IF Head(reading) = "authenticated" THEN Append(Tail(reading), "authenticated")
  ELSE Tail(reading)

IsGet(m) ==
  Head(reading) = "unauthenticated" /\ m.type = "GetChallenge" /\ getHandler
IsAnswer(m) ==
  Head(reading) = "unauthenticated" /\ m.type = "AnswerChallenge" /\ m.re \in answerHandlers
IsPublish(m) ==
  Head(reading) = "authenticated" /\ m.type = "Publish"

\* Mutant: the handler for the answer is set without the id of the response.
handle_get_any_answer(m) ==
  /\ Read(m) /\ IsGet(m)
  /\ nextId' = nextId + 1
  /\ getHandler' = FALSE
  /\ answerHandlers' = answerHandlers \cup {0}
  /\ writing' = writing \cup {[type |-> "ChallengeResponse", id |-> nextId', re |-> m.id]}
  /\ reading' = Append(NextRead, "unauthenticated")
  /\ UNCHANGED <<conn, registered, closeAfter, environment, lookup, posted, acks>>

handle_get_challenge_message(m) ==
  /\ Read(m) /\ IsGet(m)
  /\ nextId' = nextId + 1
  /\ getHandler' = FALSE
  /\ answerHandlers' = answerHandlers \cup {nextId'}
  /\ writing' = writing \cup {[type |-> "ChallengeResponse", id |-> nextId', re |-> m.id]}
  /\ reading' = Append(NextRead, "unauthenticated")
  /\ UNCHANGED <<conn, registered, closeAfter, environment, lookup, posted, acks>>

\* successful_auth and failed_auth send an AuthAck.
SendAck(ok, re) ==
  /\ nextId' = nextId + 1
  /\ writing' = writing \cup {[type |-> "AuthAck", id |-> nextId', re |-> re, authorized |-> ok]}
  /\ acks' = Append(acks, ok)

\* Mutant: failed_auth does not ask for the connection to be closed.
ConcludeOpen(ok, re, pending) ==
  /\ SendAck(ok, re)
  /\ reading' = IF ok THEN Append(pending, "authenticated") ELSE pending
  /\ UNCHANGED closeAfter

\* Then the state is changed (csauthenticated::start), or the connection will be
\* closed.
Conclude(ok, re, pending) ==
  /\ SendAck(ok, re)
  /\ closeAfter' = (closeAfter \/ ~ok)
  /\ reading' = IF ok THEN Append(pending, "authenticated") ELSE pending

\* Mutant: a client that was refused may answer again.
JudgeAnswerAgain(m) ==
  /\ Read(m) /\ IsAnswer(m) /\ m.judged \in {"good", "bad"}
  /\ SendAck(m.judged = "good", m.id)
  /\ reading' = Append(NextRead, IF m.judged = "good" THEN "authenticated" ELSE "unauthenticated")
  /\ UNCHANGED <<conn, registered, getHandler, answerHandlers, closeAfter, environment, lookup, posted>>

\* The answer of another node, or of the unit test user, is judged in the handler.
JudgeAnswer(m) ==
  /\ Read(m) /\ IsAnswer(m) /\ m.judged \in {"good", "bad"}
  /\ Conclude(m.judged = "good", m.id, NextRead)
  /\ UNCHANGED <<conn, registered, getHandler, answerHandlers, environment, lookup, posted>>

\* The answer of a user: find_user and async_query.
LookUpUser(m) ==
  /\ Read(m) /\ IsAnswer(m) /\ m.judged = "later"
  /\ query' = [at |-> "connecting", session |-> FALSE, re |-> m.id]
  /\ reading' = NextRead
  /\ UNCHANGED <<conn, registered, dispatcher, writing, environment, toPost, freed, posted, acks>>

\* What comes of the message, and how many responses are written when, is in
\* QuorumPublish; at most one is written here.
handle_post_message(m) ==
  /\ Read(m) /\ IsPublish(m)
  /\ reading' = NextRead
  /\ \/ /\ nextId' = nextId + 1
        /\ writing' = writing \cup {[type |-> "PublishResponse", id |-> nextId', re |-> m.id]}
     \/ UNCHANGED <<nextId, writing>>
  /\ UNCHANGED <<conn, registered, getHandler, answerHandlers, closeAfter, environment,
                 lookup, posted, acks>>

\* unhandled_message: handle_error closes the connection.
unhandled_message(m) ==
  /\ Read(m) /\ ~IsGet(m) /\ ~IsAnswer(m) /\ ~IsPublish(m)
  /\ reading' = NextRead
  /\ conn' = "closed"
  /\ UNCHANGED <<registered, dispatcher, writing, environment, lookup, posted, acks>>

\* handle_read_result with an error.  The handlers are then called with no
\* message, and return.
ReadFails ==
  /\ conn = "closed" /\ reading # <<>>
  /\ reading' = Tail(reading)
  /\ UNCHANGED <<conn, registered, dispatcher, writing, inbox, environment, lookup, posted, acks>>

\* handle_write_result; only that of csunauthenticated looks at the flag.
handle_write_result(w) ==
  /\ w \in writing
  /\ writing' = writing \ {w}
  /\ received' = IF conn = "open" THEN received \cup {w.id} ELSE received
  /\ conn' = IF closeAfter /\ w.type # "PublishResponse" THEN "closed" ELSE conn
  /\ UNCHANGED <<registered, dispatcher, reading, inbox, nsent, lookup, posted, acks>>

\* What authCallback posted to the io service.
RunPosted ==
  /\ posted # <<>>
  /\ posted' = Tail(posted)
  /\ Conclude(Head(posted), query.re, reading)
  /\ UNCHANGED <<conn, registered, getHandler, answerHandlers, inbox, environment, lookup>>
-----------------------------------------------------------------------------
(***************************************************************************)
(* The driver's thread.                                                    *)
(***************************************************************************)

\* The calls userLookupCb makes: there is no return after the first, so the hash
\* of the answer is then compared with that of an account without one.
Verdicts(user, match) ==
  IF user \in {"missing", "disabled"} THEN <<FALSE, match>> ELSE <<match>>

\* after_connect or after_result with an error: the callback finds no user.
QueryFails ==
  /\ query.at \in {"connecting", "executing"}
  /\ \E match \in BOOLEAN : toPost' = Verdicts("missing", match)
  /\ query' = [query EXCEPT !.at = "answering"]
  /\ UNCHANGED <<conn, registered, dispatcher, reading, writing, inbox, environment,
                 freed, posted, acks>>

after_connect ==
  /\ query.at = "connecting"
  /\ query' = [query EXCEPT !.at = "executing", !.session = TRUE]
  /\ UNCHANGED <<conn, registered, dispatcher, reading, writing, inbox, environment,
                 toPost, freed, posted, acks>>

after_result(user, match) ==
  /\ query.at = "executing"
  /\ toPost' = Verdicts(user, match)
  /\ query' = [query EXCEPT !.at = "answering"]
  /\ UNCHANGED <<conn, registered, dispatcher, reading, writing, inbox, environment,
                 freed, posted, acks>>

authCallback ==
  /\ query.at = "answering" /\ toPost # <<>>
  /\ toPost' = Tail(toPost)
  /\ posted' = Append(posted, Head(toPost))
  /\ UNCHANGED <<conn, registered, dispatcher, reading, writing, inbox, environment,
                 query, freed, acks>>

\* Mutant: the state is deleted whether or not there is a session to close.
CloseFrees ==
  /\ query.at = "answering" /\ toPost = <<>>
  /\ query' = [query EXCEPT !.at = IF query.session THEN "closing" ELSE "done"]
  /\ freed' = freed + 1
  /\ UNCHANGED <<conn, registered, dispatcher, reading, writing, inbox, environment,
                 toPost, posted, acks>>

\* Mutant: it is only deleted after a session was closed.
CloseLeaks ==
  /\ query.at = "answering" /\ toPost = <<>>
  /\ query' = [query EXCEPT !.at = IF query.session THEN "closing" ELSE "done"]
  /\ UNCHANGED <<conn, registered, dispatcher, reading, writing, inbox, environment,
                 toPost, freed, posted, acks>>

\* The session, if there is one, is closed before the state is deleted.
Close ==
  /\ query.at = "answering" /\ toPost = <<>>
  /\ query' = [query EXCEPT !.at = IF query.session THEN "closing" ELSE "done"]
  /\ freed' = IF query.session THEN freed ELSE freed + 1
  /\ UNCHANGED <<conn, registered, dispatcher, reading, writing, inbox, environment,
                 toPost, posted, acks>>

after_session_closed ==
  /\ query.at = "closing"
  /\ query' = [query EXCEPT !.at = "done", !.session = FALSE]
  /\ freed' = freed + 1
  /\ UNCHANGED <<conn, registered, dispatcher, reading, writing, inbox, environment,
                 toPost, posted, acks>>
-----------------------------------------------------------------------------
(***************************************************************************)
(* The client and the network.                                             *)
(***************************************************************************)
ClientMessages ==
  [type : {"GetChallenge", "Publish", "Gossip"}, id : {nsent + 1}]
    \cup [type : {"AnswerChallenge"}, id : {nsent + 1}, re : received, judged : {"good", "bad", "later"}]

ClientSends(m) ==
  /\ conn # "closed" /\ nsent < MaxMessages
  /\ nsent' = nsent + 1
  /\ inbox' = Append(inbox, m)
  /\ UNCHANGED <<conn, registered, dispatcher, reading, writing, received, lookup, posted, acks>>

\* The client goes away, which a read or a write reports: handle_error.
Disconnect ==
  /\ conn = "open" /\ (reading # <<>> \/ writing # {})
  /\ conn' = "closed"
  /\ UNCHANGED <<registered, dispatcher, reading, writing, inbox, environment, lookup, posted, acks>>

Driver ==
  \/ QueryFails \/ after_connect \/ authCallback \/ Close \/ after_session_closed
  \/ \E user \in {"missing", "disabled", "enabled"}, match \in BOOLEAN : after_result(user, match)

\* What a handler may run for; Read takes the first of it.
Arriving == {inbox[i] : i \in 1 .. Len(inbox)}

Io ==
  \/ start \/ ReadFails \/ RunPosted
  \/ \E m \in Arriving :
       \/ handle_get_challenge_message(m) \/ JudgeAnswer(m) \/ LookUpUser(m)
       \/ handle_post_message(m) \/ unhandled_message(m)

Writes == \E w \in writing : handle_write_result(w)

Next == Io \/ Writes \/ Driver \/ (\E m \in ClientMessages : ClientSends(m)) \/ Disconnect

Spec == Init /\ [][Next]_vars

\* The io service runs its handlers and the futures of the driver complete.
FairSpec == Spec /\ WF_vars(Io) /\ WF_vars(Writes) /\ WF_vars(Driver)
-----------------------------------------------------------------------------
\* The types of the connection's state, its handlers, reads and the lookup.
TypeOK ==
  /\ conn \in {"accepted", "open", "closed"} /\ registered \in BOOLEAN
  /\ nextId \in Nat /\ getHandler \in BOOLEAN /\ answerHandlers \subseteq 1 .. nextId
  /\ closeAfter \in BOOLEAN
  /\ reading \in Seq({"unauthenticated", "authenticated"})
  /\ writing \subseteq [type : {"ChallengeResponse", "PublishResponse"}, id : 1 .. nextId, re : Nat]
                        \cup [type : {"AuthAck"}, id : 1 .. nextId, re : Nat, authorized : BOOLEAN]
  /\ nsent \in 0 .. MaxMessages /\ received \subseteq 1 .. nextId
  /\ query.at \in {"none", "connecting", "executing", "answering", "closing", "done"}
  /\ toPost \in Seq(BOOLEAN) /\ posted \in Seq(BOOLEAN) /\ acks \in Seq(BOOLEAN)
  /\ freed \in Nat

(***************************************************************************)
(* Two reads never compete for the bytes of one socket, although a read is *)
(* started by start, by the handler of a challenge, by handle_read_result  *)
(* and by what the driver's thread posts.                                  *)
(***************************************************************************)
ReadsDoNotOverlap == Len(reading) <= 1

(***************************************************************************)
(* An open connection is never stranded: there is a pending read, a lookup *)
(* that has not delivered its verdict, or a write that will close it.      *)
(***************************************************************************)
Deciding == query.at \in {"connecting", "executing"} \/ toPost # <<>> \/ posted # <<>>
ClosingWrite == closeAfter /\ \E w \in writing : w.type # "PublishResponse"

NeverStranded == conn = "open" => reading # <<>> \/ Deciding \/ ClosingWrite

(***************************************************************************)
(* The async_query_state of a lookup is deleted at most once, and not      *)
(* while a future that refers to it is outstanding, or its callback runs.  *)
(***************************************************************************)
QueryFreedOnce == freed <= 1 /\ (freed = 1 => query.at = "done" /\ ~query.session)

(***************************************************************************)
(* Every lookup ends in an AuthAck and in the deletion of its state,       *)
(* whether its futures succeed or fail and whether or not the client is    *)
(* still there.                                                            *)
(***************************************************************************)
LookupConcludes == query.at = "connecting" ~> acks # <<>> /\ freed = 1

(***************************************************************************)
(* A connection that was sent AuthAck(false) is closed in the end.         *)
(***************************************************************************)
RefusedIsClosed == (\E i \in 1 .. Len(acks) : ~acks[i]) ~> conn = "closed"

(***************************************************************************)
(* docs/Basic Operations.txt, AnswerChallenge: "Returns: AuthAck with a    *)
(* true or false response".  One answer is acknowledged once.              *)
(* The code does not keep this statement (README, Deviations).             *)
(***************************************************************************)
AcknowledgedOnce == Len(acks) <= 1

(***************************************************************************)
(* server::connection_terminated is "Called when a connection has been     *)
(* terminated either locally or remotely": a closed connection leaves      *)
(* _connections.                                                           *)
(* The code does not keep this statement (README, Deviations).             *)
(***************************************************************************)
ClosedIsUnregistered == conn = "closed" ~> ~registered
=============================================================================
