------------------------------- MODULE Session ------------------------------
(***************************************************************************)
(* A client's session and the node's side of its connection together:      *)
(* ClientSession with ServerSession in the place of the node it assumes.   *)
(*                                                                         *)
(* What the client has sent, the node reads.  What the node writes reaches *)
(* the client in the order it was written, and the node's callback of a    *)
(* write runs at some time after that: the client may have answered, and   *)
(* the node have written more, before it.  A connection that either side   *)
(* closes, or that breaks, is down for both; the node sees it in its reads *)
(* and writes.                                                             *)
(***************************************************************************)
EXTENDS ClientSession

VARIABLES
  conn, registered, nodeNextId, getHandler, answerHandlers, closeAfter, nodeReading,
  nodeWriting, nodeInbox, nsent, received, query, toPost, posted, acks, freed,
               \* of ServerSession
  transmitted  \* ids of the node's messages that have reached the client

Node == INSTANCE ServerSession WITH
  MaxMessages <- 2 + Cardinality(Publishes),
  nextId <- nodeNextId, reading <- nodeReading, writing <- nodeWriting, inbox <- nodeInbox

node == <<conn, registered, nodeNextId, getHandler, answerHandlers, closeAfter, nodeReading,
          nodeWriting, nodeInbox, nsent, received, query, toPost, posted, acks, freed>>
allVars == <<vars, node, transmitted>>

SessionInit == Init /\ Node!Init /\ transmitted = {}
-----------------------------------------------------------------------------
\* How the node will judge an answer: by the unit test user, or by a lookup.
AsRead(w) ==
  IF w.type = "AnswerChallenge"
  THEN {[type |-> w.type, id |-> w.id, re |-> w.re, judged |-> j] : j \in {"good", "later"}}
  ELSE {w}

ClientWrites(w) ==
  \/ /\ Sent(w)
     /\ \E m \in AsRead(w) : Node!ClientSends(m)
     /\ UNCHANGED transmitted
  \/ SendFailed(w) /\ UNCHANGED <<node, transmitted>>

ClientReads == Reads /\ UNCHANGED <<node, transmitted>>

Application ==
  /\ authenticate \/ \E p \in Publishes : publish_message(p)
  /\ UNCHANGED <<node, transmitted>>

\* What the node does to the connection, the client's end sees.
Closes ==
  /\ up' = (up /\ conn' # "closed")
  /\ UNCHANGED <<client, reading, writing, requests, inbox, callbacks, stray, transmitted>>

NodeRuns == Node!Io /\ Closes
LookupRuns == Node!Driver /\ Closes

Oldest(w) == \A v \in nodeWriting : v.id \in transmitted \/ w.id <= v.id

Transmit(w) ==
  /\ conn = "open" /\ w.id \notin transmitted /\ Oldest(w)
  /\ Deliver(w)
  /\ transmitted' = transmitted \cup {w.id}
  /\ UNCHANGED <<requests, stray, node>>

NodeWritten(w) ==
  /\ w.id \in transmitted \/ conn = "closed"
  /\ Node!handle_write_result(w)
  /\ Closes

NodeDisconnected == ~up /\ Node!Disconnect /\ Closes

Breaks == Break /\ UNCHANGED <<node, transmitted>>

SessionNext ==
  \/ Application \/ ClientReads \/ Breaks
  \/ \E w \in writing : ClientWrites(w)
  \/ NodeRuns \/ LookupRuns \/ NodeDisconnected
  \/ \E w \in nodeWriting : Transmit(w) \/ NodeWritten(w)

\* The io services of both sides run their handlers, the network carries what was
\* written, and the futures of the driver complete.  Nothing is assumed of what
\* the node answers.
SessionSpec ==
  /\ SessionInit /\ [][SessionNext]_allVars
  /\ WF_allVars(ClientReads) /\ WF_allVars(\E w \in writing : ClientWrites(w))
  /\ WF_allVars(NodeRuns) /\ WF_allVars(LookupRuns) /\ WF_allVars(NodeDisconnected)
  /\ WF_allVars(\E w \in nodeWriting : Transmit(w))
  /\ WF_allVars(\E w \in nodeWriting : NodeWritten(w))
-----------------------------------------------------------------------------
(***************************************************************************)
(* Neither side takes the other to violate the protocol, at any time of    *)
(* the handshake and the publishes: each message finds its receiver in the *)
(* state, and with the handler, that expects it, although the states       *)
(* change on the two sides at different times.                             *)
(***************************************************************************)
NodeExpects(m) == Node!IsGet(m) \/ Node!IsAnswer(m) \/ Node!IsPublish(m)

NoViolation ==
  /\ AnswersAreExpected
  /\ conn = "open" /\ nodeReading # <<>> /\ nodeInbox # <<>> => NodeExpects(Head(nodeInbox))

(***************************************************************************)
(* A session is authenticated only when the node's one verdict was         *)
(* positive, and the node then reads what it publishes.  For a user that   *)
(* is missing or disabled the lookup gives two verdicts, of which the      *)
(* second may be positive: the client never gets to see that one.          *)
(***************************************************************************)
VerdictsAgree ==
  state = "authenticated" =>
    acks = <<TRUE>> /\ (conn = "open" => nodeReading = <<"authenticated">>)

(***************************************************************************)
(* authenticate calls its callback in the end, whatever the lookup comes   *)
(* to, whoever closes the connection and whenever it breaks.               *)
(***************************************************************************)
HandshakeEnds == state = "unauthenticated" ~> authCalls # <<>>
=============================================================================
