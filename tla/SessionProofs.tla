--------------------------- MODULE SessionProofs ----------------------------
(***************************************************************************)
(* Proofs about Session, for any set of publishes and connections that     *)
(* break or do not.                                                        *)
(*                                                                         *)
(* There is no node that is assumed to answer what it is asked.  How far   *)
(* the handshake is, is known to each side by its own counters: the ids it *)
(* has given and the messages it has sent.  NodeStage, InboxStage,         *)
(* ClientStage and ClientInbox say which messages may be on their way at   *)
(* each of these points, VerdictsLeft which verdicts the lookup still      *)
(* owes.  What the node does by itself is known from ServerSessionProofs   *)
(* (NodeInv).                                                              *)
(***************************************************************************)
EXTENDS Session, TLAPS

Asked ==
  [type : {"GetChallenge"}, id : Nat]
    \cup [type : {"AnswerChallenge"}, id : Nat, re : Nat]
    \cup [type : {"Publish"}, id : Nat, publish : Publishes]

Answers ==
  [type : {"ChallengeResponse", "PublishResponse", "Gossip"}, id : Nat, re : Nat]
    \cup [type : {"AuthAck"}, id : Nat, re : Nat, authorized : BOOLEAN]

HasHandler(id) == \E h \in publishHandlers : h.id = id

\* The values of the queues of reads and verdicts.
None == <<>>
Unauthenticated == <<"unauthenticated">>
Authenticated == <<"authenticated">>
Yes == <<TRUE>>
No == <<FALSE>>
NoYes == <<FALSE, TRUE>>
NoNo == <<FALSE, FALSE>>

\* What ServerSession is known to keep, as far as it is needed here.
NodeInv ==
  /\ nodeReading \in {None, Unauthenticated, Authenticated}
  /\ conn = "accepted" => nodeReading = None
  /\ query.at \in {"none", "connecting", "executing"} => toPost = None /\ posted = None
  /\ query.at # "none" => DOMAIN query = {"at", "session", "re"}
  /\ toPost \in {None, Yes, No, NoYes, NoNo} /\ posted \in {None, Yes, No, NoYes, NoNo}
  /\ toPost # None => posted \in {None, No}
  /\ toPost \in {NoYes, NoNo} => posted = None
  /\ posted # None => nodeReading = None

NodeReads ==
  [type : {"GetChallenge"}, id : Nat]
    \cup [type : {"AnswerChallenge"}, id : Nat, re : Nat, judged : {"good", "later"}]
    \cup [type : {"Publish"}, id : Nat, publish : Publishes]

MessageTypes ==
  /\ writing \subseteq Asked /\ nodeWriting \subseteq Answers
  /\ inbox \in Seq(Answers) /\ nodeInbox \in Seq(NodeReads)

\* The messages of the handshake, which have the same ids in every run.
Challenge == [type |-> "ChallengeResponse", id |-> 1, re |-> 1]
AckYes(id) == [type |-> "AuthAck", id |-> id, re |-> 2, authorized |-> TRUE]
AckNo(id) == [type |-> "AuthAck", id |-> id, re |-> 2, authorized |-> FALSE]
ReadAnswer(j) == [type |-> "AnswerChallenge", id |-> 2, re |-> 1, judged |-> j]

IsResponseTo(w) == w.type = "PublishResponse" /\ HasHandler(w.re)

\* The verdict that the client is to see.
FirstAck == IF acks = Yes THEN AckYes(2) ELSE AckNo(2)

\* What the node has told, and will tell, the client about its answer.
VerdictsLeft ==
  /\ acks \in {None, Yes, No, NoYes, NoNo}
  /\ acks \in {Yes, NoYes, NoNo} => toPost = None /\ posted = None
  /\ acks = No => /\ toPost \in {None, Yes, No} /\ posted \in {None, Yes, No}
                  /\ toPost = None \/ posted = None
  /\ nodeReading = Authenticated => acks \in {Yes, NoYes}
  /\ conn = "open" /\ acks = Yes => nodeReading = Authenticated

\* What the node may be writing once it has sent a verdict.
MayWrite(w) ==
  \/ w = Challenge \/ w = FirstAck
  \/ acks \in {NoYes, NoNo} /\ w \in {AckYes(3), AckNo(3)}
  \/ acks = Yes /\ w.id > 2 /\ IsResponseTo(w)

\* How far the node is, told by the last id it has given.
NodeStage ==
  /\ nodeNextId \in Nat
  /\ nodeNextId = 0 => /\ answerHandlers = {} /\ nodeWriting = {} /\ transmitted = {}
                       /\ query.at = "none" /\ (conn # "accepted" => getHandler)
  /\ nodeNextId >= 1 => conn # "accepted" /\ answerHandlers = {1}
  /\ nodeNextId <= 1 => acks = None /\ nodeWriting \subseteq {Challenge} /\ transmitted \subseteq {1}
  /\ nodeNextId >= 2 => acks # None
  /\ acks = No => nodeNextId = 2
  /\ acks # None => \A w \in nodeWriting : MayWrite(w)
  /\ acks # None /\ conn = "open" => FirstAck \in nodeWriting \/ 2 \in transmitted
  /\ query.at # "none" => query.re = 2
  /\ query.at \in {"connecting", "executing"} => nodeNextId = 1

\* Which of the client's messages the node has read, told by how many it was sent.
InboxStage ==
  /\ nsent \in Nat
  /\ nsent = 0 => nodeInbox = <<>> /\ nodeNextId = 0
  /\ nsent = 1 => \/ nodeInbox = <<Get(1)>> /\ nodeNextId = 0
                  \/ nodeInbox = <<>> /\ nodeNextId = 1 /\ query.at = "none"
  /\ state # "authenticated" /\ nsent >= 2 =>
       \/ /\ nodeInbox = <<ReadAnswer("good")>> \/ nodeInbox = <<ReadAnswer("later")>>
          /\ nodeNextId = 1 /\ query.at = "none"
       \/ nodeInbox = <<>> /\ (query.at # "none" \/ nodeNextId >= 2)
  /\ state = "authenticated" =>
       \A i \in 1 .. Len(nodeInbox) : nodeInbox[i].type = "Publish" /\ HasHandler(nodeInbox[i].id)

\* How far the client is.
ClientStage ==
  /\ state \in {"none", "unauthenticated", "authenticated"} /\ reading \in {"no", state}
  /\ state = "none" => /\ nextId = 0 /\ nsent = 0 /\ writing = {} /\ inbox = <<>>
                       /\ publishHandlers = {} /\ reading = "no"
  /\ state = "unauthenticated" =>
       /\ publishHandlers = {}
       /\ \/ /\ nextId = 1 /\ 1 \in challengeHandlers
             /\ \/ writing = {Get(1)} /\ nsent = 0
                \/ writing = {} /\ nsent \in {0, 1}
          \/ /\ nextId = 2 /\ 2 \in ackHandlers /\ 1 \in transmitted
             /\ \/ writing = {Answer(2, 1)} /\ nsent = 1
                \/ writing = {} /\ nsent \in {1, 2}
  /\ state = "authenticated" =>
       /\ nextId \in Nat /\ nextId >= 2 /\ nsent >= 2
       /\ acks = Yes /\ 1 \in transmitted /\ 2 \in transmitted
       /\ \A w \in writing : w.type = "Publish"

\* What a client that is reading is going to read.
ClientInbox ==
  /\ reading = "unauthenticated" /\ nextId = 1 =>
       inbox = IF 1 \in transmitted THEN <<Challenge>> ELSE <<>>
  /\ reading = "unauthenticated" /\ nextId = 2 =>
       /\ 2 \notin transmitted => inbox = <<>>
       /\ 2 \in transmitted => inbox # <<>> /\ Head(inbox) = FirstAck
       /\ 2 \in transmitted /\ acks = Yes => Tail(inbox) = <<>>
  /\ state = "authenticated" => \A i \in 1 .. Len(inbox) : IsResponseTo(inbox[i])

HandshakeInv ==
  /\ MessageTypes
  /\ VerdictsLeft /\ NodeStage /\ InboxStage /\ ClientStage /\ ClientInbox
-----------------------------------------------------------------------------
(***************************************************************************)
(* The queues of reads and verdicts.                                       *)
(***************************************************************************)
LEMMA ReadFacts ==
  /\ Unauthenticated # Authenticated /\ Unauthenticated # None /\ Authenticated # None
  /\ Head(Unauthenticated) = "unauthenticated" /\ Head(Authenticated) = "authenticated"
  /\ Tail(Unauthenticated) = None /\ Tail(Authenticated) = None
  /\ Append(None, "unauthenticated") = Unauthenticated
  /\ Append(None, "authenticated") = Authenticated
BY DEF None, Unauthenticated, Authenticated

LEMMA AppendElements ==
  ASSUME NEW S, NEW s \in Seq(S), NEW m \in S, NEW t, t = Append(s, m)
  PROVE  \A i \in 1 .. Len(t) : t[i] = m \/ \E j \in 1 .. Len(s) : t[i] = s[j]
OBVIOUS

LEMMA DeliveredElements ==
  ASSUME inbox \in Seq(Answers), NEW w \in Answers, inbox' = Append(inbox, w)
  PROVE  \A i \in 1 .. Len(inbox') : inbox'[i] = w \/ \E j \in 1 .. Len(inbox) : inbox'[i] = inbox[j]
<1> DEFINE t == inbox'
<1>1. t = Append(inbox, w)
  BY Zenon
<1> HIDE DEF t
<1>2. \A i \in 1 .. Len(t) : t[i] = w \/ \E j \in 1 .. Len(inbox) : t[i] = inbox[j]
  BY <1>1
<1> QED
  BY Zenon, <1>2 DEF t

LEMMA TailElements ==
  ASSUME NEW S, NEW s \in Seq(S), s # <<>>
  PROVE  /\ Tail(s) \in Seq(S)
         /\ \A i \in 1 .. Len(Tail(s)) : \E j \in 1 .. Len(s) : Tail(s)[i] = s[j]
OBVIOUS

LEMMA ShortSequences ==
  ASSUME NEW S
  PROVE  /\ \A x \in S : <<x>> # <<>> /\ Head(<<x>>) = x /\ Tail(<<x>>) = <<>>
         /\ \A x, y \in S : <<x, y>> # <<>> /\ Head(<<x, y>>) = x /\ Tail(<<x, y>>) = <<y>>
         /\ \A x \in S : Append(<<>>, x) = <<x>>
         /\ \A x, y \in S : Append(<<x>>, y) = <<x, y>>
<1>1. \A x \in S : <<x>> # <<>> /\ Head(<<x>>) = x /\ Tail(<<x>>) = <<>>
  OBVIOUS
<1>2. \A x, y \in S : <<x, y>> # <<>> /\ Head(<<x, y>>) = x /\ Tail(<<x, y>>) = <<y>>
  OBVIOUS
<1>3. \A x \in S : Append(<<>>, x) = <<x>>
  OBVIOUS
<1>4. ASSUME NEW x \in S, NEW y \in S PROVE Append(<<x>>, y) = <<x, y>>
  <2> DEFINE s == Append(<<x>>, y)
  <2> DEFINE t == <<x, y>>
  <2>1. s \in Seq(S) /\ t \in Seq(S)
    OBVIOUS
  <2>2. Len(s) = 2 /\ Len(t) = 2 /\ s[1] = x /\ s[2] = y /\ t[1] = x /\ t[2] = y
    OBVIOUS
  <2> HIDE DEF s, t
  <2>3. \A i \in 1 .. Len(s) : s[i] = t[i]
    BY <2>2
  <2>4. s = t
    BY <2>1, <2>2, <2>3
  <2> QED BY Zenon, <2>4 DEF s, t
<1> QED BY <1>1, <1>2, <1>3, <1>4, Zenon

LEMMA VerdictFacts ==
  /\ None = <<>> /\ Yes # None /\ No # None /\ NoYes # None /\ NoNo # None
  /\ Head(Yes) = TRUE /\ Head(No) = FALSE /\ Head(NoYes) = FALSE /\ Head(NoNo) = FALSE
  /\ Tail(Yes) = None /\ Tail(No) = None /\ Tail(NoYes) = Yes /\ Tail(NoNo) = No
  /\ Append(None, TRUE) = Yes /\ Append(None, FALSE) = No
  /\ Append(No, TRUE) = NoYes /\ Append(No, FALSE) = NoNo
<1>1. TRUE \in BOOLEAN /\ FALSE \in BOOLEAN
  BY Zenon
<1>2. /\ \A x \in BOOLEAN : <<x>> # <<>> /\ Head(<<x>>) = x /\ Tail(<<x>>) = <<>>
      /\ \A x, y \in BOOLEAN :
           <<x, y>> # <<>> /\ Head(<<x, y>>) = x /\ Tail(<<x, y>>) = <<y>>
      /\ \A x \in BOOLEAN : Append(<<>>, x) = <<x>>
      /\ \A x, y \in BOOLEAN : Append(<<x>>, y) = <<x, y>>
  BY ShortSequences, Zenon
<1>3. None = <<>>
  BY Zenon DEF None
<1>4. Yes # None /\ Head(Yes) = TRUE /\ Tail(Yes) = None /\ Append(None, TRUE) = Yes
  BY <1>1, <1>2, <1>3, Zenon DEF Yes
<1>5. No # None /\ Head(No) = FALSE /\ Tail(No) = None /\ Append(None, FALSE) = No
  BY <1>1, <1>2, <1>3, Zenon DEF No
<1>6. NoYes # None /\ Head(NoYes) = FALSE /\ Tail(NoYes) = Yes /\ Append(No, TRUE) = NoYes
  BY <1>1, <1>2, <1>3, Zenon DEF Yes, No, NoYes
<1>7. NoNo # None /\ Head(NoNo) = FALSE /\ Tail(NoNo) = No /\ Append(No, FALSE) = NoNo
  BY <1>1, <1>2, <1>3, Zenon DEF No, NoNo
<1> QED BY <1>3, <1>4, <1>5, <1>6, <1>7, Zenon

LEMMA NodeConstants ==
  /\ None = <<>> /\ Yes # None /\ No # None /\ NoYes # None /\ NoNo # None
  /\ Yes # No /\ Yes # NoYes /\ Yes # NoNo /\ No # NoYes /\ No # NoNo
  /\ Unauthenticated # Authenticated /\ Unauthenticated # None /\ Authenticated # None
<1>1. Yes # No /\ Yes # NoYes /\ Yes # NoNo
  BY VerdictFacts, Zenon
<1>2. No # NoYes /\ No # NoNo
  BY VerdictFacts, Zenon
<1> QED
  BY <1>1, <1>2, VerdictFacts, ReadFacts, Zenon
-----------------------------------------------------------------------------
(***************************************************************************)
(* The messages, and the parts of HandshakeInv that a step leaves alone.        *)
(***************************************************************************)
LEMMA MessageFacts ==
  /\ Challenge \in Answers /\ Challenge.type = "ChallengeResponse"
  /\ Challenge.id = 1 /\ Challenge.re = 1
  /\ \A id \in Nat : /\ AckYes(id) \in Answers /\ AckYes(id).type = "AuthAck"
                     /\ AckYes(id).id = id /\ AckYes(id).re = 2 /\ AckYes(id).authorized = TRUE
  /\ \A id \in Nat : /\ AckNo(id) \in Answers /\ AckNo(id).type = "AuthAck"
                     /\ AckNo(id).id = id /\ AckNo(id).re = 2 /\ AckNo(id).authorized = FALSE
BY Zenon DEF Challenge, AckYes, AckNo, Answers

LEMMA FirstAckFacts ==
  /\ FirstAck \in Answers /\ FirstAck.type = "AuthAck" /\ FirstAck.id = 2 /\ FirstAck.re = 2
  /\ FirstAck = AckYes(2) \/ FirstAck = AckNo(2)
BY Zenon, MessageFacts DEF FirstAck

\* A node that writes has been started, by a client that has connected.
LEMMA NodeWritesAfterStart ==
  ASSUME NodeStage, InboxStage, ClientStage, nodeWriting # {}
  PROVE  /\ state # "none" /\ conn # "accepted"
         /\ nodeNextId \in Nat /\ nodeNextId >= 1
<1>1. nodeNextId \in Nat /\ nodeNextId >= 1 /\ conn # "accepted"
  BY DEF NodeStage
<1>2. nsent # 0
  BY <1>1 DEF InboxStage
<1> QED
  BY Zenon, <1>1, <1>2 DEF ClientStage

Closing == conn' = conn \/ (conn # "accepted" /\ conn' = "closed")

LEMMA SameVerdicts ==
  ASSUME VerdictsLeft, UNCHANGED <<acks, toPost, posted, nodeReading>>, Closing
  PROVE  VerdictsLeft'
BY Zenon DEF VerdictsLeft, Closing

LEMMA MoreHandlers ==
  ASSUME publishHandlers \subseteq publishHandlers', NEW id, HasHandler(id)
  PROVE  HasHandler(id)'
BY Zenon DEF HasHandler

LEMMA SameNodeStage ==
  ASSUME NodeStage, publishHandlers \subseteq publishHandlers', Closing,
         UNCHANGED <<nodeNextId, answerHandlers, nodeWriting, transmitted, query, getHandler, acks>>
  PROVE  NodeStage'
<1>1. \A w : MayWrite(w) => MayWrite(w)'
  BY Zenon, MoreHandlers DEF MayWrite, IsResponseTo, FirstAck
<1>2. FirstAck' = FirstAck
  BY Zenon DEF FirstAck
<1> QED
  BY Zenon, <1>1, <1>2 DEF NodeStage, Closing

LEMMA SameInboxStage ==
  ASSUME InboxStage, publishHandlers \subseteq publishHandlers',
         UNCHANGED <<nsent, nodeInbox, nodeNextId, query, state>>
  PROVE  InboxStage'
BY Zenon, MoreHandlers DEF InboxStage

LEMMA SameClientStage ==
  ASSUME ClientStage, transmitted \subseteq transmitted', acks = Yes => acks' = Yes,
         UNCHANGED <<state, reading, nextId, nsent, writing, inbox, publishHandlers,
                     challengeHandlers, ackHandlers>>
  PROVE  ClientStage'
BY Zenon DEF ClientStage

LEMMA SameClientInbox ==
  ASSUME ClientInbox, publishHandlers \subseteq publishHandlers',
         UNCHANGED <<reading, nextId, inbox, transmitted, state, acks>>
  PROVE  ClientInbox'
<1>1. \A w : IsResponseTo(w) => IsResponseTo(w)'
  BY Zenon, MoreHandlers DEF IsResponseTo
<1>2. FirstAck' = FirstAck
  BY Zenon DEF FirstAck
<1> QED
  BY Zenon, <1>1, <1>2 DEF ClientInbox
-----------------------------------------------------------------------------
(***************************************************************************)
(* The steps of the client.                                                *)
(***************************************************************************)
LEMMA ApplicationKeeps == HandshakeInv /\ Application => HandshakeInv'
<1> SUFFICES ASSUME HandshakeInv, Application PROVE HandshakeInv'
  BY Zenon
<1> MessageTypes /\ VerdictsLeft /\ NodeStage /\ InboxStage /\ ClientStage /\ ClientInbox
  BY Zenon DEF HandshakeInv
<1>1. /\ UNCHANGED <<conn, nodeNextId, getHandler, answerHandlers, closeAfter, nodeReading>>
      /\ UNCHANGED <<nodeWriting, nodeInbox, nsent, query, toPost, posted, acks, freed, transmitted>>
  BY Zenon DEF Application, node
<1>2. UNCHANGED <<publishHandlers, inbox, ackHandlers>>
  BY Zenon DEF Application, authenticate, publish_message
<1>3. VerdictsLeft' /\ NodeStage'
  BY Zenon, <1>1, <1>2, SameVerdicts, SameNodeStage DEF Closing
<1>4. CASE authenticate
  <2>1. /\ state = "none" /\ nextId = 0 /\ nsent = 0 /\ writing = {} /\ inbox = <<>>
        /\ publishHandlers = {} /\ transmitted = {}
    BY Zenon, <1>4 DEF authenticate, ClientStage, InboxStage, NodeStage
  <2>2. /\ state' = "unauthenticated" /\ nextId' = 1 /\ 1 \in challengeHandlers'
        /\ writing' = {Get(1)} /\ reading' = "unauthenticated"
    BY <1>4, <2>1 DEF authenticate, get_next_id, set_handler, send_message
  <2>3. MessageTypes'
    BY <1>1, <1>2, <2>2 DEF MessageTypes, Asked, Get
  <2>4. InboxStage'
    BY Zenon, <1>1, <2>1, <2>2 DEF InboxStage
  <2>5. ClientStage'
    BY Zenon, <1>1, <1>2, <2>1, <2>2 DEF ClientStage
  <2>6. ClientInbox'
    BY Zenon, <1>1, <1>2, <2>1, <2>2 DEF ClientInbox
  <2> QED
    BY Zenon, <1>3, <2>3, <2>4, <2>5, <2>6 DEF HandshakeInv
<1>5. ASSUME NEW p \in Publishes, publish_message(p) PROVE HandshakeInv'
  <2>1. /\ state = "authenticated" /\ state' = state /\ reading' = reading
        /\ nextId' = nextId + 1 /\ writing' = writing \cup {Publish(nextId + 1, p)}
    BY Zenon, <1>5 DEF publish_message, get_next_id, send_message
  <2>2. Publish(nextId + 1, p) \in Asked /\ Publish(nextId + 1, p).type = "Publish"
    BY <2>1 DEF ClientStage, Asked, Publish
  <2>3. MessageTypes'
    BY Zenon, <1>1, <1>2, <2>1, <2>2 DEF MessageTypes
  <2>4. InboxStage'
    BY Zenon, <1>1, <1>2, <2>1, SameInboxStage
  <2>5. ClientStage'
    BY <1>1, <1>2, <2>1, <2>2 DEF ClientStage
  <2>6. ClientInbox'
    <3>1. \A w : IsResponseTo(w) => IsResponseTo(w)'
      BY Zenon, <1>2 DEF IsResponseTo, HasHandler
    <3> QED
      BY Zenon, <1>1, <1>2, <2>1, <3>1 DEF ClientInbox, ClientStage
  <2> QED
    BY Zenon, <1>3, <2>3, <2>4, <2>5, <2>6 DEF HandshakeInv
<1> QED
  BY Zenon, <1>4, <1>5 DEF Application

LEMMA SendKeeps == HandshakeInv /\ (\E w \in writing : ClientWrites(w)) => HandshakeInv'
<1> SUFFICES ASSUME HandshakeInv, NEW w \in writing, ClientWrites(w) PROVE HandshakeInv'
  BY Zenon
<1> MessageTypes /\ VerdictsLeft /\ NodeStage /\ InboxStage /\ ClientStage /\ ClientInbox
  BY Zenon DEF HandshakeInv
<1>1. /\ UNCHANGED <<conn, nodeNextId, getHandler, answerHandlers, closeAfter, nodeReading>>
      /\ UNCHANGED <<nodeWriting, query, toPost, posted, acks, freed, transmitted>>
  BY Zenon DEF ClientWrites, node, Node!ClientSends, Node!dispatcher, Node!lookup
<1>2. /\ UNCHANGED <<state, nextId, challengeHandlers, ackHandlers, reading, inbox>>
      /\ writing' = writing \ {w} /\ publishHandlers \subseteq publishHandlers'
  BY Zenon DEF ClientWrites, Sent, SendFailed, client
<1>3. VerdictsLeft' /\ NodeStage' /\ ClientInbox'
  BY Zenon, <1>1, <1>2, SameVerdicts, SameNodeStage, SameClientInbox DEF Closing
<1>4. CASE SendFailed(w) /\ UNCHANGED node
  <2>1. publishHandlers' = publishHandlers /\ nsent' = nsent /\ nodeInbox' = nodeInbox
    BY Zenon, <1>4 DEF SendFailed, client, node
  <2>2. MessageTypes'
    BY Zenon, <1>1, <1>2, <2>1 DEF MessageTypes
  <2>3. InboxStage'
    BY Zenon, <1>1, <1>2, <2>1, SameInboxStage
  <2>4. ClientStage'
    BY Zenon, <1>1, <1>2, <2>1 DEF ClientStage
  <2> QED
    BY Zenon, <1>3, <2>2, <2>3, <2>4 DEF HandshakeInv
<1>5. ASSUME Sent(w), NEW m \in AsRead(w), Node!ClientSends(m) PROVE HandshakeInv'
  <2>1. nsent' = nsent + 1 /\ nodeInbox' = Append(nodeInbox, m)
    BY Zenon, <1>5 DEF Node!ClientSends
  <2>2. w \in Asked
    BY Zenon DEF MessageTypes
  <2>3. m \in NodeReads
    BY <1>5, <2>2 DEF AsRead, Asked, NodeReads
  <2>4. MessageTypes'
    BY <1>1, <1>2, <2>1, <2>3 DEF MessageTypes
  <2>5. CASE state = "unauthenticated"
    <3>1. w.type # "Publish" => publishHandlers' = publishHandlers
      BY Zenon, <1>5 DEF Sent
    <3>2. CASE nextId = 1
      <4>1. w = Get(1) /\ writing = {Get(1)} /\ nsent = 0
        BY <2>5, <3>2 DEF ClientStage
      <4>2. m = Get(1) /\ w.type # "Publish"
        BY Zenon, <1>5, <4>1 DEF AsRead, Get
      <4>3. nodeInbox = <<>> /\ nodeNextId = 0
        BY Zenon, <4>1 DEF InboxStage
      <4>4. nodeInbox' = <<Get(1)>>
        BY <2>1, <4>2, <4>3
      <4>5. InboxStage'
        BY <1>1, <1>2, <2>1, <2>5, <4>1, <4>3, <4>4 DEF InboxStage
      <4>6. ClientStage'
        BY <1>1, <1>2, <2>1, <2>5, <3>1, <3>2, <4>1, <4>2 DEF ClientStage
      <4> QED
        BY Zenon, <1>3, <2>4, <4>5, <4>6 DEF HandshakeInv
    <3>3. CASE nextId = 2
      <4>1. w = Answer(2, 1) /\ writing = {Answer(2, 1)} /\ nsent = 1 /\ 1 \in transmitted
        BY <2>5, <3>3 DEF ClientStage
      <4>2. m \in {ReadAnswer("good"), ReadAnswer("later")} /\ w.type # "Publish"
        BY Zenon, <1>5, <4>1 DEF AsRead, Answer, ReadAnswer
      <4>3. nodeInbox = <<>> /\ nodeNextId = 1 /\ query.at = "none"
        BY Zenon, <4>1 DEF InboxStage, NodeStage
      <4>4. nodeInbox' = <<ReadAnswer("good")>> \/ nodeInbox' = <<ReadAnswer("later")>>
        BY <2>1, <4>2, <4>3
      <4>5. InboxStage'
        BY <1>1, <1>2, <2>1, <2>5, <4>1, <4>3, <4>4 DEF InboxStage
      <4>6. ClientStage'
        BY <1>1, <1>2, <2>1, <2>5, <3>1, <3>3, <4>1, <4>2 DEF ClientStage
      <4> QED
        BY Zenon, <1>3, <2>4, <4>5, <4>6 DEF HandshakeInv
    <3> QED
      BY Zenon, <2>5, <3>2, <3>3 DEF ClientStage
  <2>6. CASE state = "authenticated"
    <3>1. w.type = "Publish" /\ m = w
      BY Zenon, <1>5, <2>6 DEF ClientStage, AsRead
    <3>2. \E h \in publishHandlers' : h.id = m.id
      <4>1. [id |-> w.id, publish |-> w.publish] \in publishHandlers'
        BY Zenon, <1>5, <3>1 DEF Sent
      <4> QED
        BY Zenon, <3>1, <4>1
    <3>3. /\ nodeInbox \in Seq(NodeReads) /\ Len(nodeInbox') = Len(nodeInbox) + 1
          /\ Len(nodeInbox) \in Nat /\ nodeInbox'[Len(nodeInbox) + 1] = m
          /\ \A i \in 1 .. Len(nodeInbox) : nodeInbox'[i] = nodeInbox[i]
      BY <2>1, <2>3 DEF MessageTypes
    <3>4. \A i \in 1 .. Len(nodeInbox') :
            /\ nodeInbox'[i].type = "Publish"
            /\ \E h \in publishHandlers' : h.id = nodeInbox'[i].id
      <4> SUFFICES ASSUME NEW i \in 1 .. Len(nodeInbox')
                   PROVE  /\ nodeInbox'[i].type = "Publish"
                          /\ \E h \in publishHandlers' : h.id = nodeInbox'[i].id
        BY Zenon
      <4>1. CASE i = Len(nodeInbox) + 1
        BY Zenon, <3>1, <3>2, <3>3, <4>1
      <4>2. CASE i \in 1 .. Len(nodeInbox)
        <5>1. nodeInbox[i].type = "Publish" /\ \E h \in publishHandlers : h.id = nodeInbox[i].id
          BY Zenon, <2>6, <4>2 DEF InboxStage, HasHandler
        <5> QED
          BY Zenon, <1>2, <3>3, <4>2, <5>1
      <4> QED
        BY <3>3, <4>1, <4>2
    <3>5. InboxStage'
      BY <1>2, <2>1, <2>6, <3>4 DEF InboxStage, ClientStage, HasHandler
    <3>6. ClientStage'
      BY <1>1, <1>2, <2>1, <2>6 DEF ClientStage, InboxStage
    <3> QED
      BY Zenon, <1>3, <2>4, <3>5, <3>6 DEF HandshakeInv
  <2>7. state # "none"
    BY Zenon DEF ClientStage
  <2> QED
    BY Zenon, <2>5, <2>6, <2>7 DEF ClientStage
<1> QED
  BY Zenon, <1>4, <1>5 DEF ClientWrites

LEMMA ReadsKeep == HandshakeInv /\ ClientReads => HandshakeInv'
<1> SUFFICES ASSUME HandshakeInv, ClientReads PROVE HandshakeInv'
  BY Zenon
<1> MessageTypes /\ VerdictsLeft /\ NodeStage /\ InboxStage /\ ClientStage /\ ClientInbox
  BY Zenon DEF HandshakeInv
<1>1. /\ UNCHANGED <<conn, nodeNextId, getHandler, answerHandlers, closeAfter, nodeReading>>
      /\ UNCHANGED <<nodeWriting, nodeInbox, nsent, query, toPost, posted, acks, freed, transmitted>>
  BY Zenon DEF ClientReads, node
<1>2. publishHandlers' = publishHandlers
  BY Zenon DEF ClientReads, Reads, ReadFailed, on_challenge_response, on_auth_ack, OnPublishResponse,
         on_unhandled_message, client
<1>3. VerdictsLeft' /\ NodeStage'
  BY Zenon, <1>1, <1>2, SameVerdicts, SameNodeStage DEF Closing
<1>4. ASSUME reading # "no", reading' = "no", inbox' = inbox \/ (inbox # <<>> /\ inbox' = Tail(inbox)),
             UNCHANGED <<state, nextId, challengeHandlers, ackHandlers, writing>>
      PROVE  HandshakeInv'
  <2>1. state # "none"
    BY Zenon, <1>4 DEF ClientStage
  <2>2. /\ inbox' \in Seq(Answers)
        /\ \A i \in 1 .. Len(inbox') : \E j \in 1 .. Len(inbox) : inbox'[i] = inbox[j]
    <3>1. CASE inbox' = inbox
      BY Zenon, <3>1 DEF MessageTypes
    <3>2. CASE inbox # <<>> /\ inbox' = Tail(inbox)
      BY Zenon, <3>2, TailElements DEF MessageTypes
    <3> QED
      BY Zenon, <1>4, <3>1, <3>2
  <2>3. MessageTypes'
    BY Zenon, <1>1, <1>4, <2>2 DEF MessageTypes
  <2>4. InboxStage'
    BY Zenon, <1>1, <1>2, <1>4, SameInboxStage
  <2>5. ClientStage'
    BY Zenon, <1>1, <1>2, <1>4, <2>1 DEF ClientStage
  <2>6. ClientInbox'
    BY <1>2, <1>4, <2>2 DEF ClientInbox, IsResponseTo, HasHandler
  <2> QED
    BY Zenon, <1>3, <2>3, <2>4, <2>5, <2>6 DEF HandshakeInv
<1>5. ASSUME NEW m, on_challenge_response(m) PROVE HandshakeInv'
  <2>1. /\ reading = "unauthenticated" /\ m.type = "ChallengeResponse" /\ m = Head(inbox)
        /\ inbox # <<>> /\ inbox' = Tail(inbox) /\ state' = state /\ reading' = reading
        /\ nextId' = nextId + 1 /\ ackHandlers' = ackHandlers \cup {nextId'}
        /\ writing' = writing \cup {Answer(nextId', m.id)}
    BY Zenon, <1>5 DEF on_challenge_response, Received, IsChallenge, get_next_id, set_handler, send_message
  <2>2. state = "unauthenticated"
    BY Zenon, <2>1 DEF ClientStage
  <2>3. nextId = 1
    <3>1. nextId = 2 => m = FirstAck
      BY Zenon, <2>1 DEF ClientInbox
    <3> QED
      BY Zenon, <2>1, <2>2, <3>1, FirstAckFacts DEF ClientStage
  <2>4. inbox = <<Challenge>> /\ 1 \in transmitted /\ m.id = 1
    BY <2>1, <2>3, MessageFacts DEF ClientInbox
  <2>5. nsent = 1 /\ writing = {} /\ nodeNextId = 1 /\ 2 \notin transmitted
    BY <2>2, <2>3, <2>4 DEF ClientStage, NodeStage, InboxStage
  <2>6. inbox' = <<>> /\ nextId' = 2 /\ writing' = {Answer(2, 1)}
    BY <2>1, <2>3, <2>4, <2>5
  <2>7. MessageTypes'
    BY <1>1, <2>6 DEF MessageTypes, Answer, Asked
  <2>8. InboxStage'
    BY Zenon, <1>1, <1>2, <2>1, SameInboxStage
  <2>9. ClientStage'
    BY Zenon, <1>1, <1>2, <2>1, <2>2, <2>4, <2>5, <2>6 DEF ClientStage
  <2>10. ClientInbox'
    BY Zenon, <1>1, <2>1, <2>2, <2>5, <2>6 DEF ClientInbox
  <2> QED
    BY Zenon, <1>3, <2>7, <2>8, <2>9, <2>10 DEF HandshakeInv
<1>6. ASSUME NEW m, on_auth_ack(m) PROVE HandshakeInv'
  <2>1. /\ reading = "unauthenticated" /\ m.type = "AuthAck" /\ m = Head(inbox)
        /\ inbox # <<>> /\ inbox' = Tail(inbox)
        /\ UNCHANGED <<nextId, challengeHandlers, ackHandlers, writing>>
    BY Zenon, <1>6 DEF on_auth_ack, Received, IsAck
  <2>2. state = "unauthenticated"
    BY Zenon, <2>1 DEF ClientStage
  <2>3. nextId = 2
    <3>1. nextId = 1 => m = Challenge
      BY <2>1 DEF ClientInbox
    <3> QED
      BY Zenon, <2>1, <2>2, <3>1, MessageFacts DEF ClientStage
  <2>4. 2 \in transmitted /\ m = FirstAck
    BY Zenon, <2>1, <2>3 DEF ClientInbox
  <2>5. CASE acks # Yes
    <3>1. m.authorized = FALSE
      BY Zenon, <2>4, <2>5, MessageFacts DEF FirstAck
    <3>2. state' = state /\ reading' = "no"
      BY Zenon, <1>6, <3>1 DEF on_auth_ack, on_auth_status
    <3> QED
      BY Zenon, <1>4, <2>1, <3>2
  <2>6. CASE acks = Yes
    <3>1. m.authorized = TRUE
      BY Zenon, <2>4, <2>6, MessageFacts DEF FirstAck
    <3>2. state' = "authenticated" /\ reading' = "authenticated"
      BY Zenon, <1>6, <3>1 DEF on_auth_ack, on_auth_status
    <3>3. inbox' = <<>>
      BY Zenon, <2>1, <2>3, <2>4, <2>6 DEF ClientInbox
    <3>4. nodeNextId >= 2 /\ nodeNextId \in Nat
      BY <2>6, NodeConstants DEF NodeStage
    <3>5. writing = {} /\ nsent = 2 /\ 1 \in transmitted
      BY <2>2, <2>3, <3>4 DEF ClientStage, InboxStage
    <3>6. nodeInbox = <<>>
      BY <2>2, <3>4, <3>5 DEF InboxStage
    <3>7. MessageTypes'
      BY <1>1, <2>1, <3>3 DEF MessageTypes
    <3>8. InboxStage'
      BY <1>1, <3>2, <3>5, <3>6 DEF InboxStage
    <3>9. ClientStage'
      BY <1>1, <2>1, <2>3, <2>4, <2>6, <3>2, <3>5 DEF ClientStage
    <3>10. ClientInbox'
      BY <3>2, <3>3 DEF ClientInbox
    <3> QED
      BY Zenon, <1>3, <3>7, <3>8, <3>9, <3>10 DEF HandshakeInv
  <2> QED
    BY Zenon, <2>5, <2>6
<1>7. ASSUME NEW m, OnPublishResponse(m) \/ on_unhandled_message(m) PROVE HandshakeInv'
  <2>1. /\ reading # "no" /\ reading' = "no" /\ inbox # <<>> /\ inbox' = Tail(inbox)
        /\ UNCHANGED <<state, nextId, challengeHandlers, ackHandlers, writing>>
    BY Zenon, <1>7 DEF OnPublishResponse, on_unhandled_message, Received, client
  <2> QED
    BY Zenon, <1>4, <2>1
<1>8. ASSUME ReadFailed PROVE HandshakeInv'
  <2>1. /\ reading # "no" /\ reading' = "no" /\ inbox' = inbox
        /\ UNCHANGED <<state, nextId, challengeHandlers, ackHandlers, writing>>
    BY Zenon, <1>8 DEF ReadFailed, client
  <2> QED
    BY Zenon, <1>4, <2>1
<1> QED
  BY Zenon, <1>5, <1>6, <1>7, <1>8 DEF ClientReads, Reads

LEMMA BreakKeeps == HandshakeInv /\ Breaks => HandshakeInv'
<1> SUFFICES ASSUME HandshakeInv, Breaks PROVE HandshakeInv'
  BY Zenon
<1> MessageTypes /\ VerdictsLeft /\ NodeStage /\ InboxStage /\ ClientStage /\ ClientInbox
  BY Zenon DEF HandshakeInv
<1>1. /\ UNCHANGED <<conn, nodeNextId, getHandler, answerHandlers, closeAfter, nodeReading>>
      /\ UNCHANGED <<nodeWriting, nodeInbox, nsent, query, toPost, posted, acks, freed, transmitted>>
      /\ UNCHANGED <<state, nextId, challengeHandlers, ackHandlers, publishHandlers>>
      /\ UNCHANGED <<reading, writing, inbox>>
  BY Zenon DEF Breaks, Break, client, node
<1>2. MessageTypes'
  BY Zenon, <1>1 DEF MessageTypes
<1> QED
  BY Zenon, <1>1, <1>2, SameVerdicts, SameNodeStage, SameInboxStage, SameClientStage,
     SameClientInbox DEF Closing, HandshakeInv

-----------------------------------------------------------------------------
(***************************************************************************)
(* The steps of the node.                                                  *)
(***************************************************************************)
\* What the node reads next: the request for a challenge, the answer, or a publish.
ReadsGet(m) ==
  /\ m = Get(1) /\ nodeInbox = <<Get(1)>> /\ nodeNextId = 0 /\ nsent = 1
  /\ state # "authenticated" /\ nodeReading = Unauthenticated /\ getHandler
ReadsAnswer(m) ==
  /\ m \in {ReadAnswer("good"), ReadAnswer("later")} /\ nodeInbox = <<m>>
  /\ nodeNextId = 1 /\ nsent >= 2
  /\ state # "authenticated" /\ nodeReading = Unauthenticated /\ answerHandlers = {1}
ReadsPublish(m) ==
  /\ m.type = "Publish" /\ m.id \in Nat /\ HasHandler(m.id)
  /\ state = "authenticated" /\ nodeReading = Authenticated

LEMMA ReadsByType ==
  ASSUME NEW m
  PROVE  /\ ReadsGet(m) => m.type = "GetChallenge"
         /\ ReadsAnswer(m) => m.type = "AnswerChallenge"
         /\ ReadsPublish(m) => m.type = "Publish"
BY DEF ReadsGet, ReadsAnswer, ReadsPublish, Get, ReadAnswer

LEMMA ReadsTheNext ==
  ASSUME NodeInv, HandshakeInv, conn = "open", nodeReading # <<>>, nodeInbox # <<>>,
         NEW m, m = Head(nodeInbox)
  PROVE  ReadsGet(m) \/ ReadsAnswer(m) \/ ReadsPublish(m)
<1> MessageTypes /\ VerdictsLeft /\ NodeStage /\ InboxStage /\ ClientStage /\ ClientInbox
  BY Zenon DEF HandshakeInv
<1>1. nodeReading \in {Unauthenticated, Authenticated}
  BY Zenon, NodeConstants DEF NodeInv
<1>2. acks = None => nodeReading = Unauthenticated
  BY Zenon, <1>1, NodeConstants DEF VerdictsLeft
<1>3. CASE state = "authenticated"
  <2>1. nodeReading = Authenticated
    BY Zenon, <1>3 DEF ClientStage, VerdictsLeft
  <2>2. 1 \in 1 .. Len(nodeInbox) /\ m = nodeInbox[1] /\ m \in NodeReads
    BY DEF MessageTypes
  <2>3. m.type = "Publish" /\ HasHandler(m.id)
    BY Zenon, <1>3, <2>2 DEF InboxStage
  <2>4. m.id \in Nat
    BY Zenon, <2>2 DEF NodeReads
  <2> QED
    BY Zenon, <1>3, <2>1, <2>3, <2>4 DEF ReadsPublish
<1>4. CASE state # "authenticated" /\ nsent >= 2
  <2>1. \E j \in {"good", "later"} : nodeInbox = <<ReadAnswer(j)>> /\ nodeNextId = 1
    BY Zenon, <1>4 DEF InboxStage
  <2>2. m \in {ReadAnswer("good"), ReadAnswer("later")} /\ nodeInbox = <<m>> /\ nodeNextId = 1
    BY <2>1
  <2>3. acks = None /\ answerHandlers = {1}
    BY <2>2 DEF NodeStage
  <2> QED
    BY Zenon, <1>2, <1>4, <2>2, <2>3 DEF ReadsAnswer
<1>5. CASE state # "authenticated" /\ nsent = 1
  <2>1. nodeInbox = <<Get(1)>> /\ nodeNextId = 0
    BY Zenon, <1>5 DEF InboxStage
  <2>2. acks = None /\ getHandler
    BY Zenon, <2>1 DEF NodeStage
  <2> QED
    BY <1>2, <1>5, <2>1, <2>2 DEF ReadsGet
<1> QED
  BY <1>3, <1>4, <1>5 DEF InboxStage

\* A step of the node leaves the client alone, but for the connection.
ClientSame ==
  /\ UNCHANGED <<state, nextId, challengeHandlers, ackHandlers, publishHandlers>>
  /\ UNCHANGED <<reading, writing, inbox, transmitted>>

LEMMA ClosesIsClientSame == Closes => ClientSame
BY Zenon DEF Closes, client, ClientSame

LEMMA StartKeeps ==
  ASSUME NodeInv, HandshakeInv, Node!start, ClientSame
  PROVE  HandshakeInv'
<1> MessageTypes /\ VerdictsLeft /\ NodeStage /\ InboxStage /\ ClientStage /\ ClientInbox
  BY Zenon DEF HandshakeInv
<1> USE DEF ClientSame
<1>1. /\ conn = "accepted" /\ conn' = "open" /\ getHandler' = TRUE
      /\ nodeReading' = Append(nodeReading, "unauthenticated")
      /\ UNCHANGED <<nodeNextId, answerHandlers, nodeWriting, nodeInbox, nsent>>
      /\ UNCHANGED <<query, toPost, posted, acks>>
  BY Zenon DEF Node!start, Node!environment, Node!lookup
<1>2. nodeNextId = 0 /\ acks = None
  BY <1>1 DEF NodeStage
<1>3. nodeReading' = Unauthenticated
  BY Zenon, <1>1, ReadFacts DEF NodeInv
<1>4. MessageTypes'
  BY Zenon, <1>1 DEF MessageTypes
<1>5. VerdictsLeft'
  BY Zenon, <1>1, <1>2, <1>3, NodeConstants DEF VerdictsLeft
<1>6. NodeStage'
  BY Zenon, <1>1, <1>2 DEF NodeStage
<1> QED
  BY Zenon, <1>1, <1>4, <1>5, <1>6, SameInboxStage, SameClientStage, SameClientInbox DEF HandshakeInv

LEMMA GetKeeps ==
  ASSUME NodeInv, HandshakeInv, NEW m, Node!handle_get_challenge_message(m), ClientSame
  PROVE  HandshakeInv'
<1> MessageTypes /\ VerdictsLeft /\ NodeStage /\ InboxStage /\ ClientStage /\ ClientInbox
  BY Zenon DEF HandshakeInv
<1> USE DEF ClientSame
<1>1. /\ conn = "open" /\ nodeReading # <<>> /\ nodeInbox # <<>> /\ m = Head(nodeInbox)
      /\ nodeInbox' = Tail(nodeInbox) /\ Head(nodeReading) = "unauthenticated"
      /\ m.type = "GetChallenge" /\ nodeNextId' = nodeNextId + 1
      /\ answerHandlers' = answerHandlers \cup {nodeNextId'}
      /\ nodeWriting' = nodeWriting \cup {[type |-> "ChallengeResponse", id |-> nodeNextId', re |-> m.id]}
      /\ nodeReading' = Append(Tail(nodeReading), "unauthenticated")
      /\ UNCHANGED <<conn, nsent, query, toPost, posted, acks>>
  BY Zenon DEF Node!handle_get_challenge_message, Node!Read, Node!IsGet, Node!NextRead, Node!environment,
         Node!lookup
<1>2. ReadsGet(m)
  <2>1. ReadsGet(m) \/ ReadsAnswer(m) \/ ReadsPublish(m)
    BY Zenon, <1>1, ReadsTheNext
  <2> QED
    BY Zenon, <1>1, <2>1, ReadsByType
<1>3. /\ acks = None /\ nodeWriting = {} /\ transmitted = {} /\ answerHandlers = {}
      /\ query.at = "none"
  BY <1>2 DEF ReadsGet, NodeStage
<1>4. nodeInbox' = <<>> /\ nodeNextId' = 1 /\ answerHandlers' = {1} /\ m.id = 1
  BY <1>1, <1>2, <1>3 DEF ReadsGet, Get
<1>5. nodeWriting' = {Challenge}
  BY Zenon, <1>1, <1>3, <1>4 DEF Challenge
<1>6. nodeReading' = Unauthenticated
  BY Zenon, <1>1, <1>2, ReadFacts DEF ReadsGet
<1>7. MessageTypes'
  BY <1>4, <1>5, MessageFacts DEF MessageTypes
<1>8. VerdictsLeft'
  BY Zenon, <1>1, <1>3, <1>6, NodeConstants DEF VerdictsLeft
<1>9. NodeStage'
  BY <1>1, <1>3, <1>4, <1>5 DEF NodeStage
<1>10. InboxStage'
  BY Zenon, <1>1, <1>2, <1>3, <1>4 DEF InboxStage, ReadsGet
<1> QED
  BY Zenon, <1>1, <1>7, <1>8, <1>9, <1>10, SameClientStage, SameClientInbox DEF HandshakeInv

LEMMA JudgeKeeps ==
  ASSUME NodeInv, HandshakeInv, NEW m, Node!JudgeAnswer(m), ClientSame
  PROVE  HandshakeInv'
<1> MessageTypes /\ VerdictsLeft /\ NodeStage /\ InboxStage /\ ClientStage /\ ClientInbox
  BY Zenon DEF HandshakeInv
<1> USE DEF ClientSame
<1>1. /\ conn = "open" /\ nodeReading # <<>> /\ nodeInbox # <<>> /\ m = Head(nodeInbox)
      /\ nodeInbox' = Tail(nodeInbox) /\ Head(nodeReading) = "unauthenticated"
      /\ m.type = "AnswerChallenge" /\ m.judged \in {"good", "bad"}
      /\ nodeNextId' = nodeNextId + 1
      /\ UNCHANGED <<conn, answerHandlers, getHandler, nsent, query, toPost, posted>>
  BY Zenon DEF Node!JudgeAnswer, Node!Read, Node!IsAnswer, Node!Conclude, Node!SendAck,
         Node!environment, Node!lookup
<1>2. ReadsAnswer(m)
  <2>1. ReadsGet(m) \/ ReadsAnswer(m) \/ ReadsPublish(m)
    BY Zenon, <1>1, ReadsTheNext
  <2> QED
    BY Zenon, <1>1, <2>1, ReadsByType
<1>3. m = ReadAnswer("good") /\ m.judged = "good" /\ m.id = 2
  BY <1>1, <1>2 DEF ReadsAnswer, ReadAnswer
<1>4. acks = None /\ nodeWriting \subseteq {Challenge} /\ transmitted \subseteq {1}
  BY <1>2 DEF ReadsAnswer, NodeStage
<1>5. query.at = "none" /\ toPost = None /\ posted = None
  <2>1. nodeInbox # <<>> /\ nsent >= 2 /\ state # "authenticated"
    BY Zenon, <1>1, <1>2 DEF ReadsAnswer
  <2> QED
    BY Zenon, <2>1 DEF InboxStage, NodeInv
<1>6. nodeInbox' = <<>> /\ nodeNextId' = 2
  BY <1>1, <1>2 DEF ReadsAnswer
<1> DEFINE ok == m.judged = "good"
<1>7. ok = TRUE
  BY Zenon, <1>3
<1>8. /\ nodeWriting' = nodeWriting \cup
                          {[type |-> "AuthAck", id |-> nodeNextId', re |-> m.id, authorized |-> ok]}
      /\ acks' = Append(acks, ok)
      /\ ok => nodeReading' = Append(Node!NextRead, "authenticated")
  BY Zenon DEF Node!JudgeAnswer, Node!Conclude, Node!SendAck
<1> HIDE DEF ok
<1>9. nodeWriting' = nodeWriting \cup {AckYes(2)}
  BY Zenon, <1>3, <1>6, <1>7, <1>8 DEF AckYes
<1>10. acks' = Yes
  BY <1>4, <1>7, <1>8, VerdictFacts, Zenon
<1>11. nodeReading' = Authenticated
  BY ZenonT(30), <1>1, <1>2, <1>7, <1>8, ReadFacts DEF Node!NextRead, ReadsAnswer
<1>12. MessageTypes'
  BY <1>6, <1>9, MessageFacts DEF MessageTypes
<1>13. VerdictsLeft'
  BY Zenon, <1>1, <1>5, <1>10, <1>11, NodeConstants DEF VerdictsLeft
<1>14. NodeStage'
  <2>1. FirstAck' = AckYes(2)
    BY Zenon, <1>10 DEF FirstAck
  <2>2. \A w \in nodeWriting' : MayWrite(w)'
    BY Zenon, <1>4, <1>9, <2>1 DEF MayWrite
  <2>3. answerHandlers' = {1}
    BY Zenon, <1>1, <1>2 DEF ReadsAnswer
  <2>4. FirstAck' \in nodeWriting'
    BY Zenon, <1>9, <2>1
  <2>5. acks' # None /\ acks' # No
    BY Zenon, <1>10, NodeConstants
  <2> QED
    BY <1>1, <1>5, <1>6, <2>2, <2>3, <2>4, <2>5 DEF NodeStage
<1>15. InboxStage'
  BY <1>1, <1>2, <1>6 DEF InboxStage, ReadsAnswer
<1>16. ClientStage'
  BY Zenon, <1>1, <1>10, SameClientStage
<1>17. ClientInbox'
  BY <1>2, <1>4 DEF ClientInbox, ReadsAnswer
<1> QED
  BY Zenon, <1>12, <1>13, <1>14, <1>15, <1>16, <1>17 DEF HandshakeInv

LEMMA LookUpKeeps ==
  ASSUME NodeInv, HandshakeInv, NEW m, Node!LookUpUser(m), ClientSame
  PROVE  HandshakeInv'
<1> MessageTypes /\ VerdictsLeft /\ NodeStage /\ InboxStage /\ ClientStage /\ ClientInbox
  BY Zenon DEF HandshakeInv
<1> USE DEF ClientSame
<1>1. /\ conn = "open" /\ nodeReading # <<>> /\ nodeInbox # <<>> /\ m = Head(nodeInbox)
      /\ nodeInbox' = Tail(nodeInbox) /\ Head(nodeReading) = "unauthenticated"
      /\ m.type = "AnswerChallenge"
      /\ query' = [at |-> "connecting", session |-> FALSE, re |-> m.id]
      /\ nodeReading' = Tail(nodeReading)
      /\ UNCHANGED <<conn, nodeNextId, answerHandlers, getHandler, nsent, toPost, posted>>
      /\ UNCHANGED <<nodeWriting, acks>>
  BY Zenon DEF Node!LookUpUser, Node!Read, Node!IsAnswer, Node!NextRead, Node!environment, Node!dispatcher
<1>2. ReadsAnswer(m)
  <2>1. ReadsGet(m) \/ ReadsAnswer(m) \/ ReadsPublish(m)
    BY Zenon, <1>1, ReadsTheNext
  <2> QED
    BY Zenon, <1>1, <2>1, ReadsByType
<1>3. nodeInbox' = <<>> /\ query'.at = "connecting" /\ query'.re = 2 /\ acks = None
  <2>1. m.id = 2 /\ nodeInbox = <<m>> /\ nodeNextId = 1
    BY <1>2 DEF ReadsAnswer, ReadAnswer
  <2>2. acks = None
    BY <2>1 DEF NodeStage
  <2> QED
    BY <1>1, <2>1, <2>2
<1>4. nodeReading' = None
  BY Zenon, <1>1, <1>2, ReadFacts DEF ReadsAnswer
<1>5. MessageTypes'
  BY <1>1, <1>3 DEF MessageTypes
<1>6. VerdictsLeft'
  BY ZenonT(30), <1>1, <1>3, <1>4, NodeConstants DEF VerdictsLeft
<1>7. NodeStage'
  BY Zenon, <1>1, <1>2, <1>3 DEF NodeStage, ReadsAnswer
<1>8. InboxStage'
  BY Zenon, <1>1, <1>2, <1>3 DEF InboxStage, ReadsAnswer
<1> QED
  BY Zenon, <1>1, <1>5, <1>6, <1>7, <1>8, SameClientStage, SameClientInbox DEF HandshakeInv

LEMMA PostKeeps ==
  ASSUME NodeInv, HandshakeInv, NEW m, Node!handle_post_message(m), ClientSame
  PROVE  HandshakeInv'
<1> MessageTypes /\ VerdictsLeft /\ NodeStage /\ InboxStage /\ ClientStage /\ ClientInbox
  BY Zenon DEF HandshakeInv
<1> USE DEF ClientSame
<1> DEFINE response == [type |-> "PublishResponse", id |-> nodeNextId + 1, re |-> m.id]
<1>1. /\ conn = "open" /\ nodeReading # <<>> /\ nodeInbox # <<>> /\ m = Head(nodeInbox)
      /\ nodeInbox' = Tail(nodeInbox) /\ Head(nodeReading) = "authenticated" /\ m.type = "Publish"
      /\ nodeReading' = Append(Tail(nodeReading), "authenticated")
      /\ \/ nodeNextId' = nodeNextId + 1 /\ nodeWriting' = nodeWriting \cup {response}
         \/ nodeNextId' = nodeNextId /\ nodeWriting' = nodeWriting
      /\ UNCHANGED <<conn, answerHandlers, getHandler, nsent, query, toPost, posted, acks>>
  BY Zenon DEF Node!handle_post_message, Node!Read, Node!IsPublish, Node!NextRead, Node!environment,
         Node!lookup
<1>2. ReadsPublish(m)
  <2>1. ReadsGet(m) \/ ReadsAnswer(m) \/ ReadsPublish(m)
    BY Zenon, <1>1, ReadsTheNext
  <2> QED
    BY Zenon, <1>1, <2>1, ReadsByType
<1>3. /\ state = "authenticated" /\ nsent >= 2 /\ acks = Yes
      /\ nodeNextId \in Nat /\ nodeNextId >= 2 /\ query.at \notin {"connecting", "executing"}
  BY <1>2, NodeConstants DEF ReadsPublish, ClientStage, NodeStage
<1>4. nodeReading' = nodeReading
  BY Zenon, <1>1, <1>2, ReadFacts DEF ReadsPublish
<1>5. /\ response \in Answers /\ response.id > 2 /\ IsResponseTo(response)
  <2>1. m.id \in Nat /\ HasHandler(m.id)
    BY Zenon, <1>2 DEF ReadsPublish
  <2>2. response.type = "PublishResponse" /\ response.re = m.id
    BY Zenon
  <2> QED
    BY <1>3, <2>1, <2>2 DEF Answers, IsResponseTo
<1>6. nodeWriting' \subseteq nodeWriting \cup {response}
  BY Zenon, <1>1
<1> HIDE DEF response
<1>7. /\ nodeInbox' \in Seq(NodeReads)
      /\ \A i \in 1 .. Len(nodeInbox') : i + 1 \in 1 .. Len(nodeInbox) /\ nodeInbox'[i] = nodeInbox[i + 1]
  BY <1>1 DEF MessageTypes
<1>8. MessageTypes'
  BY Zenon, <1>5, <1>6, <1>7 DEF MessageTypes
<1>9. VerdictsLeft'
  BY Zenon, <1>1, <1>4, SameVerdicts DEF Closing
<1>10. NodeStage'
  <2>1. FirstAck' = FirstAck
    BY Zenon, <1>1 DEF FirstAck
  <2>2. \A w \in nodeWriting' : MayWrite(w)'
    <3>1. \A w : IsResponseTo(w) => IsResponseTo(w)'
      BY Zenon DEF IsResponseTo, HasHandler
    <3>2. \A w \in nodeWriting' : MayWrite(w)
      BY Zenon, <1>3, <1>5, <1>6, NodeConstants DEF MayWrite, NodeStage
    <3> QED
      BY Zenon, <1>1, <2>1, <3>1, <3>2 DEF MayWrite
  <2> QED
    BY <1>1, <1>3, <2>1, <2>2, NodeConstants DEF NodeStage
<1>11. InboxStage'
  <2>1. \A i \in 1 .. Len(nodeInbox') :
          /\ nodeInbox'[i].type = "Publish"
          /\ \E h \in publishHandlers' : h.id = nodeInbox'[i].id
    BY SMTT(30), <1>3, <1>7 DEF InboxStage, HasHandler
  <2> QED
    BY <1>1, <1>3, <2>1 DEF InboxStage, HasHandler
<1> QED
  BY Zenon, <1>1, <1>8, <1>9, <1>10, <1>11, SameClientStage, SameClientInbox DEF HandshakeInv

LEMMA ReadFailsKeeps ==
  ASSUME NodeInv, HandshakeInv, Node!ReadFails, ClientSame
  PROVE  HandshakeInv'
<1> MessageTypes /\ VerdictsLeft /\ NodeStage /\ InboxStage /\ ClientStage /\ ClientInbox
  BY Zenon DEF HandshakeInv
<1> USE DEF ClientSame
<1>1. /\ conn = "closed" /\ nodeReading # <<>> /\ nodeReading' = Tail(nodeReading)
      /\ UNCHANGED <<conn, nodeNextId, getHandler, answerHandlers, nodeWriting, nodeInbox>>
      /\ UNCHANGED <<nsent, query, toPost, posted, acks>>
  BY Zenon DEF Node!ReadFails, Node!environment, Node!lookup, Node!dispatcher
<1>2. nodeReading' = None
  BY Zenon, <1>1, NodeConstants, ReadFacts DEF NodeInv
<1>3. MessageTypes'
  BY Zenon, <1>1 DEF MessageTypes
<1>4. VerdictsLeft'
  BY Zenon, <1>1, <1>2, NodeConstants DEF VerdictsLeft
<1> QED
  BY Zenon, <1>1, <1>3, <1>4, SameNodeStage, SameInboxStage, SameClientStage, SameClientInbox DEF Closing, HandshakeInv

LEMMA PostedKeeps ==
  ASSUME NodeInv, HandshakeInv, Node!RunPosted, ClientSame
  PROVE  HandshakeInv'
<1> MessageTypes /\ VerdictsLeft /\ NodeStage /\ InboxStage /\ ClientStage /\ ClientInbox
  BY Zenon DEF HandshakeInv
<1> USE DEF ClientSame
<1> DEFINE ok == Head(posted)
<1>1. /\ posted # <<>> /\ posted' = Tail(posted) /\ nodeNextId' = nodeNextId + 1
      /\ UNCHANGED <<conn, getHandler, answerHandlers, nodeInbox, nsent, query, toPost>>
  BY Zenon DEF Node!RunPosted, Node!Conclude, Node!SendAck, Node!environment, Node!lookup
<1>2. /\ nodeWriting' = nodeWriting \cup
           {[type |-> "AuthAck", id |-> nodeNextId', re |-> query.re, authorized |-> ok]}
      /\ acks' = Append(acks, ok)
      /\ nodeReading' = IF ok THEN Append(nodeReading, "authenticated") ELSE nodeReading
  BY Zenon DEF Node!RunPosted, Node!Conclude, Node!SendAck
<1> HIDE DEF ok
<1>3. /\ nodeReading = None /\ posted \in {Yes, No, NoYes, NoNo}
      /\ query.at \notin {"none", "connecting", "executing"} /\ query.re = 2
  BY Zenon, <1>1, NodeConstants DEF NodeStage, NodeInv
<1>4. acks \in {None, No}
  BY Zenon, <1>3, NodeConstants DEF VerdictsLeft
<1>5. /\ nodeNextId = IF acks = None THEN 1 ELSE 2
      /\ answerHandlers = {1}
  BY <1>3, <1>4, NodeConstants DEF NodeStage
<1>6. state # "authenticated" /\ nodeInbox = <<>> /\ nsent >= 2
  <2>1. acks # Yes /\ query.at # "none"
    BY Zenon, <1>3, <1>4, NodeConstants
  <2>2. state # "authenticated"
    BY Zenon, <2>1 DEF ClientStage
  <2>3. nodeNextId \in {1, 2}
    BY Zenon, <1>5
  <2>4. nsent >= 2
    BY <2>1, <2>3 DEF InboxStage
  <2>5. nodeInbox = <<>>
    BY Zenon, <2>1, <2>2, <2>4 DEF InboxStage
  <2> QED
    BY Zenon, <2>2, <2>4, <2>5
<1>7. \/ posted = Yes /\ ok = TRUE
      \/ posted # Yes /\ ok = FALSE
  BY <1>3, VerdictFacts, NodeConstants, Zenon DEF ok
<1>8. nodeReading' = IF posted = Yes THEN Authenticated ELSE None
  BY Zenon, <1>2, <1>3, <1>7, ReadFacts
<1>9. /\ nodeWriting' = nodeWriting \cup
           {IF posted = Yes THEN AckYes(nodeNextId') ELSE AckNo(nodeNextId')}
  BY Zenon, <1>2, <1>3, <1>7 DEF AckYes, AckNo
<1>10. /\ acks = None => acks' = IF posted = Yes THEN Yes ELSE No
       /\ acks = No => acks' = IF posted = Yes THEN NoYes ELSE NoNo
  BY <1>2, <1>7, VerdictFacts, Zenon
<1>11. MessageTypes'
  <2>1. nodeNextId' \in Nat
    BY <1>1, <1>5
  <2> QED
    BY <1>1, <1>9, <2>1, MessageFacts DEF MessageTypes
<1>12. VerdictsLeft'
  <2>1. /\ toPost \in {None, Yes, No, NoYes, NoNo}
        /\ toPost # None => posted = No
        /\ toPost \notin {NoYes, NoNo}
    BY Zenon, <1>3, NodeConstants DEF NodeInv
  <2>2. /\ posted' \in {None, Yes, No}
        /\ posted \in {Yes, No} => posted' = None
    BY ZenonT(30), <1>1, <1>3, VerdictFacts, NodeConstants
  <2>3. CASE acks = None
    BY Zenon, <1>1, <1>8, <1>10, <2>1, <2>2, <2>3, NodeConstants DEF VerdictsLeft
  <2>4. CASE acks = No
    <3>1. posted \in {Yes, No} /\ toPost = None
      BY Zenon, <1>3, <2>4, NodeConstants DEF VerdictsLeft
    <3> QED
      BY Zenon, <1>1, <1>8, <1>10, <2>2, <2>4, <3>1, NodeConstants DEF VerdictsLeft
  <2> QED
    BY Zenon, <1>4, <2>3, <2>4
<1>13. NodeStage'
  <2>1. CASE acks = None
    <3>1. nodeNextId' = 2 /\ nodeWriting \subseteq {Challenge}
      BY <1>1, <1>5, <2>1 DEF NodeStage
    <3>2. nodeWriting' = nodeWriting \cup {FirstAck'}
      BY Zenon, <1>9, <1>10, <2>1, <3>1, NodeConstants DEF FirstAck
    <3>3. \A w \in nodeWriting' : MayWrite(w)'
      BY Zenon, <3>1, <3>2 DEF MayWrite
    <3>4. acks' # None
      BY Zenon, <1>10, <2>1, NodeConstants
    <3> QED
      BY <1>1, <1>3, <1>5, <3>1, <3>2, <3>3, <3>4 DEF NodeStage
  <2>2. CASE acks = No
    <3>1. nodeNextId' = 3 /\ FirstAck' = AckNo(2) /\ FirstAck = AckNo(2)
      BY <1>1, <1>5, <1>10, <2>2, NodeConstants DEF FirstAck
    <3>2. acks' \in {NoYes, NoNo}
      BY Zenon, <1>10, <2>2
    <3>3. \A w \in nodeWriting : w \in {Challenge, FirstAck}
      BY Zenon, <2>2, NodeConstants DEF NodeStage, MayWrite
    <3>4. \A w \in nodeWriting' : MayWrite(w)'
      BY Zenon, <1>9, <3>1, <3>2, <3>3 DEF MayWrite
    <3>5. acks' # None /\ acks' # No
      BY Zenon, <3>2, NodeConstants
    <3>6. conn = "open" => FirstAck \in nodeWriting \/ 2 \in transmitted
      BY Zenon, <2>2, NodeConstants DEF NodeStage
    <3> QED
      BY <1>1, <1>3, <1>5, <1>9, <3>1, <3>4, <3>5, <3>6 DEF NodeStage
  <2> QED
    BY Zenon, <1>4, <2>1, <2>2
<1>14. InboxStage'
  BY <1>1, <1>3, <1>6 DEF InboxStage
<1>15. ClientStage'
  BY Zenon, <1>1, <1>4, NodeConstants, SameClientStage
<1>16. ClientInbox'
  <2>1. CASE acks = None
    <3>1. 2 \notin transmitted
      BY <1>5, <2>1 DEF NodeStage
    <3> QED
      BY Zenon, <1>6, <3>1 DEF ClientInbox
  <2>2. CASE acks = No
    <3>1. FirstAck' = FirstAck /\ acks' # Yes
      BY Zenon, <1>10, <2>2, NodeConstants DEF FirstAck
    <3> QED
      BY Zenon, <1>6, <3>1 DEF ClientInbox
  <2> QED
    BY Zenon, <1>4, <2>1, <2>2
<1> QED
  BY Zenon, <1>11, <1>12, <1>13, <1>14, <1>15, <1>16 DEF HandshakeInv

LEMMA NodeRunsKeep == NodeInv /\ HandshakeInv /\ NodeRuns => HandshakeInv'
<1> SUFFICES ASSUME NodeInv, HandshakeInv, NodeRuns PROVE HandshakeInv'
  BY Zenon
<1>1. Node!Io /\ ClientSame
  BY Zenon, ClosesIsClientSame DEF NodeRuns
<1>2. ASSUME NEW m, Node!unhandled_message(m) PROVE FALSE
  <2>1. /\ conn = "open" /\ nodeReading # <<>> /\ nodeInbox # <<>> /\ m = Head(nodeInbox)
        /\ ~Node!IsGet(m) /\ ~Node!IsAnswer(m) /\ ~Node!IsPublish(m)
    BY Zenon, <1>2 DEF Node!unhandled_message, Node!Read
  <2>2. ReadsGet(m) \/ ReadsAnswer(m) \/ ReadsPublish(m)
    BY Zenon, <2>1, ReadsTheNext
  <2> QED
    BY <2>1, <2>2, ReadFacts
    DEF Node!IsGet, Node!IsAnswer, Node!IsPublish, ReadsGet, ReadsAnswer, ReadsPublish, Get, ReadAnswer
<1> QED
  BY Zenon, <1>1, <1>2, StartKeeps, GetKeeps, JudgeKeeps, LookUpKeeps, PostKeeps, ReadFailsKeeps, PostedKeeps
  DEF Node!Io

-----------------------------------------------------------------------------
(***************************************************************************)
(* The steps of the lookup and of the connection.                          *)
(***************************************************************************)
LEMMA LookupMoves ==
  ASSUME NodeInv, Node!Driver
  PROVE  /\ query.at # "none" /\ query'.at # "none" /\ query'.re = query.re
         /\ query'.at \in {"connecting", "executing"} => query.at \in {"connecting", "executing"}
         /\ \/ query.at \in {"connecting", "executing"}
            \/ toPost' = toPost /\ posted' = posted
            \/ toPost # None /\ toPost' = Tail(toPost) /\ posted' = Append(posted, Head(toPost))
<1>1. CASE Node!QueryFails
  BY Zenon, <1>1 DEF Node!QueryFails, NodeInv
<1>2. CASE Node!after_connect
  BY Zenon, <1>2 DEF Node!after_connect, NodeInv
<1>3. CASE Node!authCallback
  BY Zenon, <1>3, NodeConstants DEF Node!authCallback, NodeInv
<1>4. CASE Node!Close
  BY Zenon, <1>4 DEF Node!Close, NodeInv
<1>5. CASE Node!after_session_closed
  BY Zenon, <1>5 DEF Node!after_session_closed, NodeInv
<1>6. ASSUME NEW user, NEW match, Node!after_result(user, match)
      PROVE  /\ query.at = "executing" /\ query'.at = "answering" /\ query'.re = query.re
  BY Zenon, <1>6 DEF Node!after_result, NodeInv
<1> QED
  BY Zenon, <1>1, <1>2, <1>3, <1>4, <1>5, <1>6 DEF Node!Driver

LEMMA LookupKeeps == NodeInv /\ HandshakeInv /\ LookupRuns => HandshakeInv'
<1> SUFFICES ASSUME NodeInv, HandshakeInv, LookupRuns PROVE HandshakeInv'
  BY Zenon
<1> MessageTypes /\ VerdictsLeft /\ NodeStage /\ InboxStage /\ ClientStage /\ ClientInbox
  BY Zenon DEF HandshakeInv
<1>1. Node!Driver /\ ClientSame
  BY Zenon, ClosesIsClientSame DEF LookupRuns
<1>2. /\ UNCHANGED <<conn, nodeNextId, getHandler, answerHandlers, nodeReading>>
      /\ UNCHANGED <<nodeWriting, nodeInbox, nsent, acks>>
  BY ZenonT(30), <1>1 DEF Node!Driver, Node!QueryFails, Node!after_connect, Node!authCallback, Node!Close,
              Node!after_session_closed, Node!after_result, Node!dispatcher, Node!environment
<1>3. MessageTypes'
  BY Zenon, <1>1, <1>2 DEF MessageTypes, ClientSame
<1>4. VerdictsLeft'
  <2>1. CASE acks = None
    BY Zenon, <1>2, <2>1, NodeConstants DEF VerdictsLeft
  <2>2. CASE acks # None /\ toPost' = toPost /\ posted' = posted
    BY Zenon, <1>2, <2>2 DEF VerdictsLeft
  <2>3. CASE acks # None /\ toPost # None /\ toPost' = Tail(toPost) /\ posted' = Append(posted, Head(toPost))
    <3>1. acks = No /\ toPost \in {Yes, No} /\ posted = None
      BY Zenon, <2>3, NodeConstants DEF VerdictsLeft
    <3>2. toPost' = None /\ posted' = toPost
      BY <2>3, <3>1, VerdictFacts, Zenon
    <3> QED
      BY Zenon, <1>2, <3>1, <3>2, NodeConstants DEF VerdictsLeft
  <2>4. query.at \in {"connecting", "executing"} => acks = None
    BY DEF NodeStage
  <2> QED
    BY Zenon, <1>1, <2>1, <2>2, <2>3, <2>4, LookupMoves
<1>5. NodeStage'
  <2>1. \A w : MayWrite(w) => MayWrite(w)'
    BY Zenon, <1>1, <1>2 DEF MayWrite, IsResponseTo, FirstAck, HasHandler, ClientSame
  <2>2. FirstAck' = FirstAck
    BY Zenon, <1>2 DEF FirstAck
  <2> QED
    BY Zenon, <1>1, <1>2, <2>1, <2>2, LookupMoves DEF NodeStage, ClientSame
<1>6. InboxStage'
  BY Zenon, <1>1, <1>2, LookupMoves DEF InboxStage, HasHandler, ClientSame
<1> QED
  BY Zenon, <1>1, <1>2, <1>3, <1>4, <1>5, <1>6, SameClientStage, SameClientInbox DEF ClientSame, HandshakeInv

LEMMA TransmitKeeps == HandshakeInv /\ (\E w \in nodeWriting : Transmit(w)) => HandshakeInv'
<1> SUFFICES ASSUME HandshakeInv, NEW w \in nodeWriting, Transmit(w) PROVE HandshakeInv'
  BY Zenon
<1> MessageTypes /\ VerdictsLeft /\ NodeStage /\ InboxStage /\ ClientStage /\ ClientInbox
  BY Zenon DEF HandshakeInv
<1>1. /\ conn = "open" /\ w.id \notin transmitted /\ Oldest(w)
      /\ inbox' = Append(inbox, w) /\ transmitted' = transmitted \cup {w.id}
      /\ UNCHANGED <<conn, nodeNextId, getHandler, answerHandlers, nodeReading>>
      /\ UNCHANGED <<nodeWriting, nodeInbox, nsent, query, toPost, posted, acks>>
      /\ UNCHANGED <<state, nextId, challengeHandlers, ackHandlers, publishHandlers>>
      /\ UNCHANGED <<reading, writing>>
  BY Zenon DEF Transmit, Deliver, node, client
<1>2. w \in Answers /\ inbox \in Seq(Answers) /\ inbox' \in Seq(Answers)
  BY <1>1 DEF MessageTypes
<1>3. state # "none" /\ nodeNextId \in Nat /\ nodeNextId >= 1
  BY Zenon, NodeWritesAfterStart
<1>4. nodeNextId = 1 => w = Challenge
  BY DEF NodeStage
<1>5. nodeNextId >= 2 => /\ MayWrite(w) /\ acks # None
                         /\ FirstAck \in nodeWriting \/ 2 \in transmitted
  BY Zenon, <1>1 DEF NodeStage
<1>6. nodeNextId >= 2 => w.id <= 2 \/ 2 \in transmitted
  BY Zenon, <1>1, <1>5, FirstAckFacts DEF Oldest
<1>7. MessageTypes'
  BY Zenon, <1>1, <1>2 DEF MessageTypes
<1>8. VerdictsLeft'
  BY Zenon, <1>1, SameVerdicts DEF Closing
<1>9. NodeStage'
  <2>1. \A v : MayWrite(v) => MayWrite(v)'
    BY Zenon, <1>1 DEF MayWrite, IsResponseTo, FirstAck, HasHandler
  <2>2. FirstAck' = FirstAck
    BY Zenon, <1>1 DEF FirstAck
  <2>3. nodeNextId = 1 => transmitted' \subseteq {1}
    BY <1>1, <1>4, MessageFacts DEF NodeStage
  <2> QED
    BY <1>1, <1>3, <2>1, <2>2, <2>3 DEF NodeStage
<1>10. InboxStage'
  BY Zenon, <1>1, SameInboxStage
<1>11. ClientStage'
  BY Zenon, <1>1, <1>3 DEF ClientStage
<1>12. ClientInbox'
  <2>1. ASSUME reading = "unauthenticated", nextId = 1
        PROVE  inbox' = <<Challenge>> /\ 1 \in transmitted'
    <3>1. nodeNextId = 1
      BY <1>3, <2>1 DEF ClientStage, InboxStage
    <3>2. w = Challenge /\ w.id = 1
      BY Zenon, <1>4, <3>1, MessageFacts
    <3>3. inbox = <<>>
      BY Zenon, <1>1, <2>1, <3>2 DEF ClientInbox
    <3> QED
      BY <1>1, <3>2, <3>3
  <2>2. ASSUME reading = "unauthenticated", nextId = 2
        PROVE  /\ 2 \in transmitted' /\ inbox' # <<>> /\ Head(inbox') = FirstAck
               /\ acks = Yes => Tail(inbox') = <<>>
    <3>1. state = "unauthenticated" /\ publishHandlers = {} /\ 1 \in transmitted
      BY <2>2 DEF ClientStage
    <3>2. nodeNextId >= 2
      BY <1>1, <1>3, <1>4, <3>1, MessageFacts
    <3>3. CASE w = FirstAck
      <4>1. w.id = 2 /\ inbox = <<>>
        BY Zenon, <1>1, <2>2, <3>3, FirstAckFacts DEF ClientInbox
      <4> QED
        BY <1>1, <3>3, <4>1
    <3>4. CASE w # FirstAck
      <4>1. acks \in {NoYes, NoNo} /\ w \in {AckYes(3), AckNo(3)}
        BY Zenon, <1>1, <1>5, <3>1, <3>2, <3>4, MessageFacts DEF MayWrite, IsResponseTo, HasHandler
      <4>2. w.id = 3 /\ acks # Yes
        BY <4>1, MessageFacts, NodeConstants
      <4>3. 2 \in transmitted
        BY <1>6, <3>2, <4>2
      <4>4. inbox # <<>> /\ Head(inbox) = FirstAck
        BY Zenon, <2>2, <4>3 DEF ClientInbox
      <4>5. inbox' # <<>> /\ Head(inbox') = Head(inbox)
        BY <1>1, <1>2, <4>4
      <4> QED
        BY Zenon, <1>1, <4>2, <4>3, <4>4, <4>5
    <3> QED
      BY Zenon, <3>3, <3>4
  <2>3. ASSUME state = "authenticated"
        PROVE  \A i \in 1 .. Len(inbox') : IsResponseTo(inbox'[i])
    <3>1. acks = Yes /\ 1 \in transmitted /\ 2 \in transmitted
      BY Zenon, <2>3 DEF ClientStage
    <3>2. nodeNextId >= 2
      BY <1>3, <3>1, NodeConstants DEF NodeStage
    <3>3. IsResponseTo(w)
      BY Zenon, <1>1, <1>5, <3>1, <3>2, MessageFacts, FirstAckFacts, NodeConstants DEF MayWrite
    <3>4. \A i \in 1 .. Len(inbox') : inbox'[i] = w \/ \E j \in 1 .. Len(inbox) : inbox'[i] = inbox[j]
      BY ZenonT(30), <1>1, <1>2, DeliveredElements
    <3>5. \A j \in 1 .. Len(inbox) : IsResponseTo(inbox[j])
      BY Zenon, <2>3 DEF ClientInbox
    <3> QED
      BY Zenon, <3>3, <3>4, <3>5
  <2>4. FirstAck' = FirstAck
    BY Zenon, <1>1 DEF FirstAck
  <2>5. \A v : IsResponseTo(v) => v.type = "PublishResponse" /\ \E h \in publishHandlers' : h.id = v.re
    BY Zenon, <1>1 DEF IsResponseTo, HasHandler
  <2>6. state' = "authenticated" => \A i \in 1 .. Len(inbox') :
          inbox'[i].type = "PublishResponse" /\ \E h \in publishHandlers' : h.id = inbox'[i].re
    BY Zenon, <1>1, <2>3, <2>5
  <2> QED
    BY Zenon, <1>1, <2>1, <2>2, <2>4, <2>6 DEF ClientInbox, IsResponseTo, HasHandler
<1> QED
  BY Zenon, <1>7, <1>8, <1>9, <1>10, <1>11, <1>12 DEF HandshakeInv

LEMMA WrittenKeeps == HandshakeInv /\ (\E w \in nodeWriting : NodeWritten(w)) => HandshakeInv'
<1> SUFFICES ASSUME HandshakeInv, NEW w \in nodeWriting, NodeWritten(w) PROVE HandshakeInv'
  BY Zenon
<1> MessageTypes /\ VerdictsLeft /\ NodeStage /\ InboxStage /\ ClientStage /\ ClientInbox
  BY Zenon DEF HandshakeInv
<1>1. ClientSame
  BY Zenon, ClosesIsClientSame DEF NodeWritten
<1>2. /\ w.id \in transmitted \/ conn = "closed"
      /\ nodeWriting' = nodeWriting \ {w} /\ (conn' = conn \/ conn' = "closed")
      /\ UNCHANGED <<nodeNextId, getHandler, answerHandlers, nodeReading>>
      /\ UNCHANGED <<nodeInbox, nsent, query, toPost, posted, acks>>
  BY Zenon DEF NodeWritten, Node!handle_write_result, Node!dispatcher, Node!lookup
<1>3. nodeNextId \in Nat /\ nodeNextId >= 1 /\ conn # "accepted"
  BY Zenon, NodeWritesAfterStart
<1>4. Closing
  BY Zenon, <1>2, <1>3 DEF Closing
<1>5. MessageTypes'
  BY Zenon, <1>1, <1>2 DEF MessageTypes, ClientSame
<1>6. NodeStage'
  <2>1. \A v : MayWrite(v) => MayWrite(v)'
    BY Zenon, <1>1, <1>2 DEF MayWrite, IsResponseTo, FirstAck, HasHandler, ClientSame
  <2>2. FirstAck' = FirstAck
    BY Zenon, <1>2 DEF FirstAck
  <2>3. acks # None /\ conn' = "open" => FirstAck \in nodeWriting' \/ 2 \in transmitted
    BY Zenon, <1>2, FirstAckFacts DEF NodeStage
  <2> QED
    BY Zenon, <1>1, <1>2, <1>3, <1>4, <2>1, <2>2, <2>3 DEF NodeStage, Closing, ClientSame
<1> QED
  BY <1>1, <1>2, <1>4, <1>5, <1>6, SameVerdicts, SameInboxStage, SameClientStage, SameClientInbox
  DEF ClientSame, HandshakeInv

LEMMA DisconnectKeeps == HandshakeInv /\ NodeDisconnected => HandshakeInv'
<1> SUFFICES ASSUME HandshakeInv, NodeDisconnected PROVE HandshakeInv'
  BY Zenon
<1> MessageTypes /\ VerdictsLeft /\ NodeStage /\ InboxStage /\ ClientStage /\ ClientInbox
  BY Zenon DEF HandshakeInv
<1>1. ClientSame
  BY Zenon, ClosesIsClientSame DEF NodeDisconnected
<1>2. /\ Closing
      /\ UNCHANGED <<nodeNextId, getHandler, answerHandlers, nodeReading, nodeWriting>>
      /\ UNCHANGED <<nodeInbox, nsent, query, toPost, posted, acks>>
  BY Zenon DEF NodeDisconnected, Node!Disconnect, Node!dispatcher, Node!lookup, Node!environment, Closing
<1>3. MessageTypes'
  BY Zenon, <1>1, <1>2 DEF MessageTypes, ClientSame
<1> QED
  BY Zenon, <1>1, <1>2, <1>3, SameVerdicts, SameNodeStage, SameInboxStage, SameClientStage, SameClientInbox
  DEF ClientSame, HandshakeInv

LEMMA HandshakeStarts ==
  ASSUME SessionInit
  PROVE  HandshakeInv
<1>1. /\ conn = "accepted" /\ nodeNextId = 0 /\ answerHandlers = {} /\ nodeReading = None
      /\ nodeWriting = {} /\ nodeInbox = <<>> /\ nsent = 0 /\ query.at = "none"
      /\ acks = None /\ transmitted = {}
  BY Zenon DEF SessionInit, Node!Init, Node!NoQuery, None
<1>2. /\ state = "none" /\ nextId = 0 /\ publishHandlers = {} /\ reading = "no" /\ writing = {}
      /\ inbox = <<>>
  BY Zenon DEF SessionInit, Init
<1>3. MessageTypes /\ VerdictsLeft
  BY <1>1, <1>2, NodeConstants DEF MessageTypes, VerdictsLeft
<1>4. NodeStage /\ InboxStage
  BY <1>1, <1>2, NodeConstants DEF NodeStage, InboxStage
<1>5. ClientStage /\ ClientInbox
  BY Zenon, <1>1, <1>2 DEF ClientStage, ClientInbox
<1> QED
  BY Zenon, <1>3, <1>4, <1>5 DEF HandshakeInv

LEMMA HandshakeStays ==
  ASSUME NodeInv, HandshakeInv, [SessionNext]_allVars
  PROVE  HandshakeInv'
<1>1. CASE SessionNext
  BY Zenon, <1>1, ApplicationKeeps, ReadsKeep, BreakKeeps, SendKeeps, NodeRunsKeep, LookupKeeps,
     DisconnectKeeps, TransmitKeeps, WrittenKeeps
  DEF SessionNext
<1>2. CASE UNCHANGED allVars
  <2>1. /\ UNCHANGED <<conn, nodeNextId, getHandler, answerHandlers, closeAfter, nodeReading>>
        /\ UNCHANGED <<nodeWriting, nodeInbox, nsent, query, toPost, posted, acks, freed, transmitted>>
        /\ UNCHANGED <<state, nextId, challengeHandlers, ackHandlers, publishHandlers>>
        /\ UNCHANGED <<reading, writing, inbox>>
    BY Zenon, <1>2 DEF allVars, node, vars, client
  <2>2. MessageTypes'
    BY Zenon, <2>1 DEF HandshakeInv, MessageTypes
  <2>3. /\ VerdictsLeft' /\ NodeStage' /\ InboxStage' /\ ClientStage' /\ ClientInbox'
    BY Zenon, <2>1, SameVerdicts, SameNodeStage, SameInboxStage, SameClientStage, SameClientInbox
    DEF HandshakeInv, Closing
  <2> QED
    BY Zenon, <2>2, <2>3 DEF HandshakeInv
<1> QED
  BY Zenon, <1>1, <1>2

\* The message that a side reads next is one that it has the handler for.
LEMMA NextIsExpected ==
  ASSUME NodeInv, HandshakeInv
  PROVE  NoViolation
<1> MessageTypes /\ VerdictsLeft /\ NodeStage /\ InboxStage /\ ClientStage /\ ClientInbox
  BY Zenon DEF HandshakeInv
<1>1. ASSUME NEW m \in Range(inbox), reading # "no", m = Head(inbox)
      PROVE  IsChallenge(m) \/ IsAck(m) \/ IsResponse(m)
  <2>1. inbox \in Seq(Answers) /\ 1 \in 1 .. Len(inbox) /\ m = inbox[1] /\ inbox # <<>>
    BY <1>1 DEF MessageTypes, Range
  <2>2. CASE state = "authenticated"
    BY Zenon, <1>1, <2>1, <2>2
    DEF ClientStage, ClientInbox, IsResponseTo, HasHandler, IsResponse
  <2>3. CASE state = "unauthenticated" /\ nextId = 1
    <3>1. m = Challenge /\ 1 \in challengeHandlers /\ reading = "unauthenticated"
      BY <1>1, <2>1, <2>3 DEF ClientStage, ClientInbox
    <3> QED
      BY Zenon, <3>1, MessageFacts DEF IsChallenge
  <2>4. CASE state = "unauthenticated" /\ nextId = 2
    <3>1. m = FirstAck /\ 2 \in ackHandlers /\ reading = "unauthenticated"
      BY <1>1, <2>1, <2>4 DEF ClientStage, ClientInbox
    <3> QED
      BY Zenon, <3>1, FirstAckFacts DEF IsAck
  <2> QED
    BY Zenon, <1>1, <2>2, <2>3, <2>4 DEF ClientStage
<1>2. ASSUME conn = "open", nodeReading # <<>>, nodeInbox # <<>>
      PROVE  NodeExpects(Head(nodeInbox))
  <2> DEFINE m == Head(nodeInbox)
  <2>1. ReadsGet(m) \/ ReadsAnswer(m) \/ ReadsPublish(m)
    BY Zenon, <1>2, ReadsTheNext
  <2> QED
    BY <2>1, ReadFacts
    DEF NodeExpects, Node!IsGet, Node!IsAnswer, Node!IsPublish, ReadsGet, ReadsAnswer,
        ReadsPublish, Get, ReadAnswer
<1> QED
  BY Zenon, <1>1, <1>2 DEF NoViolation, AnswersAreExpected

LEMMA VerdictsKnown ==
  ASSUME HandshakeInv
  PROVE  VerdictsAgree
<1>1. ClientStage /\ VerdictsLeft
  BY Zenon DEF HandshakeInv
<1> QED
  BY Zenon, <1>1 DEF ClientStage, VerdictsLeft, VerdictsAgree, Yes, Authenticated

\* What has been acknowledged of the one answer of a client.
VerdictsBounded == acks # <<>> => Len(acks) <= 2 /\ (Head(acks) = TRUE => Len(acks) = 1)

LEMMA VerdictsAreBounded ==
  ASSUME HandshakeInv
  PROVE  VerdictsBounded
<1> MessageTypes /\ VerdictsLeft /\ NodeStage /\ InboxStage /\ ClientStage /\ ClientInbox
  BY Zenon DEF HandshakeInv
<1>1. acks \in {None, Yes, No, NoYes, NoNo}
  BY Zenon DEF VerdictsLeft
<1>2. Len(Yes) = 1 /\ Len(No) = 1 /\ Len(NoYes) = 2 /\ Len(NoNo) = 2
  BY Zenon DEF Yes, No, NoYes, NoNo
<1>3. acks \in {Yes, No, NoYes, NoNo} => Len(acks) \in {1, 2}
  BY Zenon, <1>2
<1>4. Head(acks) = TRUE /\ acks # None => acks \in {Yes}
  BY <1>1, VerdictFacts, Zenon
<1>5. acks # None => Len(acks) \in {1, 2}
  BY Zenon, <1>1, <1>3
<1>6. Head(acks) = TRUE /\ acks # None => Len(acks) = 1
  BY Zenon, <1>2, <1>4
<1>7. \A n \in {1, 2} : n <= 2
  OBVIOUS
<1> QED
  BY <1>5, <1>6, <1>7, VerdictFacts, Zenon DEF VerdictsBounded

-----------------------------------------------------------------------------
(***************************************************************************)
(* What the application is told, with the node of ServerSession in place   *)
(* of the one that ClientSession assumes.                                  *)
(***************************************************************************)
Refusals == Seq({FALSE})

AtMostOne(s) == Len(s) <= 1

\* The calls of authenticate_callback and of the callbacks of the publishes.  A
\* write of the handshake that fails leaves the node without the message.
Told ==
  /\ state = "none" => authCalls = <<>>
  /\ state # "authenticated" => authCalls \in Refusals
  /\ state = "authenticated" => authCalls = <<TRUE>>
  /\ reading = "unauthenticated" /\ (writing # {} \/ nsent = nextId) => authCalls = <<>>
  /\ results \in [Publishes -> Seq({"status", "error"})]
  /\ \A p \in Publishes : AtMostOne(results[p])
  /\ state # "authenticated" \/ reading = "authenticated" => \A p \in Publishes : results[p] = <<>>

LEMMA RefusalsGrow ==
  /\ <<>> \in Refusals
  /\ \A s \in Refusals : Append(s, FALSE) \in Refusals
  /\ \A s \in Refusals : \A i \in 1 .. Len(s) : s[i] = FALSE
  /\ Append(<<>>, TRUE) = <<TRUE>>
<1>1. \A x : \A s \in Seq({x}) : Append(s, x) \in Seq({x}) /\ \A i \in 1 .. Len(s) : s[i] = x
  OBVIOUS
<1>2. \A x \in BOOLEAN : Append(<<>>, x) = <<x>>
  OBVIOUS
<1>3. Append(<<>>, TRUE) = <<TRUE>>
  BY <1>2, Zenon
<1>4. <<>> \in Refusals
  BY DEF Refusals
<1> QED
  BY <1>1, <1>3, <1>4, Zenon DEF Refusals

LEMMA FirstResult ==
  ASSUME NEW x \in {"status", "error"}
  PROVE  /\ Append(<<>>, x) \in Seq({"status", "error"}) /\ AtMostOne(Append(<<>>, x))
         /\ <<>> \in Seq({"status", "error"}) /\ AtMostOne(<<>>)
BY DEF AtMostOne

\* The client reads a challenge or a verdict only after its own message was sent.
LEMMA HandshakeReads ==
  ASSUME HandshakeInv, NEW m, on_challenge_response(m) \/ on_auth_ack(m)
  PROVE  state = "unauthenticated" /\ reading = "unauthenticated" /\ nsent = nextId
<1>1. reading = "unauthenticated" /\ inbox # <<>>
  BY ZenonT(30) DEF on_challenge_response, on_auth_ack, Received, IsChallenge, IsAck
<1>2. NodeStage /\ InboxStage /\ ClientStage /\ ClientInbox
  BY Zenon DEF HandshakeInv
<1>3. state = "unauthenticated"
  BY Zenon, <1>1, <1>2 DEF ClientStage
<1>4. nodeNextId \in Nat /\ nsent \in Nat
  BY Zenon, <1>2 DEF NodeStage, InboxStage
<1>5. CASE nextId = 1
  <2>1. 1 \in transmitted
    BY Zenon, <1>1, <1>2, <1>5 DEF ClientInbox
  <2>2. nodeNextId # 0
    BY Zenon, <1>2, <2>1 DEF NodeStage
  <2>3. nsent # 0
    BY Zenon, <1>2, <2>2 DEF InboxStage
  <2>4. nsent \in {0, 1}
    BY Zenon, <1>2, <1>3, <1>5 DEF ClientStage
  <2> QED
    BY Zenon, <1>1, <1>3, <1>5, <2>3, <2>4
<1>6. CASE nextId = 2
  <2>1. 2 \in transmitted
    BY Zenon, <1>1, <1>2, <1>6 DEF ClientInbox
  <2>2. nodeNextId >= 2
    BY <1>2, <1>4, <2>1 DEF NodeStage
  <2>3. nsent \notin {0, 1}
    BY <1>2, <2>2 DEF InboxStage
  <2>4. nsent \in {1, 2}
    BY <1>2, <1>3, <1>6 DEF ClientStage
  <2> QED
    BY Zenon, <1>1, <1>3, <1>6, <2>3, <2>4
<1> QED
  BY Zenon, <1>2, <1>3, <1>5, <1>6 DEF ClientStage

LEMMA SameTold ==
  ASSUME Told, UNCHANGED <<state, reading, writing, nsent, nextId, authCalls, results>>
  PROVE  Told'
BY Zenon DEF Told

LEMMA ApplicationTells ==
  ASSUME HandshakeInv, Told, Application PROVE Told'
<1> MessageTypes /\ VerdictsLeft /\ NodeStage /\ InboxStage /\ ClientStage /\ ClientInbox
  BY Zenon DEF HandshakeInv
<1>1. UNCHANGED <<nsent, authCalls, results>>
  BY Zenon DEF Application, authenticate, publish_message, callbacks, node
<1>2. CASE authenticate
  <2>1. state = "none" /\ state' = "unauthenticated" /\ reading' = "unauthenticated"
    BY Zenon, <1>2 DEF authenticate
  <2> QED
    BY Zenon, <1>1, <2>1, RefusalsGrow DEF Told
<1>3. ASSUME NEW p \in Publishes, publish_message(p) PROVE Told'
  <2>1. state = "authenticated" /\ UNCHANGED <<state, reading>>
    BY Zenon, <1>3 DEF publish_message
  <2>2. reading # "unauthenticated"
    BY Zenon, <2>1 DEF ClientStage
  <2> QED
    BY Zenon, <1>1, <2>1, <2>2 DEF Told
<1> QED
  BY Zenon, <1>2, <1>3 DEF Application

LEMMA SendTells ==
  ASSUME HandshakeInv, Told, NEW w \in writing, ClientWrites(w) PROVE Told'
<1>1. UNCHANGED <<state, reading, nextId, results>> /\ writing' = writing \ {w}
  BY Zenon DEF ClientWrites, Sent, SendFailed, client, callbacks
<1>2. CASE authCalls' = authCalls
  <2>1. reading = "unauthenticated" => authCalls = <<>>
    BY Zenon DEF Told
  <2> QED
    BY ZenonT(30), <1>1, <1>2, <2>1 DEF Told
<1>3. CASE authCalls' # authCalls
  <2>1. w.type # "Publish" /\ authCalls' = Append(authCalls, FALSE) /\ nsent' = nsent
    BY Zenon, <1>3 DEF ClientWrites, Sent, SendFailed, callbacks, node
  <2>2. ClientStage
    BY Zenon DEF HandshakeInv
  <2>3. state = "unauthenticated"
    BY Zenon, <2>1, <2>2 DEF ClientStage
  <2>4. writing = {w} /\ nsent # nextId
    BY <2>2, <2>3 DEF ClientStage
  <2>5. authCalls' \in Refusals
    BY ZenonT(30), <2>1, <2>3, RefusalsGrow DEF Told
  <2>6. writing' = {}
    BY Zenon, <1>1, <2>4
  <2> QED
    BY Zenon, <1>1, <2>1, <2>3, <2>4, <2>5, <2>6 DEF Told
<1> QED
  BY Zenon, <1>2, <1>3

LEMMA ReadsTell ==
  ASSUME HandshakeInv, Told, ClientReads PROVE Told'
<1> MessageTypes /\ VerdictsLeft /\ NodeStage /\ InboxStage /\ ClientStage /\ ClientInbox
  BY Zenon DEF HandshakeInv
<1>1. nsent' = nsent /\ reading \in {"no", state}
  BY Zenon DEF ClientReads, node, ClientStage
<1>2. ASSUME NEW m, on_challenge_response(m) PROVE Told'
  <2>1. state = "unauthenticated" /\ authCalls = <<>>
    BY Zenon, <1>2, HandshakeReads DEF Told
  <2>2. UNCHANGED <<state, authCalls, results>> /\ reading' = "unauthenticated"
    BY Zenon, <1>2 DEF on_challenge_response, callbacks
  <2> QED
    BY Zenon, <2>1, <2>2 DEF Told
<1>3. ASSUME NEW m, on_auth_ack(m) PROVE Told'
  <2>1. state = "unauthenticated" /\ authCalls = <<>>
    BY Zenon, <1>3, HandshakeReads DEF Told
  <2>2. UNCHANGED results /\ on_auth_status(m.authorized)
    BY Zenon, <1>3 DEF on_auth_ack
  <2>3. \A p \in Publishes : results[p] = <<>>
    BY Zenon, <2>1 DEF Told
  <2>4. CASE m.authorized = TRUE
    <3>1. state' = "authenticated" /\ reading' = "authenticated" /\ authCalls' = <<TRUE>>
      BY Zenon, <2>1, <2>2, <2>4, RefusalsGrow DEF on_auth_status
    <3> QED
      BY Zenon, <2>2, <2>3, <3>1 DEF Told
  <2>5. CASE m.authorized = FALSE
    <3>1. state' = "unauthenticated" /\ reading' = "no" /\ authCalls' = Append(authCalls, FALSE)
      BY Zenon, <2>1, <2>2, <2>5 DEF on_auth_status
    <3>2. authCalls' \in Refusals
      BY Zenon, <2>1, <3>1, RefusalsGrow
    <3> QED
      BY Zenon, <2>2, <2>3, <3>1, <3>2 DEF Told
  <2>6. m.authorized \in BOOLEAN
    <3>1. inbox \in Seq(Answers) /\ inbox # <<>> /\ m = Head(inbox) /\ m.type = "AuthAck"
      BY Zenon, <1>3 DEF MessageTypes, on_auth_ack, Received, IsAck
    <3>2. m \in Answers
      BY <3>1
    <3> QED
      BY Zenon, <3>1, <3>2 DEF Answers
  <2> QED
    BY Zenon, <2>4, <2>5, <2>6
<1>4. ASSUME reading = "authenticated", reading' = "no", UNCHANGED <<state, authCalls>>,
             results' \in [Publishes -> Seq({"status", "error"})],
             \A p \in Publishes : AtMostOne(results'[p])
      PROVE  Told'
  <2>1. state = "authenticated"
    BY Zenon, <1>1, <1>4
  <2> QED
    BY ZenonT(30), <1>4, <2>1 DEF Told
<1>5. ASSUME NEW m, OnPublishResponse(m) PROVE Told'
  <2>1. reading = "authenticated" /\ reading' = "no" /\ UNCHANGED <<state, authCalls>>
    BY Zenon, <1>5 DEF OnPublishResponse, IsResponse, client
  <2>2. PICK h \in publishHandlers : results' = [results EXCEPT ![h.publish] = Append(@, "status")]
    BY Zenon, <1>5 DEF OnPublishResponse
  <2>3. results \in [Publishes -> Seq({"status", "error"})] /\ \A p \in Publishes : results[p] = <<>>
    BY Zenon, <2>1 DEF Told
  <2>4. \A p \in Publishes : results'[p] \in {<<>>, Append(<<>>, "status")}
    BY Zenon, <2>2, <2>3
  <2>5. /\ Append(<<>>, "status") \in Seq({"status", "error"}) /\ AtMostOne(Append(<<>>, "status"))
        /\ <<>> \in Seq({"status", "error"}) /\ AtMostOne(<<>>)
    BY Zenon, FirstResult
  <2>6. results' \in [Publishes -> Seq({"status", "error"})]
    BY Zenon, <2>2, <2>3, <2>4, <2>5
  <2>7. \A p \in Publishes : AtMostOne(results'[p])
    BY <2>4, <2>5, Zenon
  <2> QED
    BY Zenon, <1>4, <2>1, <2>6, <2>7
<1>6. ASSUME NEW m, on_unhandled_message(m) PROVE Told'
  <2>1. reading' = "no" /\ UNCHANGED <<state, authCalls, results>>
    BY Zenon, <1>6 DEF on_unhandled_message, client, callbacks
  <2> QED
    BY Zenon, <2>1 DEF Told
<1>7. CASE ReadFailed /\ reading = "unauthenticated"
  <2>1. reading' = "no" /\ UNCHANGED <<state, results>> /\ authCalls' = Append(authCalls, FALSE)
    BY Zenon, <1>7 DEF ReadFailed, client
  <2>2. state = "unauthenticated"
    BY Zenon, <1>1, <1>7
  <2>3. authCalls' \in Refusals
    BY Zenon, <2>1, <2>2, RefusalsGrow DEF Told
  <2> QED
    BY Zenon, <2>1, <2>2, <2>3 DEF Told
<1>8. CASE ReadFailed /\ reading # "unauthenticated"
  <2>1. /\ reading # "no" /\ reading' = "no" /\ UNCHANGED <<state, authCalls>>
        /\ results' = [p \in Publishes |->
                           IF \E h \in publishHandlers : h.publish = p
                           THEN Append(results[p], "error") ELSE results[p]]
    BY Zenon, <1>8 DEF ReadFailed, client
  <2>2. reading = "authenticated"
    BY Zenon, <1>1, <1>8, <2>1 DEF ClientStage
  <2>3. \A p \in Publishes : results[p] = <<>>
    BY Zenon, <2>2 DEF Told
  <2>4. \A p \in Publishes : results'[p] \in {<<>>, Append(<<>>, "error")}
    BY Zenon, <2>1, <2>3
  <2>5. /\ Append(<<>>, "error") \in Seq({"status", "error"}) /\ AtMostOne(Append(<<>>, "error"))
        /\ <<>> \in Seq({"status", "error"}) /\ AtMostOne(<<>>)
    BY Zenon, FirstResult
  <2>6. results' \in [Publishes -> Seq({"status", "error"})]
    BY ZenonT(30), <2>1, <2>4, <2>5
  <2>7. \A p \in Publishes : AtMostOne(results'[p])
    BY <2>4, <2>5, Zenon
  <2> QED
    BY Zenon, <1>4, <2>1, <2>2, <2>6, <2>7
<1> QED
  BY Zenon, <1>2, <1>3, <1>5, <1>6, <1>7, <1>8 DEF ClientReads, Reads

\* A step of the node, or of the connection, tells the application nothing.
LEMMA NodeTellsNothing ==
  ASSUME NodeRuns \/ LookupRuns \/ NodeDisconnected \/ Breaks
           \/ \E w \in nodeWriting : Transmit(w) \/ NodeWritten(w)
  PROVE  UNCHANGED <<state, reading, writing, nsent, nextId, authCalls, results>>
<1>1. UNCHANGED <<state, reading, writing, nextId, authCalls, results>>
  BY ZenonT(30) DEF NodeRuns, LookupRuns, NodeDisconnected, Breaks, Break, Transmit, Deliver, NodeWritten,
         Closes, client, callbacks
<1>2. CASE Breaks \/ \E w \in nodeWriting : Transmit(w)
  BY Zenon, <1>1, <1>2 DEF Breaks, Transmit, node
<1>3. ASSUME NEW w \in nodeWriting, NodeWritten(w) PROVE nsent' = nsent
  BY Zenon, <1>3 DEF NodeWritten, Node!handle_write_result
<1>4. CASE NodeDisconnected
  BY Zenon, <1>1, <1>4 DEF NodeDisconnected, Node!Disconnect, Node!environment
<1>5. CASE LookupRuns
  BY Zenon, <1>1, <1>5 DEF LookupRuns, Node!Driver, Node!QueryFails, Node!after_connect, Node!authCallback,
     Node!Close, Node!after_session_closed, Node!after_result, Node!environment
<1>6. CASE NodeRuns
  BY Zenon, <1>1, <1>6 DEF NodeRuns, Node!Io, Node!start, Node!ReadFails, Node!RunPosted,
     Node!handle_get_challenge_message, Node!JudgeAnswer, Node!LookUpUser, Node!handle_post_message,
     Node!unhandled_message, Node!environment
<1> QED
  BY Zenon, <1>1, <1>2, <1>3, <1>4, <1>5, <1>6

LEMMA ToldStarts ==
  ASSUME SessionInit
  PROVE  Told
<1>1. \A p \in Publishes : AtMostOne(<<>>)
  BY Zenon, FirstResult
<1> QED
  BY <1>1, RefusalsGrow DEF SessionInit, Init, Told

LEMMA ToldStays ==
  ASSUME HandshakeInv, Told, [SessionNext]_allVars
  PROVE  Told'
<1>1. CASE UNCHANGED allVars
  BY Zenon, <1>1, SameTold DEF allVars, vars, client, callbacks, node
<1>2. ASSUME NEW w \in writing, ClientWrites(w) PROVE Told'
  BY Zenon, <1>2, SendTells
<1>3. CASE Application \/ ClientReads
  BY Zenon, <1>3, ApplicationTells, ReadsTell
<1>4. CASE NodeRuns \/ LookupRuns \/ NodeDisconnected \/ Breaks
             \/ \E w \in nodeWriting : Transmit(w) \/ NodeWritten(w)
  BY Zenon, <1>4, SameTold, NodeTellsNothing
<1> QED
  BY Zenon, <1>1, <1>2, <1>3, <1>4 DEF SessionNext

LEMMA ToldOnce ==
  ASSUME Told
  PROVE  SuccessIsFinal /\ PublishCallbackOnce
<1>1. ASSUME NEW i \in 1 .. Len(authCalls), authCalls[i]
      PROVE  Len(authCalls) = 1
  <2>1. ASSUME authCalls \in Refusals PROVE FALSE
    <3>1. authCalls[i] = FALSE
      BY <2>1, RefusalsGrow, Zenon
    <3> QED
      BY <1>1, <3>1, Zenon
  <2>2. authCalls = <<TRUE>>
    BY Zenon, <2>1 DEF Told
  <2> QED
    BY Zenon, <2>2
<1>2. PublishCallbackOnce
  BY Zenon DEF Told, AtMostOne, PublishCallbackOnce
<1> QED
  BY Zenon, <1>1, <1>2 DEF SuccessIsFinal

-----------------------------------------------------------------------------
(***************************************************************************)
(* The node of Session is a ServerSession: its steps keep the invariant    *)
(* that is proved of that module.                                          *)
(***************************************************************************)
Srv == INSTANCE ServerSessionProofs WITH
  MaxMessages <- 2 + Cardinality(Publishes),
  nextId <- nodeNextId, reading <- nodeReading, writing <- nodeWriting, inbox <- nodeInbox

LEMMA NodeIo == Srv!SessionInv /\ Node!Io => Srv!SessionInv'
<1>1. Node!Io => Srv!Io
  BY Zenon
  DEF Node!Io, Node!start, Node!ReadFails, Node!RunPosted, Node!handle_get_challenge_message,
      Node!JudgeAnswer, Node!LookUpUser, Node!handle_post_message, Node!unhandled_message,
      Node!Read, Node!IsGet, Node!IsAnswer, Node!IsPublish, Node!NextRead, Node!Conclude,
      Node!SendAck, Node!environment, Node!lookup, Node!dispatcher, Node!Arriving,
      Srv!Io, Srv!start, Srv!ReadFails, Srv!RunPosted, Srv!handle_get_challenge_message,
      Srv!JudgeAnswer, Srv!LookUpUser, Srv!handle_post_message, Srv!unhandled_message,
      Srv!Read, Srv!IsGet, Srv!IsAnswer, Srv!IsPublish, Srv!NextRead, Srv!Conclude,
      Srv!SendAck, Srv!environment, Srv!lookup, Srv!dispatcher, Srv!Arriving
<1> QED
  BY <1>1, Srv!IoStep, Zenon

LEMMA NodeDriver == Srv!SessionInv /\ Node!Driver => Srv!SessionInv'
<1>1. Node!Driver => Srv!Driver
  BY Zenon
  DEF Node!Driver, Node!QueryFails, Node!after_connect, Node!after_result, Node!authCallback,
      Node!Close, Node!after_session_closed, Node!Verdicts, Node!environment, Node!dispatcher,
      Srv!Driver, Srv!QueryFails, Srv!after_connect, Srv!after_result, Srv!authCallback,
      Srv!Close, Srv!after_session_closed, Srv!Verdicts, Srv!environment, Srv!dispatcher
<1> QED
  BY <1>1, Srv!DriverStep, Zenon

LEMMA NodeWrites ==
  Srv!SessionInv /\ (\E w \in nodeWriting : Node!handle_write_result(w)) => Srv!SessionInv'
<1>1. (\E w \in nodeWriting : Node!handle_write_result(w)) => Srv!Writes
  BY Zenon DEF Srv!Writes, Srv!handle_write_result, Srv!lookup, Srv!dispatcher,
               Node!handle_write_result, Node!lookup, Node!dispatcher
<1> QED
  BY <1>1, Srv!WritesStep, Zenon

LEMMA NodeSame ==
  ASSUME Srv!SessionInv, conn' = conn \/ conn' = "closed",
         UNCHANGED <<nodeReading, nodeWriting, closeAfter, query, toPost, freed, posted>>
  PROVE  Srv!SessionInv'
BY Srv!ConnectionStep, Zenon DEF Srv!lookup

LEMMA NodeInit == Node!Init => Srv!SessionInv
<1>1. Node!Init => Srv!Init
  BY Zenon DEF Node!Init, Srv!Init, Node!NoQuery, Srv!NoQuery
<1> QED
  BY <1>1, Srv!InitSession, Zenon

LEMMA NodeFacts == Srv!SessionInv => NodeInv
BY Zenon
DEF Srv!SessionInv, Srv!ReadInv, Srv!VerdictInv, Srv!QueryInv, Srv!Deciding, Srv!None, Srv!Yes,
    Srv!No, Srv!NoYes, Srv!NoNo, Srv!Unauthenticated, Srv!Authenticated,
    NodeInv, None, Yes, No, NoYes, NoNo, Unauthenticated, Authenticated

LEMMA NodeStays ==
  ASSUME Srv!SessionInv, SessionNext
  PROVE  Srv!SessionInv'
<1>1. CASE NodeRuns
  BY Zenon, <1>1, NodeIo DEF NodeRuns
<1>2. CASE LookupRuns
  BY Zenon, <1>2, NodeDriver DEF LookupRuns
<1>3. CASE \E w \in nodeWriting : NodeWritten(w)
  BY Zenon, <1>3, NodeWrites DEF NodeWritten
<1>4. CASE NodeDisconnected
  <2>1. conn' = "closed" /\ UNCHANGED <<nodeReading, nodeWriting, closeAfter, query, toPost, freed, posted>>
    BY Zenon, <1>4 DEF NodeDisconnected, Node!Disconnect, Node!dispatcher, Node!lookup
  <2> QED
    BY Zenon, <2>1, NodeSame
<1>5. CASE Application \/ ClientReads \/ Breaks \/ \E w \in nodeWriting : Transmit(w)
  <2>1. conn' = conn /\ UNCHANGED <<nodeReading, nodeWriting, closeAfter, query, toPost, freed, posted>>
    BY Zenon, <1>5 DEF Application, ClientReads, Breaks, Transmit, node
  <2> QED
    BY Zenon, <2>1, NodeSame
<1>6. CASE \E w \in writing : ClientWrites(w)
  <2>1. conn' = conn /\ UNCHANGED <<nodeReading, nodeWriting, closeAfter, query, toPost, freed, posted>>
    BY Zenon, <1>6 DEF ClientWrites, Node!ClientSends, Node!dispatcher, Node!lookup, node
  <2> QED
    BY Zenon, <2>1, NodeSame
<1> QED
  BY <1>1, <1>2, <1>3, <1>4, <1>5, <1>6 DEF SessionNext

BothInv == Srv!SessionInv /\ HandshakeInv

LEMMA InitHandshake == SessionInit => BothInv
<1>1. SessionInit => Srv!SessionInv
  BY Zenon, NodeInit DEF SessionInit
<1> QED
  BY Zenon, <1>1, HandshakeStarts DEF BothInv

LEMMA StepHandshake == BothInv /\ [SessionNext]_allVars => BothInv'
<1> SUFFICES ASSUME BothInv, [SessionNext]_allVars PROVE BothInv'
  BY Zenon
<1>1. NodeInv /\ HandshakeInv /\ Srv!SessionInv
  BY Zenon, NodeFacts DEF BothInv
<1>2. HandshakeInv'
  BY Zenon, <1>1, HandshakeStays
<1>3. CASE SessionNext
  BY Zenon, <1>1, <1>2, <1>3, NodeStays DEF BothInv
<1>4. CASE UNCHANGED allVars
  <2>1. conn' = conn /\ UNCHANGED <<nodeReading, nodeWriting, closeAfter, query, toPost, freed, posted>>
    BY Zenon, <1>4 DEF allVars, node
  <2> QED
    BY Zenon, <1>1, <1>2, <2>1, NodeSame DEF BothInv
<1> QED
  BY Zenon, <1>3, <1>4

\* Both sides of a session keep what the two know of each other.
THEOREM SessionInvariant == SessionSpec => []BothInv
BY InitHandshake, StepHandshake, PTL DEF SessionSpec

(***************************************************************************)
(* Neither side takes the other to violate the protocol: the client has    *)
(* the handler for the message that it reads next, in the state whose      *)
(* dispatcher reads it, and so has the node, however many publishes there  *)
(* are and whenever the connection is lost.                                *)
(***************************************************************************)
THEOREM SidesExpectEachOther == SessionSpec => []NoViolation
<1>1. BothInv => NoViolation
  BY Zenon, NodeFacts, NextIsExpected DEF BothInv
<1> QED
  BY <1>1, SessionInvariant, PTL

(***************************************************************************)
(* A session is authenticated only after the one verdict of its node was   *)
(* positive, and a node whose connection is open then reads publishes,     *)
(* also for a user for whom userLookupCb gives two verdicts.               *)
(***************************************************************************)
THEOREM SidesAgreeOnVerdict == SessionSpec => []VerdictsAgree
<1>1. BothInv => VerdictsAgree
  BY Zenon, VerdictsKnown DEF BothInv
<1> QED
  BY <1>1, SessionInvariant, PTL

LEMMA ToldAlways == SessionSpec => []Told
<1>1. BothInv /\ Told /\ [SessionNext]_allVars => Told'
  BY Zenon, ToldStays DEF BothInv
<1> QED
  BY <1>1, ToldStarts, SessionInvariant, PTL DEF SessionSpec

(***************************************************************************)
(* An application that was told it is authenticated is not told otherwise, *)
(* also by a node whose lookup gives two verdicts, however the failures of *)
(* the reads and writes of the handshake fall.                             *)
(***************************************************************************)
THEOREM SuccessIsFinalWithNode == SessionSpec => []SuccessIsFinal
<1>1. Told => SuccessIsFinal
  BY Zenon, ToldOnce
<1> QED
  BY <1>1, ToldAlways, PTL

(***************************************************************************)
(* The callback of a publish is called at most once with the node of       *)
(* ServerSession, for any number of publishes and responses.               *)
(***************************************************************************)
THEOREM PublishCallbackOnceWithNode == SessionSpec => []PublishCallbackOnce
<1>1. Told => PublishCallbackOnce
  BY Zenon, ToldOnce
<1> QED
  BY <1>1, ToldAlways, PTL

(***************************************************************************)
(* What ServerSession promises of the node's side holds with the client's  *)
(* side in place of the clients it assumes.  That client may answer a      *)
(* challenge before the node's callback of the write of it has run, which  *)
(* a client of ServerSession does not.                                     *)
(***************************************************************************)
THEOREM NodeKeepsInSession ==
  SessionSpec => [](Node!ReadsDoNotOverlap /\ Node!NeverStranded /\ Node!QueryFreedOnce)
<1>1. Srv!SessionInv => Node!ReadsDoNotOverlap
  <2> SUFFICES ASSUME Srv!SessionInv PROVE Node!ReadsDoNotOverlap
    BY Zenon
  <2>1. nodeReading \in {None, Unauthenticated, Authenticated}
    BY Zenon, NodeFacts DEF NodeInv
  <2>2. Len(None) = 0 /\ Len(Unauthenticated) = 1 /\ Len(Authenticated) = 1
    BY Zenon DEF None, Unauthenticated, Authenticated
  <2>3. Len(nodeReading) \in {0, 1}
    BY <2>1, <2>2, Zenon
  <2>4. \A n \in {0, 1} : n <= 1
    OBVIOUS
  <2> QED
    BY <2>3, <2>4, Zenon DEF Node!ReadsDoNotOverlap
<1>2. Srv!SessionInv => Node!NeverStranded
  BY Zenon DEF Srv!SessionInv, Srv!NeverStranded, Srv!Deciding, Srv!ClosingWrite,
               Node!NeverStranded, Node!Deciding, Node!ClosingWrite
<1>3. Srv!SessionInv => Node!QueryFreedOnce
  <2> SUFFICES ASSUME Srv!SessionInv PROVE Node!QueryFreedOnce
    BY Zenon
  <2>1. freed = IF query.at = "done" THEN 1 ELSE 0
    BY Zenon DEF Srv!SessionInv, Srv!QueryInv
  <2>2. freed <= 1 /\ (freed = 1 => query.at = "done")
    BY <2>1
  <2>3. query.at = "done" => ~query.session
    BY Zenon DEF Srv!SessionInv, Srv!QueryInv
  <2> QED
    BY <2>2, <2>3, Zenon DEF Node!QueryFreedOnce
<1> QED
  BY <1>1, <1>2, <1>3, SessionInvariant, PTL DEF BothInv

(***************************************************************************)
(* userLookupCb may give two verdicts, so that one answer is acknowledged  *)
(* twice (AcknowledgedOnce does not hold).  It is never acknowledged more  *)
(* often, and after a first verdict that is positive there is no other.    *)
(***************************************************************************)
THEOREM PositiveVerdictIsFinal == SessionSpec => []VerdictsBounded
<1>1. BothInv => VerdictsBounded
  BY Zenon, VerdictsAreBounded DEF BothInv
<1> QED
  BY <1>1, SessionInvariant, PTL
=============================================================================
