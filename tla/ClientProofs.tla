---------------------------- MODULE ClientProofs ----------------------------
(***************************************************************************)
(* Proofs about the client: its connection to the cluster (Connecting) and *)
(* the session it then has (ClientSession).                                *)
(*                                                                         *)
(* Connecting, for any endpoints, calls of connect, failures and errors of *)
(* accept.  The lists of the cluster are a partition together with the     *)
(* types and the backoff of an endpoint that failed n times, which         *)
(* mark_failed gives it and mark_up takes away.  The accept loop has one   *)
(* accept under way because nothing completes before start has called      *)
(* accept_new.                                                             *)
(*                                                                         *)
(* ClientSession, for any set of publishes, any number of responses to     *)
(* each, and connections that break or do not.  The handshake is one       *)
(* token: the request that is being written, the request the node has, or  *)
(* the reply on its way back (TokenInv).  What the application was told    *)
(* follows from where the token is (AuthInv), and the handler for a reply  *)
(* is there as long as the token is (HandlerInv).                          *)
(***************************************************************************)
EXTENDS Connecting, ClientSession, TLAPS
-----------------------------------------------------------------------------
(***************************************************************************)
(* ClientSession.                                                          *)
(***************************************************************************)
Asked ==
  [type : {"GetChallenge"}, id : Nat]
    \cup [type : {"AnswerChallenge"}, id : Nat, re : Nat]
    \cup [type : {"Publish"}, id : Nat, publish : Publishes]

Answers ==
  [type : {"ChallengeResponse", "PublishResponse", "Gossip"}, id : Nat, re : Nat]
    \cup [type : {"AuthAck"}, id : Nat, re : Nat, authorized : BOOLEAN]

\* The types of what the argument is about.
Types ==
  /\ state \in {"none", "unauthenticated", "authenticated"}
  /\ reading \in {"no", "unauthenticated", "authenticated"}
  /\ nextId \in Nat
  /\ publishHandlers \subseteq [id : Nat, publish : Publishes]
  /\ writing \subseteq Asked /\ requests \subseteq Asked
  /\ inbox \in Seq(Answers)
  /\ results \in [Publishes -> Seq({"status", "error"})]

\* The callback of a publish has run, and nothing will be read any more.
PublishInv ==
  \A p \in Publishes :
    \/ results[p] = <<>>
    \/ Len(results[p]) = 1 /\ state = "authenticated" /\ reading = "no"

IsReply(m) == m.type = "ChallengeResponse" \/ m.type = "AuthAck"
NoReply(s) == \A i \in 1 .. Len(s) : ~IsReply(s[i])
OneReply(s) == \A i, j \in 1 .. Len(s) : IsReply(s[i]) /\ IsReply(s[j]) => i = j
NoneOf(S) == \A x \in S : x.type = "Publish"
OneOf(S) == \A x, y \in S : x.type # "Publish" /\ y.type # "Publish" => x = y

TokenInv ==
  /\ OneOf(writing) /\ OneOf(requests) /\ OneReply(inbox)
  /\ NoneOf(writing) \/ (NoneOf(requests) /\ NoReply(inbox))
  /\ NoneOf(requests) \/ NoReply(inbox)

\* There is no token.
Idle == NoneOf(writing) /\ NoneOf(requests) /\ NoReply(inbox)

Granted == <<TRUE>>
Refusals == Seq({FALSE})

AuthInv ==
  /\ reading = "unauthenticated" => state = "unauthenticated"
  /\ reading = "authenticated" => state = "authenticated"
  /\ reading = "unauthenticated" => authCalls = <<>> \/ Idle
  /\ state = "none" => Idle /\ authCalls = <<>>
  /\ state = "authenticated" => Idle /\ authCalls = Granted
  /\ state # "authenticated" => authCalls \in Refusals

HasHandler(id) == \E h \in publishHandlers : h.id = id

Expected(m) ==
  /\ m.type = "ChallengeResponse" => m.re \in challengeHandlers
  /\ m.type = "AuthAck" => m.re \in ackHandlers
  /\ m.type = "PublishResponse" => HasHandler(m.re)

WillBeExpected(w) ==
  /\ w.type = "GetChallenge" => w.id \in challengeHandlers
  /\ w.type = "AnswerChallenge" => w.id \in ackHandlers

HandlerInv ==
  /\ \A w \in writing : WillBeExpected(w)
  /\ \A r \in requests : WillBeExpected(r) /\ (r.type = "Publish" => HasHandler(r.id))
  /\ \A i \in 1 .. Len(inbox) : Expected(inbox[i])
  /\ state # "authenticated" => publishHandlers = {} /\ \A w \in writing : w.type # "Publish"

ClientInv == Types /\ PublishInv /\ TokenInv /\ AuthInv /\ HandlerInv

-----------------------------------------------------------------------------
LEMMA AppendReplies ==
  ASSUME NEW s \in Seq(Answers), NEW m \in Answers
  PROVE  /\ Append(s, m) \in Seq(Answers)
         /\ ~IsReply(m) /\ NoReply(s) => NoReply(Append(s, m))
         /\ ~IsReply(m) /\ OneReply(s) => OneReply(Append(s, m))
         /\ NoReply(s) => OneReply(Append(s, m))
         /\ \A i \in 1 .. Len(Append(s, m)) :
              Append(s, m)[i] = m \/ \E j \in 1 .. Len(s) : Append(s, m)[i] = s[j]
<1> DEFINE t == Append(s, m)
<1>1. /\ t \in Seq(Answers) /\ Len(t) = Len(s) + 1 /\ Len(s) \in Nat
      /\ t[Len(s) + 1] = m /\ \A i \in 1 .. Len(s) : t[i] = s[i]
  OBVIOUS
<1> HIDE DEF t
<1>2. \A i \in 1 .. Len(t) : i = Len(s) + 1 \/ i \in 1 .. Len(s)
  BY <1>1
<1>3. ~IsReply(m) /\ NoReply(s) => NoReply(t)
  BY Zenon, <1>1, <1>2 DEF NoReply
<1>4. ~IsReply(m) /\ OneReply(s) => OneReply(t)
  BY Zenon, <1>1, <1>2 DEF OneReply
<1>5. NoReply(s) => OneReply(t)
  BY Zenon, <1>1, <1>2 DEF NoReply, OneReply
<1>6. \A i \in 1 .. Len(t) : t[i] = m \/ \E j \in 1 .. Len(s) : t[i] = s[j]
  BY Zenon, <1>1, <1>2
<1> QED BY Zenon, <1>1, <1>3, <1>4, <1>5, <1>6 DEF t

LEMMA TailReplies ==
  ASSUME NEW s \in Seq(Answers), s # <<>>
  PROVE  /\ Tail(s) \in Seq(Answers) /\ Head(s) \in Answers
         /\ NoReply(s) => NoReply(Tail(s)) /\ ~IsReply(Head(s))
         /\ OneReply(s) => OneReply(Tail(s))
         /\ OneReply(s) /\ IsReply(Head(s)) => NoReply(Tail(s))
         /\ \A i \in 1 .. Len(Tail(s)) : \E j \in 1 .. Len(s) : Tail(s)[i] = s[j]
         /\ \E j \in 1 .. Len(s) : Head(s) = s[j]
<1> DEFINE t == Tail(s)
<1>1. /\ t \in Seq(Answers) /\ Head(s) \in Answers
      /\ Len(s) \in Nat /\ Len(t) = Len(s) - 1 /\ Len(t) \in Nat
      /\ \A i \in 1 .. Len(t) : t[i] = s[i + 1]
  OBVIOUS
<1>2. Head(s) = s[1]
  OBVIOUS
<1> HIDE DEF t
<1>3. 1 \in 1 .. Len(s) /\ \A i \in 1 .. Len(t) : i + 1 \in 1 .. Len(s) /\ i + 1 # 1
  BY <1>1
<1>4. NoReply(s) => NoReply(t) /\ ~IsReply(Head(s))
  BY Zenon, <1>1, <1>2, <1>3 DEF NoReply
<1>5. OneReply(s) => OneReply(t)
  <2> SUFFICES ASSUME OneReply(s), NEW i \in 1 .. Len(t), NEW j \in 1 .. Len(t),
                      IsReply(t[i]), IsReply(t[j])
               PROVE  i = j
    BY Zenon DEF OneReply
  <2>1. i + 1 = j + 1
    BY Zenon, <1>1, <1>3 DEF OneReply
  <2> QED BY <1>1, <2>1
<1>6. OneReply(s) /\ IsReply(Head(s)) => NoReply(t)
  BY Zenon, <1>1, <1>2, <1>3 DEF OneReply, NoReply
<1>7. /\ \A i \in 1 .. Len(t) : \E j \in 1 .. Len(s) : t[i] = s[j]
      /\ \E j \in 1 .. Len(s) : Head(s) = s[j]
  BY Zenon, <1>1, <1>2, <1>3
<1> QED BY Zenon, <1>1, <1>4, <1>5, <1>6, <1>7 DEF t

LEMMA RefusalFacts ==
  /\ <<>> \in Refusals /\ Granted # <<>> /\ Append(<<>>, TRUE) = Granted
  /\ \A c \in Refusals : Append(c, FALSE) \in Refusals
  /\ \A c \in Refusals : \A i \in 1 .. Len(c) : c[i] = FALSE
<1>1. \A x \in BOOLEAN : <<x>> # <<>> /\ Append(<<>>, x) = <<x>>
  OBVIOUS
<1>2. Granted # <<>> /\ Append(<<>>, TRUE) = Granted
  <2>1. TRUE \in BOOLEAN
    BY Zenon
  <2> QED BY <1>1, <2>1, Zenon DEF Granted
<1>3. <<>> \in Refusals
  BY DEF Refusals
<1>4. \A x : \A c \in Seq({x}) : Append(c, x) \in Seq({x}) /\ \A i \in 1 .. Len(c) : c[i] = x
  OBVIOUS
<1>5. \A c \in Refusals : Append(c, FALSE) \in Refusals
  BY <1>4, Zenon DEF Refusals
<1>6. \A c \in Refusals : \A i \in 1 .. Len(c) : c[i] = FALSE
  BY <1>4, Zenon DEF Refusals
<1> QED BY <1>2, <1>3, <1>5, <1>6, Zenon

-----------------------------------------------------------------------------
LEMMA InitClient == Init => ClientInv
<1> SUFFICES ASSUME Init PROVE ClientInv
  BY Zenon
<1>1. Types /\ PublishInv
  BY DEF Init, Types, PublishInv
<1>2. Idle /\ TokenInv /\ HandlerInv
  BY DEF Init, Idle, TokenInv, HandlerInv, NoneOf, OneOf, NoReply, OneReply
<1>3. AuthInv
  BY <1>2, RefusalFacts, Zenon DEF Init, AuthInv
<1> QED BY Zenon, <1>1, <1>2, <1>3 DEF ClientInv

\* The steps that put a message into the inbox and change nothing the
\* application sees.
LEMMA DeliverStep ==
  ASSUME ClientInv, NEW m \in Answers, Deliver(m), requests' \subseteq requests,
         Expected(m),
         IsReply(m) => ~NoneOf(requests) /\ NoneOf(requests')
  PROVE  ClientInv'
<1> USE DEF ClientInv
<1>1. /\ inbox' = Append(inbox, m)
      /\ state' = state /\ reading' = reading /\ nextId' = nextId /\ writing' = writing
      /\ challengeHandlers' = challengeHandlers /\ ackHandlers' = ackHandlers
      /\ publishHandlers' = publishHandlers /\ authCalls' = authCalls /\ results' = results
  BY Zenon DEF Deliver, client, callbacks
<1>2. /\ inbox' \in Seq(Answers)
      /\ ~IsReply(m) /\ NoReply(inbox) => NoReply(inbox')
      /\ ~IsReply(m) => OneReply(inbox')
      /\ NoReply(inbox) => OneReply(inbox')
      /\ \A i \in 1 .. Len(inbox') :
           inbox'[i] = m \/ \E j \in 1 .. Len(inbox) : inbox'[i] = inbox[j]
  BY Zenon, <1>1, AppendReplies DEF Types, TokenInv
<1>3. Types' /\ PublishInv'
  BY Zenon, <1>1, <1>2 DEF Types, PublishInv
<1>4. NoneOf(requests) => NoneOf(requests')
  BY Zenon DEF NoneOf
<1>5. NoneOf(writing)' = NoneOf(writing) /\ OneOf(writing)' = OneOf(writing) /\ OneOf(requests')
  BY Zenon, <1>1 DEF NoneOf, OneOf, TokenInv
<1>6. IsReply(m) => NoReply(inbox) /\ NoneOf(writing)
  BY Zenon DEF TokenInv
<1>7. TokenInv'
  BY <1>2, <1>4, <1>5, <1>6, Zenon DEF TokenInv
<1>8. Idle => Idle'
  BY <1>2, <1>4, <1>5, Zenon DEF Idle
<1>9. AuthInv'
  BY <1>1, <1>8, Zenon DEF AuthInv
<1>10. \A x : Expected(x)' = Expected(x) /\ WillBeExpected(x)' = WillBeExpected(x)
  BY <1>1, Zenon DEF Expected, WillBeExpected, HasHandler
<1>11. \A i \in 1 .. Len(inbox') : Expected(inbox'[i])
  BY <1>2, Zenon DEF HandlerInv
<1>12. HandlerInv'
  BY <1>1, <1>10, <1>11, Zenon DEF HandlerInv, HasHandler
<1> QED BY Zenon, <1>3, <1>7, <1>9, <1>12

LEMMA NodeStep ==
  ClientInv /\ (\/ \E r \in requests : NodeAnswers(r)
                \/ \E h \in publishHandlers : NodeAnswersAgain(h)
                \/ NodeStrays) => ClientInv'
<1> SUFFICES ASSUME ClientInv,
                    \/ \E r \in requests : NodeAnswers(r)
                    \/ \E h \in publishHandlers : NodeAnswersAgain(h)
                    \/ NodeStrays
             PROVE  ClientInv'
  BY Zenon
<1>1. ASSUME NEW r \in requests, NodeAnswers(r) PROVE ClientInv'
  <2>1. r \in Asked /\ r.id \in Nat
    BY Zenon DEF ClientInv, Types, Asked
  <2>2. requests' = requests \ {r} /\ requests' \subseteq requests
    BY Zenon, <1>1 DEF NodeAnswers
  <2>3. r.type # "Publish" => ~NoneOf(requests) /\ NoneOf(requests')
    BY <2>2, Zenon DEF NoneOf, OneOf, ClientInv, TokenInv
  <2>4. WillBeExpected(r) /\ (r.type = "Publish" => HasHandler(r.id))
    BY Zenon DEF ClientInv, HandlerInv
  <2>5. CASE r.type = "GetChallenge"
    <3> DEFINE m == Reply("ChallengeResponse", r.id)
    <3>1. m \in Answers /\ m.type = "ChallengeResponse" /\ m.re = r.id
      BY Zenon, <2>1 DEF Reply, Answers
    <3>2. Deliver(m)
      BY Zenon, <1>1, <2>5 DEF NodeAnswers
    <3> HIDE DEF m
    <3>3. Expected(m)
      BY Zenon, <2>4, <2>5, <3>1 DEF Expected, WillBeExpected
    <3> QED BY Zenon, <2>2, <2>3, <2>5, <3>1, <3>2, <3>3, DeliverStep
  <2>6. CASE r.type = "AnswerChallenge"
    <3>1. PICK ok \in BOOLEAN :
            Deliver([type |-> "AuthAck", id |-> r.id, re |-> r.id, authorized |-> ok])
      BY <1>1, <2>6, Zenon DEF NodeAnswers
    <3> DEFINE m == [type |-> "AuthAck", id |-> r.id, re |-> r.id, authorized |-> ok]
    <3>2. m \in Answers /\ m.type = "AuthAck" /\ m.re = r.id
      BY Zenon, <2>1 DEF Answers
    <3>3. Deliver(m)
      BY Zenon, <3>1
    <3> HIDE DEF m
    <3>4. Expected(m)
      BY Zenon, <2>4, <2>6, <3>2 DEF Expected, WillBeExpected
    <3> QED BY Zenon, <2>2, <2>3, <2>6, <3>2, <3>3, <3>4, DeliverStep
  <2>7. CASE r.type = "Publish"
    <3> DEFINE m == Reply("PublishResponse", r.id)
    <3>1. m \in Answers /\ m.type = "PublishResponse" /\ m.re = r.id
      BY Zenon, <2>1 DEF Reply, Answers
    <3>2. Deliver(m)
      BY Zenon, <1>1, <2>7 DEF NodeAnswers
    <3> HIDE DEF m
    <3>3. Expected(m) /\ ~IsReply(m)
      BY Zenon, <2>4, <2>7, <3>1 DEF Expected, IsReply
    <3> QED BY Zenon, <2>2, <3>1, <3>2, <3>3, DeliverStep
  <2> QED BY Zenon, <1>1, <2>5, <2>6, <2>7 DEF NodeAnswers
<1>2. ASSUME NEW h \in publishHandlers, NodeAnswersAgain(h) PROVE ClientInv'
  <2> DEFINE m == Reply("PublishResponse", h.id)
  <2>1. h.id \in Nat
    BY Zenon DEF ClientInv, Types
  <2>2. m \in Answers /\ m.type = "PublishResponse" /\ m.re = h.id
    BY Zenon, <2>1 DEF Reply, Answers
  <2>3. Deliver(m) /\ requests' = requests
    BY Zenon, <1>2 DEF NodeAnswersAgain
  <2> HIDE DEF m
  <2>4. Expected(m) /\ ~IsReply(m)
    BY Zenon, <2>2 DEF Expected, HasHandler, IsReply
  <2> QED BY Zenon, <2>2, <2>3, <2>4, DeliverStep
<1>3. CASE NodeStrays
  <2> DEFINE m == Reply("Gossip", 0)
  <2>1. m \in Answers /\ m.type = "Gossip"
    BY Zenon DEF Reply, Answers
  <2>2. Deliver(m) /\ requests' = requests
    BY Zenon, <1>3 DEF NodeStrays
  <2> HIDE DEF m
  <2>3. Expected(m) /\ ~IsReply(m)
    BY Zenon, <2>1 DEF Expected, IsReply
  <2> QED BY Zenon, <2>1, <2>2, <2>3, DeliverStep
<1> QED BY Zenon, <1>1, <1>2, <1>3

-----------------------------------------------------------------------------
\* What a message that was read tells of the rest.
LEMMA ReceivedFacts ==
  ASSUME ClientInv, NEW m, Received(m)
  PROVE  /\ m \in Answers /\ Expected(m) /\ reading # "no"
         /\ inbox' \in Seq(Answers) /\ OneReply(inbox')
         /\ IsReply(m) => NoReply(inbox') /\ NoneOf(writing) /\ NoneOf(requests) /\ ~Idle
         /\ NoReply(inbox) => NoReply(inbox')
         /\ \A i \in 1 .. Len(inbox') : Expected(inbox'[i])
<1> USE DEF ClientInv
<1>1. inbox # <<>> /\ m = Head(inbox) /\ inbox' = Tail(inbox) /\ inbox \in Seq(Answers)
  BY Zenon DEF Received, Types
<1>2. /\ m \in Answers /\ inbox' \in Seq(Answers)
      /\ NoReply(inbox) => NoReply(inbox') /\ ~IsReply(m)
      /\ OneReply(inbox) => OneReply(inbox')
      /\ OneReply(inbox) /\ IsReply(m) => NoReply(inbox')
      /\ \A i \in 1 .. Len(inbox') : \E j \in 1 .. Len(inbox) : inbox'[i] = inbox[j]
      /\ \E j \in 1 .. Len(inbox) : m = inbox[j]
  BY Zenon, <1>1, TailReplies
<1>3. Expected(m) /\ \A i \in 1 .. Len(inbox') : Expected(inbox'[i])
  BY <1>2, Zenon DEF HandlerInv
<1>4. IsReply(m) => NoneOf(writing) /\ NoneOf(requests) /\ ~Idle
  BY <1>2, Zenon DEF TokenInv, Idle
<1>5. reading # "no"
  BY Zenon DEF Received
<1> QED BY <1>2, <1>3, <1>4, <1>5, Zenon DEF TokenInv

LEMMA ReadStep == ClientInv /\ Reads => ClientInv'
<1> SUFFICES ASSUME ClientInv, Reads PROVE ClientInv'
  BY Zenon
<1> USE DEF ClientInv
<1>1. ASSUME NEW m, on_challenge_response(m) PROVE ClientInv'
  <2>0. Received(m) /\ IsChallenge(m)
    BY Zenon, <1>1 DEF on_challenge_response
  <2>1. /\ reading = "unauthenticated" /\ state = "unauthenticated" /\ authCalls = <<>>
        /\ m.id \in Nat /\ IsReply(m) /\ publishHandlers = {} /\ \A w \in writing : w.type # "Publish"
    BY Zenon, <2>0, ReceivedFacts DEF IsChallenge, AuthInv, IsReply, HandlerInv, Answers
  <2>2. /\ nextId' = nextId + 1 /\ ackHandlers' = ackHandlers \cup {nextId'}
        /\ challengeHandlers' = challengeHandlers \ {0}
        /\ writing' = writing \cup {Answer(nextId', m.id)} /\ reading' = "unauthenticated"
        /\ state' = state /\ publishHandlers' = publishHandlers /\ requests' = requests
        /\ authCalls' = authCalls /\ results' = results
    BY Zenon, <1>1 DEF on_challenge_response, get_next_id, set_handler, send_message, callbacks
  <2>3. writing = {} /\ NoneOf(requests) /\ NoReply(inbox') /\ inbox' \in Seq(Answers)
    BY Zenon, <2>0, <2>1, ReceivedFacts DEF NoneOf
  <2>4. /\ Answer(nextId', m.id) \in Asked /\ Answer(nextId', m.id).type = "AnswerChallenge"
        /\ Answer(nextId', m.id).id = nextId'
    BY <2>1, <2>2 DEF Types, Asked, Answer
  <2>5. Types' /\ PublishInv'
    BY <2>1, <2>2, <2>3, <2>4 DEF Types, PublishInv
  <2>6. NoneOf(requests') /\ OneOf(writing') /\ OneOf(requests') /\ OneReply(inbox')
    BY Zenon, <2>2, <2>3 DEF NoneOf, OneOf, NoReply, OneReply
  <2>7. TokenInv'
    BY <2>3, <2>6, Zenon DEF TokenInv
  <2>8. AuthInv'
    BY <2>1, <2>2, Zenon DEF AuthInv
  <2>9. \A i \in 1 .. Len(inbox') : Expected(inbox'[i]) /\ ~IsReply(inbox'[i])
    BY <2>0, <2>3, ReceivedFacts, Zenon DEF NoReply
  <2>e. \A x : Expected(x) /\ ~IsReply(x) => Expected(x)'
    BY <2>2, Zenon DEF Expected, HasHandler, IsReply
  <2>10. \A r \in requests' : r.type = "Publish" /\ HasHandler(r.id)'
    BY <2>2, <2>6, Zenon DEF NoneOf, HandlerInv, HasHandler
  <2>11. \A w \in writing' : w.type = "AnswerChallenge" /\ w.id \in ackHandlers'
    BY Zenon, <2>2, <2>3, <2>4
  <2>12. (\A i \in 1 .. Len(inbox) : Expected(inbox[i]))'
    BY <2>9, <2>e, Zenon
  <2>13. (\A w \in writing : WillBeExpected(w))'
    BY Zenon, <2>11 DEF WillBeExpected
  <2>14. (\A r \in requests : WillBeExpected(r) /\ (r.type = "Publish" => HasHandler(r.id)))'
    BY Zenon, <2>10 DEF WillBeExpected
  <2>15. HandlerInv'
    BY Zenon, <2>1, <2>2, <2>11, <2>12, <2>13, <2>14 DEF HandlerInv
  <2> QED BY Zenon, <2>5, <2>7, <2>8, <2>15
<1>2. ASSUME NEW m, on_auth_ack(m) PROVE ClientInv'
  <2>0. Received(m) /\ IsAck(m)
    BY Zenon, <1>2 DEF on_auth_ack
  <2>1. /\ reading = "unauthenticated" /\ state = "unauthenticated" /\ authCalls = <<>>
        /\ IsReply(m) /\ publishHandlers = {}
    BY Zenon, <2>0, ReceivedFacts DEF IsAck, AuthInv, IsReply, HandlerInv
  <2>2. m.authorized \in BOOLEAN
    BY <2>0, ReceivedFacts DEF IsAck, Answers
  <2>3. on_auth_status(m.authorized)
    BY <1>2, Zenon DEF on_auth_ack
  <2>4. /\ nextId' = nextId /\ ackHandlers' = ackHandlers /\ challengeHandlers' = challengeHandlers
        /\ publishHandlers' = publishHandlers /\ writing' = writing /\ requests' = requests
        /\ results' = results
    BY <1>2, Zenon DEF on_auth_ack
  <2>5. /\ \/ state' = "authenticated" /\ reading' = "authenticated" /\ authCalls' = Granted
           \/ state' = "unauthenticated" /\ reading' = "no" /\ authCalls' \in Refusals
    BY <2>1, <2>2, <2>3, RefusalFacts, Zenon DEF on_auth_status
  <2>6. NoneOf(writing') /\ NoneOf(requests') /\ NoReply(inbox') /\ OneReply(inbox') /\ inbox' \in Seq(Answers)
    BY Zenon, <2>0, <2>1, <2>4, ReceivedFacts DEF NoneOf
  <2>7. \A p \in Publishes : results[p] = <<>>
    BY Zenon, <2>1 DEF PublishInv
  <2>8. Types' /\ PublishInv'
    BY Zenon, <2>4, <2>5, <2>6, <2>7 DEF Types, PublishInv
  <2>9. Idle' /\ TokenInv'
    BY Zenon, <2>4, <2>6 DEF Idle, TokenInv, OneOf
  <2>10. AuthInv'
    BY <2>5, <2>9, Zenon DEF AuthInv
  <2>11. \A x : Expected(x)' = Expected(x) /\ WillBeExpected(x)' = WillBeExpected(x)
    BY <2>4, Zenon DEF Expected, WillBeExpected, HasHandler
  <2>e. \A i \in 1 .. Len(inbox') : Expected(inbox'[i])
    BY <2>0, ReceivedFacts, Zenon
  <2>w. \A w \in writing : w.type # "Publish"
    BY Zenon, <2>1 DEF HandlerInv
  <2>12. HandlerInv'
    BY <2>1, <2>4, <2>11, <2>e, <2>w, Zenon DEF HandlerInv, HasHandler
  <2> QED BY Zenon, <2>8, <2>9, <2>10, <2>12
<1>same. ASSUME reading # "no", reading' = "no", inbox' \in Seq(Answers), OneReply(inbox'),
                NoReply(inbox) => NoReply(inbox'),
                \A i \in 1 .. Len(inbox') : Expected(inbox'[i]),
                UNCHANGED <<client, writing, requests>>
         PROVE  /\ TokenInv' /\ HandlerInv' /\ (Idle => Idle') /\ state' = state
                /\ (results' \in [Publishes -> Seq({"status", "error"})] => Types')
  <2>1. /\ nextId' = nextId /\ ackHandlers' = ackHandlers /\ challengeHandlers' = challengeHandlers
        /\ publishHandlers' = publishHandlers /\ writing' = writing /\ requests' = requests
        /\ state' = state
    BY Zenon, <1>same DEF client
  <2>2. (Idle => Idle') /\ TokenInv'
    BY Zenon, <1>same, <2>1 DEF Idle, TokenInv, NoneOf, OneOf
  <2>3. HandlerInv'
    BY Zenon, <1>same, <2>1 DEF HandlerInv, Expected, WillBeExpected, HasHandler
  <2> QED BY Zenon, <1>same, <2>1, <2>2, <2>3 DEF Types
<1>3. ASSUME NEW m, OnPublishResponse(m) PROVE ClientInv'
  <2>0. Received(m) /\ IsResponse(m) /\ reading' = "no"
    BY Zenon, <1>3 DEF OnPublishResponse
  <2>1. reading = "authenticated" /\ state = "authenticated" /\ \A p \in Publishes : results[p] = <<>>
    BY Zenon, <2>0 DEF IsResponse, AuthInv, PublishInv
  <2>2. PICK h \in publishHandlers : results' = [results EXCEPT ![h.publish] = Append(@, "status")]
    BY Zenon, <1>3 DEF OnPublishResponse
  <2>3. \A p \in Publishes : results'[p] = <<>> \/ Len(results'[p]) = 1
    <3>1. Len(Append(<<>>, "status")) = 1
      OBVIOUS
    <3> QED BY Zenon, <2>1, <2>2, <3>1 DEF Types
  <2>4. results' \in [Publishes -> Seq({"status", "error"})]
    BY <2>1, <2>2 DEF Types
  <2>5. /\ TokenInv' /\ HandlerInv' /\ (Idle => Idle') /\ state' = state /\ Types'
    BY Zenon, <1>3, <2>0, <2>4, ReceivedFacts, <1>same DEF OnPublishResponse
  <2>6. PublishInv'
    BY Zenon, <2>0, <2>1, <2>3, <2>5 DEF PublishInv
  <2>7. authCalls' = authCalls
    BY Zenon, <1>3 DEF OnPublishResponse
  <2>8. AuthInv'
    BY <2>0, <2>1, <2>5, <2>7, Zenon DEF AuthInv
  <2> QED BY Zenon, <2>5, <2>6, <2>8
<1>4. ASSUME NEW m, on_unhandled_message(m) PROVE ClientInv'
  <2>0. Received(m) /\ reading' = "no" /\ results' = results /\ authCalls' = authCalls
    BY Zenon, <1>4 DEF on_unhandled_message, callbacks
  <2>1. reading # "no" /\ \A p \in Publishes : results[p] = <<>>
    BY Zenon, <2>0, ReceivedFacts DEF PublishInv
  <2>2. results' \in [Publishes -> Seq({"status", "error"})]
    BY Zenon, <2>0 DEF Types
  <2>3. /\ TokenInv' /\ HandlerInv' /\ (Idle => Idle') /\ state' = state /\ Types'
    BY Zenon, <1>4, <2>0, <2>2, ReceivedFacts, <1>same DEF on_unhandled_message
  <2>4. PublishInv'
    BY Zenon, <2>0, <2>1 DEF PublishInv
  <2>5. AuthInv'
    BY <2>0, <2>3, Zenon DEF AuthInv
  <2> QED BY Zenon, <2>3, <2>4, <2>5
<1>5. CASE ReadFailed
  <2>1. reading # "no" /\ reading' = "no" /\ inbox' = inbox
    BY Zenon, <1>5 DEF ReadFailed
  <2>2. /\ inbox' \in Seq(Answers) /\ OneReply(inbox') /\ (NoReply(inbox) => NoReply(inbox'))
        /\ \A i \in 1 .. Len(inbox') : Expected(inbox'[i])
    BY Zenon, <2>1 DEF Types, TokenInv, HandlerInv
  <2>3. \A p \in Publishes : results[p] = <<>>
    BY Zenon, <2>1 DEF PublishInv
  <2>4. /\ results' \in [Publishes -> Seq({"status", "error"})]
        /\ \A p \in Publishes :
             results'[p] = <<>> \/ (Len(results'[p]) = 1 /\ reading = "authenticated")
    <3>1. Len(Append(<<>>, "error")) = 1
      OBVIOUS
    <3>2. CASE reading = "unauthenticated"
      BY Zenon, <1>5, <2>3, <3>2 DEF ReadFailed, Types
    <3>3. CASE reading = "authenticated"
      <4>1. results' = [p \in Publishes |->
                           IF \E h \in publishHandlers : h.publish = p
                           THEN Append(results[p], "error") ELSE results[p]]
        BY Zenon, <1>5, <3>3 DEF ReadFailed
      <4>2. \A p \in Publishes : results'[p] = Append(<<>>, "error") \/ results'[p] = <<>>
        BY Zenon, <2>3, <4>1
      <4>3. {Append(<<>>, "error"), <<>>} \subseteq Seq({"status", "error"})
        OBVIOUS
      <4> QED BY Zenon, <3>1, <3>3, <4>1, <4>2, <4>3
    <3> QED BY Zenon, <2>1, <3>2, <3>3 DEF Types
  <2>5. /\ TokenInv' /\ HandlerInv' /\ (Idle => Idle') /\ state' = state /\ Types'
    BY Zenon, <1>5, <2>1, <2>2, <2>4, <1>same DEF ReadFailed
  <2>6. PublishInv'
    BY Zenon, <2>1, <2>4, <2>5 DEF PublishInv, AuthInv
  <2>7. AuthInv'
    BY <1>5, <2>1, <2>5, RefusalFacts, Zenon DEF AuthInv, ReadFailed
  <2> QED BY Zenon, <2>5, <2>6, <2>7
<1> QED BY <1>1, <1>2, <1>3, <1>4, <1>5, Zenon DEF Reads

LEMMA WriteStep == ClientInv /\ (\E w \in writing : Sent(w) \/ SendFailed(w)) => ClientInv'
<1> SUFFICES ASSUME ClientInv, NEW w \in writing, Sent(w) \/ SendFailed(w) PROVE ClientInv'
  BY Zenon
<1> USE DEF ClientInv
<1>0. w \in Asked /\ w.id \in Nat
  BY Zenon DEF Types, Asked
<1>1. /\ writing' = writing \ {w} /\ inbox' = inbox /\ state' = state /\ reading' = reading
      /\ nextId' = nextId /\ challengeHandlers' = challengeHandlers /\ ackHandlers' = ackHandlers
      /\ results' = results
  BY Zenon DEF Sent, SendFailed, client, callbacks
<1>2. NoneOf(writing) => NoneOf(writing')
  BY Zenon, <1>1 DEF NoneOf
<1>3. w.type # "Publish" => NoneOf(writing') /\ ~NoneOf(writing)
  BY Zenon, <1>1 DEF NoneOf, OneOf, TokenInv
<1>4. OneOf(writing')
  BY Zenon, <1>1 DEF OneOf, TokenInv
<1>5. NoReply(inbox)' = NoReply(inbox) /\ OneReply(inbox)' = OneReply(inbox)
  BY Zenon, <1>1
<1>6. PublishInv'
  BY Zenon, <1>1 DEF PublishInv
<1>7. CASE Sent(w)
  <2>1. /\ requests' = requests \cup {w} /\ authCalls' = authCalls
        /\ w.type # "Publish" => publishHandlers' = publishHandlers
        /\ w.type = "Publish" =>
             publishHandlers' = publishHandlers \cup {[id |-> w.id, publish |-> w.publish]}
    BY Zenon, <1>7 DEF Sent, callbacks
  <2>2. w.type = "Publish" => [id |-> w.id, publish |-> w.publish] \in [id : Nat, publish : Publishes]
    BY Zenon, <1>0 DEF Asked
  <2>3. Types'
    BY Zenon, <1>0, <1>1, <2>1, <2>2 DEF Types
  <2>4. w.type = "Publish" => OneOf(requests') /\ (NoneOf(requests) => NoneOf(requests'))
    BY Zenon, <2>1 DEF OneOf, NoneOf, TokenInv
  <2>5. w.type # "Publish" => OneOf(requests') /\ NoReply(inbox) /\ ~Idle
    BY Zenon, <1>3, <2>1 DEF OneOf, NoneOf, TokenInv, Idle
  <2>6. TokenInv'
    BY <1>2, <1>3, <1>4, <1>5, <2>4, <2>5, Zenon DEF TokenInv
  <2>7. Idle => Idle'
    BY <1>2, <1>5, <2>4, <2>5, Zenon DEF Idle
  <2>8. AuthInv'
    BY <1>1, <2>1, <2>7, Zenon DEF AuthInv
  <2>9. \A id : HasHandler(id) => HasHandler(id)'
    BY <2>1, Zenon DEF HasHandler
  <2>10. w.type = "Publish" => HasHandler(w.id)'
    <3> DEFINE h == [id |-> w.id, publish |-> w.publish]
    <3>1. h.id = w.id
      BY Zenon
    <3> HIDE DEF h
    <3>2. w.type = "Publish" => h \in publishHandlers'
      BY Zenon, <2>1 DEF h
    <3> QED BY <3>1, <3>2, Zenon DEF HasHandler
  <2>11. \A x : (Expected(x) => Expected(x)') /\ WillBeExpected(x)' = WillBeExpected(x)
    BY <1>1, <2>9, Zenon DEF Expected, WillBeExpected
  <2>12. /\ (\A x \in writing : WillBeExpected(x))'
         /\ (\A i \in 1 .. Len(inbox) : Expected(inbox[i]))'
    BY <1>1, <2>11, Zenon DEF HandlerInv
  <2>13. (\A r \in requests : WillBeExpected(r) /\ (r.type = "Publish" => HasHandler(r.id)))'
    BY <2>1, <2>9, <2>10, <2>11, Zenon DEF HandlerInv
  <2>14. (state # "authenticated" =>
            publishHandlers = {} /\ \A x \in writing : x.type # "Publish")'
    BY Zenon, <1>1, <2>1 DEF HandlerInv
  <2>15. HandlerInv'
    BY <2>12, <2>13, <2>14, Zenon DEF HandlerInv
  <2> QED BY Zenon, <1>6, <2>3, <2>6, <2>8, <2>15
<1>8. CASE SendFailed(w)
  <2>1. requests' = requests /\ publishHandlers' = publishHandlers
    BY Zenon, <1>8 DEF SendFailed, client
  <2>2. /\ w.type = "Publish" => authCalls' = authCalls
        /\ w.type # "Publish" => authCalls' = Append(authCalls, FALSE)
    BY <1>8, Zenon DEF SendFailed
  <2>3. Types'
    BY Zenon, <1>1, <2>1 DEF Types
  <2>4. NoneOf(requests)' = NoneOf(requests) /\ OneOf(requests)' = OneOf(requests)
    BY Zenon, <2>1
  <2>5. TokenInv'
    BY <1>2, <1>4, <1>5, <2>4, Zenon DEF TokenInv
  <2>6. Idle => Idle'
    BY <1>2, <1>5, <2>4, Zenon DEF Idle
  <2>7. w.type # "Publish" => Idle' /\ ~Idle
    BY <1>3, <1>5, <2>4, Zenon DEF TokenInv, Idle
  <2>8. AuthInv'
    BY <1>1, <2>2, <2>6, <2>7, RefusalFacts, Zenon DEF AuthInv
  <2>9. HandlerInv'
    BY Zenon, <1>1, <2>1 DEF HandlerInv, Expected, WillBeExpected, HasHandler
  <2> QED BY Zenon, <1>6, <2>3, <2>5, <2>8, <2>9
<1> QED BY Zenon, <1>7, <1>8

LEMMA ApplicationStep ==
  ClientInv /\ (authenticate \/ \E p \in Publishes : publish_message(p)) => ClientInv'
<1> SUFFICES ASSUME ClientInv, authenticate \/ \E p \in Publishes : publish_message(p)
             PROVE  ClientInv'
  BY Zenon
<1> USE DEF ClientInv
<1>1. CASE authenticate
  <2>1. /\ state = "none" /\ state' = "unauthenticated" /\ nextId' = nextId + 1
        /\ challengeHandlers' = {nextId'} /\ writing' = writing \cup {Get(nextId')}
        /\ reading' = "unauthenticated" /\ ackHandlers' = ackHandlers
        /\ publishHandlers' = publishHandlers /\ requests' = requests /\ inbox' = inbox
        /\ authCalls' = authCalls /\ results' = results
    BY Zenon, <1>1 DEF authenticate, get_next_id, set_handler, send_message, callbacks
  <2>2. Idle /\ authCalls = <<>> /\ publishHandlers = {}
    BY Zenon, <2>1 DEF AuthInv, HandlerInv
  <2>3. writing = {} /\ requests = {}
    BY Zenon, <2>1, <2>2 DEF Idle, NoneOf, HandlerInv, HasHandler
  <2>4. /\ Get(nextId') \in Asked /\ Get(nextId').type = "GetChallenge"
        /\ Get(nextId').id = nextId'
    BY <2>1 DEF Types, Asked, Get
  <2>5. Types'
    BY <2>1, <2>4 DEF Types
  <2>6. PublishInv'
    BY Zenon, <2>1 DEF PublishInv
  <2>7. OneOf(writing') /\ OneOf(requests') /\ NoneOf(requests') /\ NoReply(inbox') /\ OneReply(inbox')
    BY Zenon, <2>1, <2>2, <2>3 DEF OneOf, NoneOf, Idle, NoReply, OneReply
  <2>8. TokenInv'
    BY <2>7, Zenon DEF TokenInv
  <2>9. AuthInv'
    BY <2>1, <2>2, RefusalFacts, Zenon DEF AuthInv
  <2>10. (\A w \in writing : WillBeExpected(w) /\ w.type # "Publish")'
    BY Zenon, <2>1, <2>3, <2>4 DEF WillBeExpected
  <2>11. \A i \in 1 .. Len(inbox) : Expected(inbox[i]) /\ ~IsReply(inbox[i])
    BY <2>2, Zenon DEF HandlerInv, Idle, NoReply
  <2>12. \A x : Expected(x) /\ ~IsReply(x) => Expected(x)'
    BY <2>1, Zenon DEF Expected, HasHandler, IsReply
  <2>13. (\A i \in 1 .. Len(inbox) : Expected(inbox[i]))'
    BY <2>1, <2>11, <2>12, Zenon
  <2>14. HandlerInv'
    BY <2>1, <2>2, <2>3, <2>10, <2>13, Zenon DEF HandlerInv
  <2> QED BY Zenon, <2>5, <2>6, <2>8, <2>9, <2>14
<1>2. ASSUME NEW p \in Publishes, publish_message(p) PROVE ClientInv'
  <2>1. /\ state = "authenticated" /\ state' = state /\ nextId' = nextId + 1
        /\ challengeHandlers' = challengeHandlers /\ writing' = writing \cup {Publish(nextId', p)}
        /\ reading' = reading /\ ackHandlers' = ackHandlers
        /\ publishHandlers' = publishHandlers /\ requests' = requests /\ inbox' = inbox
        /\ authCalls' = authCalls /\ results' = results
    BY Zenon, <1>2 DEF publish_message, get_next_id, send_message
  <2>2. Publish(nextId', p) \in Asked /\ Publish(nextId', p).type = "Publish"
    BY <2>1 DEF Types, Asked, Publish
  <2>3. Types' /\ PublishInv'
    BY <2>1, <2>2 DEF Types, PublishInv
  <2>4. OneOf(writing') /\ (NoneOf(writing) => NoneOf(writing'))
    BY <2>1, <2>2 DEF OneOf, NoneOf, TokenInv
  <2>5. /\ NoneOf(requests)' = NoneOf(requests) /\ OneOf(requests)' = OneOf(requests)
        /\ NoReply(inbox)' = NoReply(inbox) /\ OneReply(inbox)' = OneReply(inbox)
    BY Zenon, <2>1
  <2>6. TokenInv'
    BY <2>4, <2>5, Zenon DEF TokenInv
  <2>7. Idle => Idle'
    BY <2>4, <2>5, Zenon DEF Idle
  <2>8. AuthInv'
    BY <2>1, <2>7, Zenon DEF AuthInv
  <2>9. (\A w \in writing : WillBeExpected(w))'
    BY Zenon, <2>1, <2>2 DEF WillBeExpected, HandlerInv
  <2>10. HandlerInv'
    BY Zenon, <2>1, <2>9 DEF HandlerInv, Expected, WillBeExpected, HasHandler
  <2> QED BY Zenon, <2>3, <2>6, <2>8, <2>10
<1> QED BY Zenon, <1>1, <1>2
-----------------------------------------------------------------------------
(***************************************************************************)
(* ClientInv holds in every state: the strengthening under the three       *)
(* results below.                                                          *)
(***************************************************************************)
THEOREM ClientInvariant == Spec => []ClientInv
<1>1. Init => ClientInv
  BY Zenon, InitClient
<1>2. ClientInv /\ [Next]_vars => ClientInv'
  <2> SUFFICES ASSUME ClientInv, [Next]_vars PROVE ClientInv'
    BY Zenon
  <2>same. ASSUME UNCHANGED <<client, reading, writing, requests, inbox, callbacks>>
           PROVE  ClientInv'
    <3>1. Types' /\ PublishInv' /\ TokenInv'
      BY Zenon, <2>same DEF client, callbacks, ClientInv, Types, PublishInv, TokenInv
    <3>2. AuthInv'
      BY <2>same, Zenon DEF client, callbacks, ClientInv, AuthInv, Idle
    <3>3. HandlerInv'
      BY Zenon, <2>same DEF client, callbacks, ClientInv, HandlerInv, Expected, WillBeExpected, HasHandler
    <3> QED BY Zenon, <3>1, <3>2, <3>3 DEF ClientInv
  <2>1. CASE Break
    BY <2>same, <2>1, Zenon DEF Break
  <2>2. CASE UNCHANGED vars
    BY <2>same, <2>2, Zenon DEF vars
  <2> QED BY <2>1, <2>2, ApplicationStep, WriteStep, ReadStep, NodeStep, Zenon DEF Next
<1> QED BY <1>1, <1>2, PTL DEF Spec

(***************************************************************************)
(* The callback of a publish is called at most once, however often the     *)
(* node answers and whenever the connection is lost.                       *)
(***************************************************************************)
THEOREM CallbackOnce == Spec => []PublishCallbackOnce
<1>1. ClientInv => PublishCallbackOnce
  <2>1. Len(<<>>) = 0
    BY Zenon
  <2>2. ASSUME NEW p \in Publishes, PublishInv PROVE Len(results[p]) <= 1
    <3>1. CASE results[p] = <<>>
      BY <2>1, <3>1
    <3>2. CASE Len(results[p]) = 1
      BY <3>2
    <3> QED BY Zenon, <2>2, <3>1, <3>2 DEF PublishInv
  <2> QED BY <2>2, Zenon DEF ClientInv, PublishCallbackOnce
<1> QED BY <1>1, ClientInvariant, PTL

(***************************************************************************)
(* An application that was told it is authenticated is told nothing else.  *)
(***************************************************************************)
THEOREM AuthenticatedIsFinal == Spec => []SuccessIsFinal
<1>1. ASSUME ClientInv PROVE SuccessIsFinal
  <2>1. CASE state = "authenticated"
    <3>1. \A x \in BOOLEAN : Len(<<x>>) = 1
      BY Zenon
    <3>2. TRUE \in BOOLEAN
      BY Zenon
    <3>3. authCalls = Granted
      BY <1>1, <2>1, Zenon DEF ClientInv, AuthInv
    <3>4. Len(authCalls) = 1
      BY <3>1, <3>2, <3>3, Zenon DEF Granted
    <3> QED BY <3>4, Zenon DEF SuccessIsFinal
  <2>2. CASE state # "authenticated"
    <3>1. \A i \in 1 .. Len(authCalls) : authCalls[i] = FALSE
      BY <1>1, <2>2, RefusalFacts, Zenon DEF ClientInv, AuthInv
    <3> QED BY <3>1, Zenon DEF SuccessIsFinal
  <2> QED BY <2>1, <2>2, Zenon
<1> QED BY <1>1, ClientInvariant, PTL

(***************************************************************************)
(* A node is never taken to violate the protocol for an answer to what it  *)
(* was asked.                                                              *)
(***************************************************************************)
THEOREM AnswersHaveHandlers == Spec => []AnswersAreExpected
<1>1. ASSUME ClientInv PROVE AnswersAreExpected
  <2> SUFFICES ASSUME NEW m \in Range(inbox), reading # "no", m = Head(inbox), m.type # "Gossip"
               PROVE  IsChallenge(m) \/ IsAck(m) \/ IsResponse(m)
    BY Zenon DEF AnswersAreExpected
  <2>1. inbox \in Seq(Answers) /\ inbox # <<>>
    BY <1>1 DEF ClientInv, Types, Range
  <2>2. /\ m \in Answers /\ \E j \in 1 .. Len(inbox) : m = inbox[j]
        /\ NoReply(inbox) => ~IsReply(m)
    BY Zenon, <2>1, TailReplies
  <2>3. Expected(m)
    BY <1>1, <2>2, Zenon DEF ClientInv, HandlerInv
  <2>4. m.type \in {"ChallengeResponse", "AuthAck", "PublishResponse"}
    BY Zenon, <2>2 DEF Answers
  <2>5. CASE reading = "unauthenticated"
    <3>1. publishHandlers = {}
      BY Zenon, <1>1, <2>5 DEF ClientInv, AuthInv, HandlerInv
    <3> QED BY Zenon, <2>3, <2>4, <2>5, <3>1 DEF Expected, HasHandler, IsChallenge, IsAck
  <2>6. CASE reading = "authenticated"
    <3>1. NoReply(inbox)
      BY <1>1, <2>6, Zenon DEF ClientInv, AuthInv, Idle
    <3> QED BY Zenon, <2>2, <2>3, <2>4, <2>6, <3>1 DEF Expected, HasHandler, IsReply, IsResponse
  <2> QED BY Zenon, <1>1, <2>5, <2>6 DEF ClientInv, Types
<1> QED BY <1>1, ClientInvariant, PTL
-----------------------------------------------------------------------------
(***************************************************************************)
(* Connecting.                                                             *)
(***************************************************************************)
\* The backoff after n failures in a row.
BackoffAfter(n) == IF n = 0 THEN 0 ELSE Doubled(n - 1)

FailsInv ==
  /\ kills \in 0 .. MaxKills /\ fails \in [Endpoints -> Nat]
  /\ \A e \in Endpoints : fails[e] <= kills /\ backoff[e] = BackoffAfter(fails[e])
  /\ \A e \in dead : fails[e] # 0

ClusterInv ==
  /\ live \in Seq(Endpoints) /\ dead \subseteq Endpoints
  /\ isFailed \in [Endpoints -> BOOLEAN]
  /\ backoff \in [Endpoints -> Nat] /\ since \in [Endpoints -> Nat]
  /\ LiveAndDeadPartition
  /\ FailsInv

AcceptInv ==
  /\ running \in {"no", "yes", "ended"} /\ stopping \in BOOLEAN
  /\ waiting \in Nat /\ ready \in Seq(Node!Results)
  /\ running = "no" => waiting = 0 /\ ready = <<>>
  /\ OneAccept
-----------------------------------------------------------------------------
(***************************************************************************)
(* The accept loop.                                                        *)
(***************************************************************************)
LEMMA InitAcceptInv == ConnectingInit => AcceptInv
<1> SUFFICES ASSUME ConnectingInit PROVE AcceptInv
  BY Zenon
<1>1. running = "no" /\ stopping = FALSE /\ waiting = 0 /\ ready = <<>>
  BY Zenon DEF ConnectingInit, Node!Init
<1>2. ready \in Seq(Node!Results)
  BY <1>1
<1> QED
  BY Zenon, <1>1, <1>2 DEF AcceptInv, OneAccept, Node!OneAccept

LEMMA HandleKeepsInv ==
  ASSUME AcceptInv, NEW r, Node!handle_accept(r)
  PROVE  AcceptInv'
<1>1. /\ running = "yes" /\ ready # <<>> /\ ready' = Tail(ready) /\ stopping' = stopping
  BY Zenon DEF Node!handle_accept, Node!Stopped, Node!Started, Node!Throws, Node!Failed, Node!Handles
<1>2. \/ stopping /\ running' = running /\ waiting' = waiting
      \/ ~stopping /\ running' = running /\ waiting' = waiting + 1
      \/ ~stopping /\ running' = "ended" /\ waiting' = waiting
  BY Zenon DEF Node!handle_accept, Node!Stopped, Node!Started, Node!Throws, Node!Failed,
         Node!Handles, Node!accept_new
<1>3. Len(ready') = Len(ready) - 1 /\ ready' \in Seq(Node!Results) /\ Len(ready) \in Nat
  BY <1>1 DEF AcceptInv
<1> QED
  BY <1>1, <1>2, <1>3 DEF AcceptInv, OneAccept, Node!OneAccept

LEMMA CompletesKeepsInv ==
  ASSUME AcceptInv, NEW r \in Node!Results, Node!Completes(r)
  PROVE  AcceptInv'
<1>1. /\ running # "ended" /\ waiting > 0 /\ waiting' = waiting - 1
      /\ ready' = Append(ready, r) /\ running' = running /\ stopping' = stopping
  BY Zenon DEF Node!Completes
<1>2. Len(ready') = Len(ready) + 1 /\ ready' \in Seq(Node!Results) /\ Len(ready) \in Nat
  BY <1>1 DEF AcceptInv
<1> QED
  BY <1>1, <1>2 DEF AcceptInv, OneAccept, Node!OneAccept

LEMMA StutterKeepsAcceptInv ==
  ASSUME AcceptInv, UNCHANGED <<running, stopping, waiting, ready>>
  PROVE  AcceptInv'
BY Zenon DEF AcceptInv, OneAccept, Node!OneAccept

LEMMA AcceptInvInductive == AcceptInv /\ [ConnectingNext]_allVars => AcceptInv'
<1> SUFFICES ASSUME AcceptInv, [ConnectingNext]_allVars PROVE AcceptInv'
  BY Zenon
<1>1. CASE Client
  BY Zenon, <1>1, StutterKeepsAcceptInv DEF Client, node
<1>2. CASE Accepts
  <2>1. CASE Node!start
    BY <2>1 DEF AcceptInv, Node!start, Node!accept_new, OneAccept, Node!OneAccept
  <2>2. CASE Node!stop
    BY Zenon, <2>2 DEF AcceptInv, Node!stop, OneAccept, Node!OneAccept
  <2>3. CASE Node!AcceptError
    BY Zenon, <2>3, CompletesKeepsInv DEF Node!AcceptError, Node!Results
  <2>4. ASSUME NEW r \in Node!Results, Node!handle_accept(r) PROVE AcceptInv'
    BY Zenon, <2>4, HandleKeepsInv
  <2>5. ASSUME NEW c \in Connects, Node!Accepted(c) PROVE AcceptInv'
    BY Zenon, <2>5, CompletesKeepsInv DEF Node!Accepted, Node!Results
  <2>6. ASSUME NEW c \in Connects, Node!Reset(c) PROVE AcceptInv'
    BY Zenon, <2>6, StutterKeepsAcceptInv DEF Node!Reset
  <2> QED
    BY Zenon, <1>2, <2>1, <2>2, <2>3, <2>4, <2>5, <2>6 DEF Accepts
<1>3. ASSUME NEW c \in Connects, after_resolve(c) \/ Connect(c) \/ after_connect(c)
      PROVE  AcceptInv'
  BY Zenon, <1>3, StutterKeepsAcceptInv DEF after_resolve, Connect, Node!Connect, after_connect, node
<1>4. CASE UNCHANGED allVars
  BY Zenon, <1>4, StutterKeepsAcceptInv DEF allVars, node
<1> QED
  BY Zenon, <1>1, <1>2, <1>3, <1>4 DEF ConnectingNext

(***************************************************************************)
(* From start() until stop() or an exception, the server has exactly one   *)
(* accept under way or completed, whatever clients connect and reset.      *)
(***************************************************************************)
THEOREM AcceptsOneByOne == ConnectingSpec => []OneAccept
<1>1. AcceptInv => OneAccept
  BY Zenon DEF AcceptInv
<1> QED
  BY <1>1, InitAcceptInv, AcceptInvInductive, PTL DEF ConnectingSpec

-----------------------------------------------------------------------------
(***************************************************************************)
(* The server of Connecting is a Server: what the clients that connect     *)
(* through their cluster do to it are steps of Server's peers, so that     *)
(* what holds of the accept loop for any peers holds with these.           *)
(***************************************************************************)
THEOREM ConnectingKeepsServer == ConnectingSpec => Node!Spec
<1>1. ConnectingInit => Node!Init
  BY Zenon DEF ConnectingInit
<1>2. [ConnectingNext]_allVars => [Node!Next]_(Node!vars)
  <2> SUFFICES ASSUME [ConnectingNext]_allVars PROVE [Node!Next]_(Node!vars)
    BY Zenon
  <2>1. CASE Client
    BY Zenon, <2>1 DEF Client, node, Node!vars
  <2>2. CASE Accepts
    BY <2>2, Zenon DEF Accepts, Node!Next
  <2>3. ASSUME NEW c \in Connects, after_resolve(c) \/ after_connect(c)
        PROVE  UNCHANGED Node!vars
    BY Zenon, <2>3 DEF after_resolve, after_connect, node, Node!vars
  <2>4. ASSUME NEW c \in Connects, Connect(c) PROVE Node!Next
    BY <2>4, Zenon DEF Connect, Node!Next
  <2>5. CASE UNCHANGED allVars
    BY Zenon, <2>5 DEF allVars, node, Node!vars
  <2> QED
    BY <2>1, <2>2, <2>3, <2>4, <2>5, Zenon DEF ConnectingNext
<1> QED
  BY <1>1, <1>2, PTL DEF ConnectingSpec, Node!Spec
-----------------------------------------------------------------------------
(***************************************************************************)
(* What kill_endpoint and check_for_expired_deaths do to a list without    *)
(* repetitions.                                                            *)
(***************************************************************************)
LeavesOut(r, s, n, i) ==
  /\ DOMAIN s = 1 .. n /\ DOMAIN r = 1 .. n - 1
  /\ \A k \in 1 .. n - 1 : r[k] = IF k < i THEN s[k] ELSE s[k + 1]

Joins(r, s, n, t, m) ==
  /\ DOMAIN s = 1 .. n /\ DOMAIN t = 1 .. m /\ DOMAIN r = 1 .. n + m
  /\ \A k \in 1 .. n + m : r[k] = IF k <= n THEN s[k] ELSE t[k - n]

LEMMA OneLeftOut ==
  ASSUME NEW n \in Nat, NEW i \in 1 .. n, NEW s, NEW r, IsInjective(s), LeavesOut(r, s, n, i)
  PROVE  IsInjective(r) /\ Range(r) = Range(s) \ {s[i]}
<1> USE DEF LeavesOut
<1>1. \A k \in 1 .. n - 1 : (IF k < i THEN k ELSE k + 1) \in (1 .. n) \ {i}
  OBVIOUS
<1>2. \A k, l \in 1 .. n : s[k] = s[l] => k = l
  BY Zenon DEF IsInjective
<1>3. IsInjective(r)
  BY <1>1, <1>2 DEF IsInjective
<1>4. \A k \in 1 .. n - 1 : r[k] \in Range(s) \ {s[i]}
  BY Zenon, <1>1, <1>2 DEF Range
<1>5. \A k \in (1 .. n) \ {i} : s[k] \in Range(r)
  <2> SUFFICES ASSUME NEW k \in 1 .. n, k # i PROVE s[k] \in Range(r)
    BY Zenon
  <2>1. CASE k < i
    <3>1. k \in DOMAIN r /\ r[k] = s[k]
      BY <2>1
    <3> QED
      BY Zenon, <3>1 DEF Range
  <2>2. CASE k > i
    <3>1. k - 1 \in DOMAIN r /\ r[k - 1] = s[k]
      BY <2>2
    <3> QED
      BY Zenon, <3>1 DEF Range
  <2> QED
    BY <2>1, <2>2
<1> QED
  BY Zenon, <1>3, <1>4, <1>5 DEF Range

LEMMA ConcatIs ==
  ASSUME NEW S, NEW s \in Seq(S), NEW t \in Seq(S)
  PROVE  /\ s \o t \in Seq(S) /\ Len(s \o t) = Len(s) + Len(t)
         /\ \A i \in 1 .. Len(s) + Len(t) : (s \o t)[i] = IF i <= Len(s) THEN s[i] ELSE t[i - Len(s)]
OBVIOUS

LEMMA OneRemoved ==
  ASSUME NEW S, NEW s \in Seq(S), IsInjective(s), NEW i \in 1 .. Len(s)
  PROVE  LET r == SubSeq(s, 1, i - 1) \o SubSeq(s, i + 1, Len(s)) IN
         r \in Seq(S) /\ IsInjective(r) /\ Range(r) = Range(s) \ {s[i]}
<1> DEFINE n == Len(s)
           a == SubSeq(s, 1, i - 1)
           b == SubSeq(s, i + 1, n)
           r == a \o b
<1>1. n \in Nat /\ DOMAIN s = 1 .. n /\ i \in 1 .. n
  OBVIOUS
<1>2. a \in Seq(S) /\ Len(a) = i - 1 /\ \A k \in 1 .. i - 1 : a[k] = s[k]
  OBVIOUS
<1>3. b \in Seq(S) /\ Len(b) = n - i /\ \A k \in 1 .. n - i : b[k] = s[i + k]
  OBVIOUS
<1> HIDE DEF n, a, b
<1>4. /\ r \in Seq(S) /\ Len(r) = Len(a) + Len(b)
      /\ \A k \in 1 .. Len(a) + Len(b) : r[k] = IF k <= Len(a) THEN a[k] ELSE b[k - Len(a)]
  BY Zenon, <1>2, <1>3, ConcatIs
<1> HIDE DEF r
<1>5. Len(r) = n - 1 /\ DOMAIN r = 1 .. n - 1
  BY <1>1, <1>2, <1>3, <1>4
<1>6. \A k \in 1 .. n - 1 : r[k] = IF k < i THEN s[k] ELSE s[k + 1]
  <2> SUFFICES ASSUME NEW k \in 1 .. n - 1 PROVE r[k] = IF k < i THEN s[k] ELSE s[k + 1]
    BY Zenon
  <2>1. r[k] = IF k <= i - 1 THEN a[k] ELSE b[k - (i - 1)]
    BY <1>1, <1>2, <1>3, <1>4
  <2>2. CASE k < i
    BY <2>1, <2>2, <1>1, <1>2
  <2>3. CASE ~(k < i)
    <3>1. k - (i - 1) \in 1 .. n - i /\ i + (k - (i - 1)) = k + 1
      BY <2>3, <1>1
    <3> QED
      BY <2>1, <2>3, <3>1, <1>1, <1>3
  <2> QED
    BY Zenon, <2>2, <2>3
<1>7. LeavesOut(r, s, n, i)
  BY Zenon, <1>1, <1>5, <1>6 DEF LeavesOut
<1>8. IsInjective(r) /\ Range(r) = Range(s) \ {s[i]}
  BY Zenon, <1>1, <1>7, OneLeftOut
<1> QED
  BY Zenon, <1>4, <1>8 DEF r, a, b, n

LEMMA PutTogether ==
  ASSUME NEW n \in Nat, NEW m \in Nat, NEW s, NEW t, NEW r, Joins(r, s, n, t, m),
         IsInjective(s), IsInjective(t), Range(s) \cap Range(t) = {}
  PROVE  IsInjective(r) /\ Range(r) = Range(s) \cup Range(t)
<1> USE DEF Joins
<1>1. \A k \in 1 .. n + m : k <= n \/ k - n \in 1 .. m
  OBVIOUS
<1>2. \A k \in 1 .. n : r[k] = s[k] /\ s[k] \in Range(s)
  BY DEF Range
<1>3. \A k \in 1 .. m : n + k \in 1 .. n + m /\ r[n + k] = t[k] /\ t[k] \in Range(t)
  BY SMTT(30) DEF Range
<1>4. ASSUME NEW k \in 1 .. n + m, NEW l \in 1 .. n + m, r[k] = r[l]
      PROVE  k = l
  <2>1. CASE k <= n /\ l <= n
    BY <1>2, <1>4, <2>1 DEF IsInjective
  <2>2. CASE ~(k <= n) /\ ~(l <= n)
    <3>1. t[k - n] = t[l - n] /\ k - n \in 1 .. m /\ l - n \in 1 .. m
      BY Zenon, <1>1, <1>4, <2>2
    <3>2. k - n = l - n
      BY Zenon, <3>1 DEF IsInjective
    <3> QED
      BY <3>2
  <2>3. \A a \in 1 .. n + m : a <= n => r[a] \in Range(s)
    BY <1>2
  <2>4. \A a \in 1 .. n + m : ~(a <= n) => r[a] \in Range(t)
    BY Zenon, <1>1, <1>3
  <2> QED
    BY Zenon, <2>1, <2>2, <2>3, <2>4, <1>4
<1>5. Range(r) \subseteq Range(s) \cup Range(t)
  <2>1. \A k \in 1 .. n + m : r[k] \in Range(s) \cup Range(t)
    BY <1>1, <1>2, <1>3
  <2> QED
    BY Zenon, <2>1 DEF Range
<1>6. \A k \in 1 .. n : s[k] \in Range(r)
  <2>1. \A k \in 1 .. n : k \in DOMAIN r /\ r[k] = s[k]
    BY <1>2
  <2> QED
    BY Zenon, <2>1 DEF Range
<1>7. \A k \in 1 .. m : t[k] \in Range(r)
  BY Zenon, <1>3 DEF Range
<1>8. Range(s) \subseteq Range(r) /\ Range(t) \subseteq Range(r)
  BY <1>6, <1>7 DEF Range
<1> QED
  BY Zenon, <1>4, <1>5, <1>8 DEF IsInjective

-----------------------------------------------------------------------------
(***************************************************************************)
(* The steps of the cluster.                                               *)
(***************************************************************************)
LEMMA BackoffDoubles ==
  ASSUME NEW n \in 0 .. MaxKills
  PROVE  BackoffAfter(n) \in Nat /\ increase_backoff(BackoffAfter(n)) = BackoffAfter(n + 1)
<1>1. MaxKills \in Nat
  BY ClusterAssumption
<1>2. CASE n = 0
  BY <1>2, DoubledAssumption DEF BackoffAfter, increase_backoff
<1>3. CASE n # 0
  <2>1. n - 1 \in 0 .. MaxKills /\ (n - 1) + 1 = n /\ (n + 1) - 1 = n /\ n + 1 # 0
    BY <1>1, <1>3
  <2>2. Doubled(n - 1) \in Nat \ {0} /\ Doubled((n - 1) + 1) = 2 * Doubled(n - 1)
    BY <2>1, DoubledAssumption
  <2>3. Doubled(n) = 2 * Doubled(n - 1)
    BY Zenon, <2>1, <2>2
  <2>4. BackoffAfter(n) = Doubled(n - 1) /\ BackoffAfter(n + 1) = Doubled(n)
    BY Zenon, <1>3, <2>1 DEF BackoffAfter
  <2> QED
    BY <2>2, <2>3, <2>4 DEF increase_backoff
<1> QED
  BY <1>2, <1>3

LEMMA MarkFailed ==
  ASSUME ClusterInv, NEW e \in Endpoints, mark_failed(e), kills < MaxKills, kills' = kills + 1,
         dead' \subseteq dead \cup {e}
  PROVE  /\ isFailed' \in [Endpoints -> BOOLEAN] /\ isFailed'[e]
         /\ \A x \in Endpoints \ {e} : isFailed'[x] = isFailed[x]
         /\ backoff' \in [Endpoints -> Nat] /\ since' \in [Endpoints -> Nat]
         /\ FailsInv'
<1>1. /\ kills \in 0 .. MaxKills /\ fails \in [Endpoints -> Nat] /\ MaxKills \in Nat
      /\ \A x \in Endpoints : fails[x] <= kills /\ backoff[x] = BackoffAfter(fails[x])
      /\ \A x \in dead : fails[x] # 0
  BY Zenon, ClusterAssumption DEF ClusterInv, FailsInv
<1>2. /\ isFailed \in [Endpoints -> BOOLEAN] /\ backoff \in [Endpoints -> Nat]
      /\ since \in [Endpoints -> Nat] /\ dead \subseteq Endpoints
  BY Zenon DEF ClusterInv
<1>3. fails[e] \in 0 .. MaxKills /\ fails[e] + 1 <= kills + 1 /\ fails[e] + 1 # 0 /\ fails[e] + 1 \in Nat
  BY <1>1
<1>4. increase_backoff(backoff[e]) = BackoffAfter(fails[e] + 1)
  BY Zenon, <1>1, <1>3, BackoffDoubles
<1>5. BackoffAfter(fails[e] + 1) \in Nat
  <2>1. fails[e] + 1 \in 0 .. MaxKills
    BY <1>1
  <2> QED
    BY Zenon, <2>1, BackoffDoubles
<1>6. /\ fails' \in [Endpoints -> Nat] /\ fails'[e] = fails[e] + 1
      /\ backoff' \in [Endpoints -> Nat] /\ backoff'[e] = BackoffAfter(fails[e] + 1)
      /\ \A x \in Endpoints \ {e} : fails'[x] = fails[x] /\ backoff'[x] = backoff[x]
  BY Zenon, <1>1, <1>2, <1>3, <1>4, <1>5 DEF mark_failed
<1>7. kills' \in 0 .. MaxKills /\ \A x \in Endpoints : fails[x] <= kills + 1
  BY <1>1
<1>8. \A x \in Endpoints : fails'[x] <= kills' /\ backoff'[x] = BackoffAfter(fails'[x])
  <2> TAKE x \in Endpoints
  <2>1. CASE x = e
    BY Zenon, <1>3, <1>6, <2>1
  <2>2. CASE x # e
    BY Zenon, <1>1, <1>6, <1>7, <2>2
  <2> QED
    BY Zenon, <2>1, <2>2
<1>9. \A x \in dead' : fails'[x] # 0
  BY Zenon, <1>1, <1>2, <1>3, <1>6
<1>10. FailsInv'
  BY Zenon, <1>6, <1>7, <1>8, <1>9 DEF FailsInv
<1>11. /\ isFailed' \in [Endpoints -> BOOLEAN] /\ isFailed'[e] /\ since' \in [Endpoints -> Nat]
       /\ \A x \in Endpoints \ {e} : isFailed'[x] = isFailed[x]
  BY <1>2 DEF mark_failed
<1> QED
  BY Zenon, <1>6, <1>10, <1>11

LEMMA KillKeepsInv ==
  ASSUME ClusterInv, NEW e \in Endpoints, kill_endpoint(e)
  PROVE  ClusterInv'
<1> PICK i \in 1 .. Len(live) :
      live[i] = e /\ live' = SubSeq(live, 1, i - 1) \o SubSeq(live, i + 1, Len(live))
  BY Zenon DEF kill_endpoint
<1>1. live' \in Seq(Endpoints) /\ IsInjective(live') /\ Range(live') = Range(live) \ {e}
  BY ZenonT(30), OneRemoved DEF ClusterInv, LiveAndDeadPartition
<1>2. /\ mark_failed(e) /\ e \notin dead /\ dead' = dead \cup {e}
      /\ kills < MaxKills /\ kills' = kills + 1
  BY Zenon DEF kill_endpoint
<1>3. Range(live') \cap dead' = {} /\ Range(live') \cup dead' = Endpoints
  BY <1>1, <1>2 DEF ClusterInv, LiveAndDeadPartition
<1>4. \A x \in Endpoints : isFailed'[x] <=> x \in dead'
  <2>1. isFailed'[e] /\ \A x \in Endpoints \ {e} : isFailed'[x] = isFailed[x]
    BY Zenon, <1>2, MarkFailed
  <2>2. \A x \in Endpoints : isFailed[x] <=> x \in dead
    BY Zenon DEF ClusterInv, LiveAndDeadPartition
  <2> QED
    BY Zenon, <1>2, <2>1, <2>2
<1> QED
  BY Zenon, <1>1, <1>2, <1>3, <1>4, MarkFailed DEF ClusterInv, LiveAndDeadPartition

LEMMA FailAgainKeepsInv ==
  ASSUME ClusterInv, NEW e \in Endpoints, FailAgain(e)
  PROVE  ClusterInv'
<1>1. /\ mark_failed(e) /\ live' = live /\ dead' = dead /\ isFailed[e]
      /\ kills < MaxKills /\ kills' = kills + 1
  BY Zenon DEF FailAgain
<1>2. e \in dead
  BY Zenon, <1>1 DEF ClusterInv, LiveAndDeadPartition
<1>3. \A x \in Endpoints : isFailed'[x] <=> x \in dead'
  BY <1>1, <1>2, MarkFailed DEF ClusterInv, LiveAndDeadPartition
<1> QED
  BY <1>1, <1>3, MarkFailed DEF ClusterInv, LiveAndDeadPartition

LEMMA TickKeepsInv ==
  ASSUME ClusterInv, Tick
  PROVE  ClusterInv'
BY ClusterAssumption DEF ClusterInv, FailsInv, Tick, LiveAndDeadPartition

LEMMA StutterKeepsClusterInv ==
  ASSUME ClusterInv, UNCHANGED <<live, dead, endpoints, kills>>
  PROVE  ClusterInv'
BY Zenon DEF ClusterInv, FailsInv, endpoints, LiveAndDeadPartition

(***************************************************************************)
(* Every step of the composition is one of these for the cluster.          *)
(***************************************************************************)
LEMMA ClusterSteps ==
  ASSUME [ConnectingNext]_allVars
  PROVE  \/ \E e \in Endpoints : kill_endpoint(e) \/ FailAgain(e)
         \/ check_for_expired_deaths /\ UNCHANGED kills
         \/ Tick
         \/ UNCHANGED <<live, dead, endpoints, kills>>
<1>1. CASE Client
  BY Zenon, <1>1 DEF Client, try_connect_next_endpoint
<1>2. CASE Accepts
  BY Zenon, <1>2 DEF Accepts, clusterVars, endpoints
<1>3. ASSUME NEW c \in Connects, after_resolve(c) \/ Connect(c) \/ after_connect(c)
      PROVE  UNCHANGED <<live, dead, endpoints, kills>>
  BY Zenon, <1>3 DEF after_resolve, Connect, after_connect, connection_result, clusterVars, endpoints
<1>4. CASE UNCHANGED allVars
  BY <1>4 DEF allVars, clusterVars, endpoints
<1> QED
  BY <1>1, <1>2, <1>3, <1>4 DEF ConnectingNext

(***************************************************************************)
(* The steps that order a set of endpoints: the set is finite.             *)
(***************************************************************************)
INSTANCE FiniteSetTheorems

LEMMA OrderAppended ==
  ASSUME NEW S, NEW s \in Seq(S), IsInjective(s), NEW T, T \subseteq S, IsFiniteSet(T),
         Range(s) \cap T = {}, NEW order \in Orders(T)
  PROVE  /\ s \o order \in Seq(S) /\ IsInjective(s \o order)
         /\ Range(s \o order) = Range(s) \cup T
<1> DEFINE n == Len(s)
           m == Cardinality(T)
           r == s \o order
<1>1. m \in Nat /\ n \in Nat /\ DOMAIN s = 1 .. n
  BY FS_CardinalityType
<1>2. /\ order \in [1 .. m -> T] /\ IsInjective(order)
      /\ \A x \in T : \E k \in 1 .. m : order[k] = x
  BY DEF Orders, Bijection, Injection, Surjection
<1> HIDE DEF m
<1>3. order \in Seq(S) /\ Len(order) = m /\ DOMAIN order = 1 .. m
  BY <1>1, <1>2
<1>4. Range(order) = T
  BY <1>2, <1>3 DEF Range
<1>5. /\ r \in Seq(S) /\ Len(r) = n + m
      /\ \A k \in 1 .. n + m : r[k] = IF k <= n THEN s[k] ELSE order[k - n]
  BY Zenon, <1>3, ConcatIs
<1> HIDE DEF r, n
<1>6. Joins(r, s, n, order, m)
  BY <1>1, <1>3, <1>5 DEF Joins
<1>7. IsInjective(r) /\ Range(r) = Range(s) \cup Range(order)
  BY <1>1, <1>2, <1>4, <1>6, PutTogether
<1> QED
  BY <1>4, <1>5, <1>7 DEF r

LEMMA CheckKeepsInv ==
  ASSUME ClusterInv, check_for_expired_deaths, UNCHANGED kills
  PROVE  /\ ClusterInv'
         /\ \A e \in dead \ dead' : since[e] >= Doubled(fails[e] - 1)
<1> DEFINE due == {e \in dead : ready_for_retry(e)}
<1>1. /\ isFailed' = [e \in Endpoints |-> isFailed[e] /\ e \notin due]
      /\ backoff' = [e \in Endpoints |-> IF e \in due THEN 0 ELSE backoff[e]]
      /\ fails' = [e \in Endpoints |-> IF e \in due THEN 0 ELSE fails[e]]
      /\ dead' = dead \ due /\ since' = since
      /\ \E order \in Orders(due) : live' = live \o order
  BY Zenon DEF check_for_expired_deaths
<1>2. due \subseteq dead /\ \A e \in due : since[e] >= Doubled(fails[e] - 1)
  BY Zenon DEF ClusterInv, FailsInv, BackoffAfter, ready_for_retry
<1> HIDE DEF due
<1>3. due \subseteq Endpoints /\ IsFiniteSet(due) /\ Range(live) \cap due = {}
  BY <1>2, FS_Subset, ClusterAssumption DEF ClusterInv, LiveAndDeadPartition
<1> PICK order \in Orders(due) : live' = live \o order
  BY Zenon, <1>1
<1>4. live' \in Seq(Endpoints) /\ IsInjective(live') /\ Range(live') = Range(live) \cup due
  <2>1. live \in Seq(Endpoints) /\ IsInjective(live)
    BY DEF ClusterInv, LiveAndDeadPartition
  <2>2. /\ live \o order \in Seq(Endpoints) /\ IsInjective(live \o order)
        /\ Range(live \o order) = Range(live) \cup due
    BY <2>1, <1>3, OrderAppended
  <2> QED
    BY <2>2
<1>5. Range(live') \cap dead' = {} /\ Range(live') \cup dead' = Endpoints
  BY Zenon, <1>1, <1>2, <1>3, <1>4 DEF ClusterInv, LiveAndDeadPartition
<1>6. isFailed' \in [Endpoints -> BOOLEAN]
  BY <1>1
<1>7. \A x \in Endpoints : isFailed'[x] <=> x \in dead'
  BY Zenon, <1>1 DEF ClusterInv, LiveAndDeadPartition
<1>8. backoff' \in [Endpoints -> Nat] /\ FailsInv'
  BY <1>1, <1>2 DEF ClusterInv, FailsInv, BackoffAfter
<1>9. ClusterInv'
  BY SMTT(30), <1>1, <1>4, <1>5, <1>6, <1>7, <1>8 DEF ClusterInv, LiveAndDeadPartition
<1> QED
  BY Zenon, <1>1, <1>2, <1>9

LEMMA InitClusterInv == ConnectingInit => ClusterInv
<1> SUFFICES ASSUME ConnectingInit PROVE ClusterInv
  BY Zenon
<1>1. Cardinality(Endpoints) \in Nat
  BY ClusterAssumption, FS_CardinalityType
<1>2. /\ live \in [1 .. Cardinality(Endpoints) -> Endpoints] /\ IsInjective(live)
      /\ \A e \in Endpoints : \E k \in 1 .. Cardinality(Endpoints) : live[k] = e
  BY DEF ConnectingInit, ClusterInit, Orders, Bijection, Injection, Surjection
<1>3. live \in Seq(Endpoints)
  BY <1>1, <1>2
<1>4. Range(live) = Endpoints
  BY <1>2 DEF Range
<1> QED
  BY <1>2, <1>3, <1>4, ClusterAssumption
  DEF ConnectingInit, ClusterInit, ClusterInv, FailsInv, BackoffAfter, LiveAndDeadPartition

LEMMA ClusterInvInductive == ClusterInv /\ [ConnectingNext]_allVars => ClusterInv'
BY ClusterSteps, KillKeepsInv, FailAgainKeepsInv, CheckKeepsInv, TickKeepsInv,
   StutterKeepsClusterInv

(***************************************************************************)
(* Whatever fails and returns while connects are going on, an endpoint is  *)
(* in exactly one of _liveEndpoints and _deadEndpoints, once.              *)
(***************************************************************************)
THEOREM EndpointsArePartitioned == ConnectingSpec => []LiveAndDeadPartition
<1>1. ClusterInv => LiveAndDeadPartition
  BY DEF ClusterInv
<1> QED
  BY <1>1, InitClusterInv, ClusterInvInductive, PTL DEF ConnectingSpec

(***************************************************************************)
(* check_for_expired_deaths gives no endpoint back before its backoff has  *)
(* passed since it last failed, which doubles from MINIMUM_BACKOFF_SECS    *)
(* with every failure since it was last up.                                *)
(***************************************************************************)
THEOREM BackoffIsKept == ConnectingSpec => ReturnsAfterBackoff
<1> DEFINE Waited == \A e \in dead \ dead' : since[e] >= Doubled(fails[e] - 1)
<1>1. ClusterInv /\ [ConnectingNext]_allVars => [Waited]_clusterVars
  <2> SUFFICES ASSUME ClusterInv, [ConnectingNext]_allVars PROVE Waited
    OBVIOUS
  <2>1. ASSUME NEW e \in Endpoints, kill_endpoint(e) \/ FailAgain(e) PROVE Waited
    BY Zenon, <2>1 DEF kill_endpoint, FailAgain
  <2>2. CASE Tick
    BY <2>2 DEF Tick
  <2> QED
    BY <2>1, <2>2, ClusterSteps, CheckKeepsInv
<1>2. [][Waited]_clusterVars => ReturnsAfterBackoff
  BY PTL DEF ReturnsAfterBackoff
<1> QED
  BY <1>1, <1>2, InitClusterInv, ClusterInvInductive, PTL DEF ConnectingSpec
=============================================================================
