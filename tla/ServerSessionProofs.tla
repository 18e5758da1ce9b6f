------------------------ MODULE ServerSessionProofs -------------------------
(***************************************************************************)
(* Proofs about ServerSession, for any number of messages from the client. *)
(*                                                                         *)
(* ReadInv is why reads do not overlap although four places start one: the *)
(* right to read is handed from the pending read to the lookup and, with   *)
(* its last verdict, back.  The lookup may give two verdicts, but only the *)
(* last can be positive and start a read.                                  *)
(***************************************************************************)
EXTENDS ServerSession, TLAPS

None == <<>>
Unauthenticated == <<"unauthenticated">>
Authenticated == <<"authenticated">>

Yes == <<TRUE>>
No == <<FALSE>>
NoYes == <<FALSE, TRUE>>
NoNo == <<FALSE, FALSE>>

ReadInv ==
  /\ reading \in {None, Unauthenticated, Authenticated}
  /\ conn = "accepted" => reading = None /\ query.at = "none"
  /\ reading = Unauthenticated => query.at = "none"
  /\ reading # None => ~Deciding
  /\ query.at \in {"none", "connecting", "executing"} => toPost = None /\ posted = None

\* The verdicts the io service has, and will have, to run: one, or two of which
\* the first is negative.
VerdictInv ==
  /\ toPost \in {None, Yes, No, NoYes, NoNo}
  /\ posted \in {None, Yes, No, NoYes, NoNo}
  /\ toPost # None => posted \in {None, No}
  /\ toPost \in {NoYes, NoNo} => posted = None

QueryInv ==
  /\ query.at \in {"none", "connecting", "executing", "answering", "closing", "done"}
  /\ query.at # "none" => DOMAIN query = {"at", "session", "re"}
  /\ freed = IF query.at = "done" THEN 1 ELSE 0
  /\ query.at = "done" => ~query.session

SessionInv == ReadInv /\ VerdictInv /\ QueryInv /\ NeverStranded

LEMMA ReadFacts ==
  /\ None # Unauthenticated /\ None # Authenticated /\ Unauthenticated # Authenticated
  /\ Len(None) = 0 /\ Len(Unauthenticated) = 1 /\ Len(Authenticated) = 1
  /\ Tail(Unauthenticated) = None /\ Tail(Authenticated) = None
  /\ Head(Unauthenticated) = "unauthenticated" /\ Head(Authenticated) = "authenticated"
  /\ Append(None, "unauthenticated") = Unauthenticated
  /\ Append(None, "authenticated") = Authenticated
BY DEF None, Unauthenticated, Authenticated

LEMMA ShortSequences ==
  ASSUME NEW S
  PROVE  /\ \A x \in S : <<x>> # <<>> /\ Head(<<x>>) = x /\ Tail(<<x>>) = <<>>
         /\ \A x, y \in S : <<x, y>> # <<>> /\ Head(<<x, y>>) = x /\ Tail(<<x, y>>) = <<y>>
         /\ \A x \in S : Append(<<>>, x) = <<x>>
         /\ \A x, y \in S : Append(<<x>>, y) = <<x, y>>
<1>1. \A x \in S : <<x>> # <<>> /\ Head(<<x>>) = x /\ Tail(<<x>>) = <<>>
  OBVIOUS
<1>2. \A x, y \in S : <<x, y>> # <<>> /\ Head(<<x, y>>) = x /\ Tail(<<x, y>>) = <<y>>
  OBVIOUS
<1>3. \A x \in S : Append(<<>>, x) = <<x>>
  OBVIOUS
<1>4. ASSUME NEW x \in S, NEW y \in S PROVE Append(<<x>>, y) = <<x, y>>
  <2> DEFINE s == Append(<<x>>, y)
  <2> DEFINE t == <<x, y>>
  <2>1. s \in Seq(S) /\ t \in Seq(S)
    OBVIOUS
  <2>2. Len(s) = 2 /\ Len(t) = 2 /\ s[1] = x /\ s[2] = y /\ t[1] = x /\ t[2] = y
    OBVIOUS
  <2> HIDE DEF s, t
  <2>3. \A i \in 1 .. Len(s) : s[i] = t[i]
    BY <2>2
  <2>4. s = t
    BY <2>1, <2>2, <2>3
  <2> QED BY <2>4 DEF s, t
<1> QED BY <1>1, <1>2, <1>3, <1>4, Zenon

LEMMA VerdictFacts ==
  /\ None = <<>> /\ Yes # None /\ No # None /\ NoYes # None /\ NoNo # None
  /\ Head(Yes) = TRUE /\ Head(No) = FALSE /\ Head(NoYes) = FALSE /\ Head(NoNo) = FALSE
  /\ Tail(Yes) = None /\ Tail(No) = None /\ Tail(NoYes) = Yes /\ Tail(NoNo) = No
  /\ Append(None, TRUE) = Yes /\ Append(None, FALSE) = No
  /\ Append(No, TRUE) = NoYes /\ Append(No, FALSE) = NoNo
<1>1. TRUE \in BOOLEAN /\ FALSE \in BOOLEAN
  OBVIOUS
<1>2. /\ \A x \in BOOLEAN : <<x>> # <<>> /\ Head(<<x>>) = x /\ Tail(<<x>>) = <<>>
      /\ \A x, y \in BOOLEAN :
           <<x, y>> # <<>> /\ Head(<<x, y>>) = x /\ Tail(<<x, y>>) = <<y>>
      /\ \A x \in BOOLEAN : Append(<<>>, x) = <<x>>
      /\ \A x, y \in BOOLEAN : Append(<<x>>, y) = <<x, y>>
  BY ShortSequences, Zenon
<1>3. None = <<>>
  BY DEF None
<1>4. Yes # None /\ Head(Yes) = TRUE /\ Tail(Yes) = None /\ Append(None, TRUE) = Yes
  BY <1>1, <1>2, <1>3, Zenon DEF Yes
<1>5. No # None /\ Head(No) = FALSE /\ Tail(No) = None /\ Append(None, FALSE) = No
  BY <1>1, <1>2, <1>3, Zenon DEF No
<1>6. NoYes # None /\ Head(NoYes) = FALSE /\ Tail(NoYes) = Yes /\ Append(No, TRUE) = NoYes
  BY <1>1, <1>2, <1>3, Zenon DEF Yes, No, NoYes
<1>7. NoNo # None /\ Head(NoNo) = FALSE /\ Tail(NoNo) = No /\ Append(No, FALSE) = NoNo
  BY <1>1, <1>2, <1>3, Zenon DEF No, NoNo
<1> QED BY <1>3, <1>4, <1>5, <1>6, <1>7, Zenon

LEMMA VerdictsGiven ==
  ASSUME NEW user, NEW match \in BOOLEAN
  PROVE  Verdicts(user, match) \in {Yes, No, NoYes, NoNo}
<1>1. match = TRUE \/ match = FALSE
  OBVIOUS
<1> QED BY <1>1, Zenon DEF Verdicts, Yes, No, NoYes, NoNo

LEMMA InitSession == Init => SessionInv
<1> SUFFICES ASSUME Init PROVE SessionInv
  OBVIOUS
<1>1. /\ reading = None /\ toPost = None /\ posted = None /\ query.at = "none"
      /\ conn = "accepted" /\ freed = 0
  BY Zenon, VerdictFacts DEF Init, NoQuery
<1>2. VerdictInv
  BY <1>1, VerdictFacts, Zenon DEF VerdictInv
<1> QED BY <1>1, <1>2, ReadFacts DEF SessionInv, ReadInv, QueryInv, NeverStranded

\* A read that has been answered leaves none pending, or is followed by the next
\* one of the authenticated state.
LEMMA NextReads ==
  ASSUME ReadInv, reading # <<>>
  PROVE  \/ reading = Unauthenticated /\ Head(reading) = "unauthenticated" /\ NextRead = None
         \/ reading = Authenticated /\ Head(reading) = "authenticated" /\ NextRead = Authenticated
BY Zenon, ReadFacts, VerdictFacts DEF ReadInv, NextRead

\* What is left alone by the steps of the reads: the lookup and its verdicts.
LEMMA SameLookup ==
  ASSUME VerdictInv, QueryInv, UNCHANGED <<lookup, posted>>
  PROVE  VerdictInv' /\ QueryInv' /\ Deciding' = Deciding
BY Zenon DEF VerdictInv, QueryInv, lookup, Deciding

LEMMA IoStep == SessionInv /\ Io => SessionInv'
<1> SUFFICES ASSUME SessionInv, Io PROVE SessionInv'
  OBVIOUS
<1> USE DEF SessionInv
<1>1. CASE start
  <2>1. VerdictInv' /\ QueryInv' /\ Deciding' = Deciding
    BY <1>1, SameLookup, Zenon DEF start
  <2>2. reading' = Unauthenticated
    BY <1>1, ReadFacts DEF start, ReadInv
  <2>3. conn' = "open" /\ query.at = "none" /\ query' = query /\ toPost' = toPost /\ posted' = posted
    BY <1>1 DEF start, ReadInv, lookup
  <2>4. ~Deciding
    BY Zenon, <2>3, VerdictFacts DEF ReadInv, Deciding
  <2>5. ReadInv'
    BY <2>1, <2>2, <2>3, <2>4, ReadFacts DEF ReadInv
  <2>6. NeverStranded'
    BY Zenon, <2>2, ReadFacts, VerdictFacts DEF NeverStranded
  <2> QED BY <2>1, <2>5, <2>6
<1>2. CASE ReadFails
  <2>1. VerdictInv' /\ QueryInv' /\ Deciding' = Deciding
    BY <1>2, SameLookup, Zenon DEF ReadFails
  <2>2. reading' = None /\ conn' = "closed"
    BY <1>2, NextReads, ReadFacts DEF ReadFails
  <2>3. query' = query /\ toPost' = toPost /\ posted' = posted
    BY <1>2 DEF ReadFails, lookup
  <2>4. ReadInv'
    BY <2>2, <2>3, ReadFacts DEF ReadInv
  <2> QED BY <2>1, <2>2, <2>4 DEF NeverStranded
<1>3. CASE RunPosted
  <2>1. /\ posted # None /\ posted' = Tail(posted) /\ query' = query /\ toPost' = toPost
        /\ freed' = freed /\ conn' = conn
    BY <1>3, VerdictFacts, Zenon DEF RunPosted, lookup
  <2>2. Conclude(Head(posted), query.re, reading)
    BY <1>3, Zenon DEF RunPosted
  <2>3. reading = None /\ conn # "accepted" /\ query.at \in {"answering", "closing", "done"}
    BY <2>1, VerdictFacts, Zenon DEF ReadInv, QueryInv, Deciding
  <2>4. QueryInv'
    BY <2>1, Zenon DEF QueryInv
  <2>5. VerdictInv'
    BY <2>1, VerdictFacts, Zenon DEF VerdictInv
  <2>6. CASE Head(posted)
    <3>1. posted = Yes /\ toPost = None /\ posted' = None
      BY <2>1, <2>6, VerdictFacts, Zenon DEF VerdictInv
    <3>2. reading' = Authenticated
      BY <2>2, <2>3, <2>6, ReadFacts, Zenon DEF Conclude
    <3>3. ~Deciding'
      BY Zenon, <2>1, <2>3, <3>1, VerdictFacts DEF Deciding
    <3>4. ReadInv'
      BY <2>1, <2>3, <3>1, <3>2, <3>3, ReadFacts DEF ReadInv
    <3>5. NeverStranded'
      BY <3>2, ReadFacts, VerdictFacts, Zenon DEF NeverStranded
    <3> QED BY <2>4, <2>5, <3>4, <3>5
  <2>7. CASE ~Head(posted)
    <3>1. reading' = None
      BY <2>2, <2>3, <2>7, Zenon DEF Conclude
    <3>2. ReadInv'
      BY <2>1, <2>3, <3>1, ReadFacts DEF ReadInv
    <3>3. closeAfter'
      BY <2>2, <2>7, Zenon DEF Conclude
    <3>4. PICK a : /\ a = [type |-> "AuthAck", id |-> nextId', re |-> query.re,
                           authorized |-> Head(posted)]
                   /\ a \in writing'
      BY <2>2, Zenon DEF Conclude, SendAck
    <3>5. a.type # "PublishResponse"
      BY <3>4
    <3>6. ClosingWrite'
      BY <3>3, <3>4, <3>5, Zenon DEF ClosingWrite
    <3> QED BY <2>4, <2>5, <3>2, <3>6 DEF NeverStranded
  <2> QED BY Zenon, <2>6, <2>7
<1>4. ASSUME NEW m, handle_get_challenge_message(m) PROVE SessionInv'
  <2>1. VerdictInv' /\ QueryInv' /\ Deciding' = Deciding
    BY <1>4, SameLookup, Zenon DEF handle_get_challenge_message
  <2>2. reading = Unauthenticated /\ conn = "open" /\ reading' = Unauthenticated /\ conn' = conn
    BY <1>4, NextReads, ReadFacts DEF handle_get_challenge_message, Read, IsGet
  <2>3. query' = query /\ toPost' = toPost /\ posted' = posted
    BY <1>4 DEF handle_get_challenge_message, lookup
  <2>4. ReadInv'
    BY <2>1, <2>2, <2>3, ReadFacts DEF ReadInv
  <2>5. NeverStranded'
    BY Zenon, <2>2, ReadFacts, VerdictFacts DEF NeverStranded
  <2> QED BY <2>1, <2>4, <2>5
<1>5. ASSUME NEW m, JudgeAnswer(m) PROVE SessionInv'
  <2>1. VerdictInv' /\ QueryInv' /\ Deciding' = Deciding
    BY <1>5, SameLookup, Zenon DEF JudgeAnswer
  <2>2. reading = Unauthenticated /\ conn = "open" /\ NextRead = None /\ conn' = conn
    BY <1>5, NextReads, ReadFacts DEF JudgeAnswer, Read, IsAnswer
  <2>3. query' = query /\ toPost' = toPost /\ posted' = posted
    BY <1>5 DEF JudgeAnswer, lookup
  <2>4. CASE m.judged = "good"
    <3>1. reading' = Authenticated
      BY <1>5, <2>2, <2>4, ReadFacts DEF JudgeAnswer, Conclude
    <3>2. ReadInv'
      BY <2>1, <2>2, <2>3, <3>1, ReadFacts DEF ReadInv
    <3>3. NeverStranded'
      BY Zenon, <3>1, ReadFacts, VerdictFacts DEF NeverStranded
    <3> QED BY <2>1, <3>2, <3>3
  <2>5. CASE m.judged # "good"
    <3>1. reading' = None
      BY <1>5, <2>2, <2>5, ReadFacts DEF JudgeAnswer, Conclude
    <3>2. ReadInv'
      BY <2>1, <2>2, <2>3, <3>1, ReadFacts DEF ReadInv
    <3>3. Conclude(m.judged = "good", m.id, NextRead)
      BY <1>5, Zenon DEF JudgeAnswer
    <3>4. closeAfter'
      BY <2>5, <3>3, Zenon DEF Conclude
    <3>5. PICK a : /\ a = [type |-> "AuthAck", id |-> nextId', re |-> m.id,
                           authorized |-> m.judged = "good"]
                   /\ a \in writing'
      BY <3>3, Zenon DEF Conclude, SendAck
    <3>6. a.type # "PublishResponse"
      BY <3>5
    <3>7. ClosingWrite'
      BY <3>4, <3>5, <3>6, Zenon DEF ClosingWrite
    <3> QED BY <2>1, <3>2, <3>7 DEF NeverStranded
  <2> QED BY <2>4, <2>5
<1>6. ASSUME NEW m, LookUpUser(m) PROVE SessionInv'
  <2>1. reading = Unauthenticated /\ conn = "open" /\ reading' = None /\ conn' = conn
    BY <1>6, NextReads, ReadFacts DEF LookUpUser, Read, IsAnswer
  <2>2. query.at = "none" /\ toPost = None /\ posted = None /\ freed = 0
    BY <2>1 DEF ReadInv, QueryInv
  <2>3. /\ query' = [at |-> "connecting", session |-> FALSE, re |-> m.id]
        /\ toPost' = toPost /\ posted' = posted /\ freed' = freed
    BY <1>6 DEF LookUpUser
  <2>4. query'.at = "connecting" /\ DOMAIN query' = {"at", "session", "re"}
    BY <2>3
  <2>5. ReadInv'
    BY <2>1, <2>2, <2>3, <2>4, ReadFacts DEF ReadInv
  <2>6. VerdictInv'
    BY <2>2, <2>3, Zenon DEF VerdictInv
  <2>7. QueryInv'
    BY <2>2, <2>3, <2>4 DEF QueryInv
  <2>8. NeverStranded'
    BY <2>4 DEF NeverStranded, Deciding
  <2> QED BY <2>5, <2>6, <2>7, <2>8
<1>7. ASSUME NEW m, handle_post_message(m) PROVE SessionInv'
  <2>1. VerdictInv' /\ QueryInv' /\ Deciding' = Deciding
    BY <1>7, SameLookup, Zenon DEF handle_post_message
  <2>2. reading = Authenticated /\ reading' = Authenticated /\ conn' = conn /\ conn = "open"
    BY <1>7, NextReads, ReadFacts DEF handle_post_message, Read, IsPublish
  <2>3. query' = query /\ toPost' = toPost /\ posted' = posted
    BY <1>7 DEF handle_post_message, lookup
  <2>4. ReadInv'
    BY <2>1, <2>2, <2>3, ReadFacts DEF ReadInv
  <2>5. NeverStranded'
    BY Zenon, <2>2, ReadFacts, VerdictFacts DEF NeverStranded
  <2> QED BY <2>1, <2>4, <2>5
<1>8. ASSUME NEW m, unhandled_message(m) PROVE SessionInv'
  <2>1. VerdictInv' /\ QueryInv' /\ Deciding' = Deciding
    BY <1>8, SameLookup, Zenon DEF unhandled_message
  <2>2. reading' \in {None, Authenticated} /\ (reading' = None \/ reading' = reading) /\ conn' = "closed"
    BY <1>8, NextReads, ReadFacts DEF unhandled_message, Read
  <2>3. query' = query /\ toPost' = toPost /\ posted' = posted
    BY <1>8 DEF unhandled_message, lookup
  <2>4. ReadInv'
    BY <2>1, <2>2, <2>3, ReadFacts DEF ReadInv
  <2> QED BY <2>1, <2>2, <2>4 DEF NeverStranded
<1> QED BY <1>1, <1>2, <1>3, <1>4, <1>5, <1>6, <1>7, <1>8, Zenon DEF Io

LEMMA WritesStep == SessionInv /\ Writes => SessionInv'
<1> SUFFICES ASSUME SessionInv, NEW w \in writing, handle_write_result(w) PROVE SessionInv'
  BY Zenon DEF Writes
<1> USE DEF SessionInv
<1>1. VerdictInv' /\ QueryInv' /\ Deciding' = Deciding
  BY SameLookup, Zenon DEF handle_write_result
<1>2. /\ query' = query /\ toPost' = toPost /\ posted' = posted /\ reading' = reading
      /\ conn' = conn \/ conn' = "closed"
  BY Zenon DEF handle_write_result, lookup
<1>3. ReadInv'
  BY <1>1, <1>2 DEF ReadInv
<1>4. conn' = "open" /\ ClosingWrite => ClosingWrite'
  <2> SUFFICES ASSUME conn' = "open", ClosingWrite PROVE ClosingWrite'
    OBVIOUS
  <2>1. closeAfter /\ closeAfter' = closeAfter
    BY Zenon DEF ClosingWrite, handle_write_result, dispatcher
  <2>2. w.type = "PublishResponse"
    BY <2>1 DEF handle_write_result
  <2>3. PICK v \in writing : v.type # "PublishResponse"
    BY Zenon DEF ClosingWrite
  <2>4. v \in writing'
    BY <2>2, <2>3 DEF handle_write_result
  <2> QED BY <2>1, <2>3, <2>4, Zenon DEF ClosingWrite
<1>5. NeverStranded'
  BY <1>1, <1>2, <1>4 DEF NeverStranded
<1> QED BY <1>1, <1>3, <1>5

\* What is left alone by the steps of the lookup: the connection.
LEMMA DriverStep == SessionInv /\ Driver => SessionInv'
<1> SUFFICES ASSUME SessionInv, Driver PROVE SessionInv'
  OBVIOUS
<1> USE DEF SessionInv
<1>same. reading' = reading /\ conn' = conn /\ ClosingWrite' = ClosingWrite
  <2>1. UNCHANGED <<reading, conn, writing, dispatcher>>
    BY Zenon DEF Driver, QueryFails, after_connect, authCallback, Close, after_session_closed,
      after_result
  <2> QED BY <2>1, Zenon DEF ClosingWrite, dispatcher
<1>a. CASE query.at \in {"connecting", "executing"} /\ toPost' \in {Yes, No, NoYes, NoNo}
           /\ query' = [query EXCEPT !.at = "answering"] /\ posted' = posted /\ freed' = freed
  <2>1. reading = None /\ toPost = None /\ posted = None /\ freed = 0 /\ conn # "accepted"
    BY <1>a DEF ReadInv, QueryInv, Deciding
  <2>2. query'.at = "answering" /\ DOMAIN query' = {"at", "session", "re"}
    BY <1>a DEF QueryInv
  <2>3. toPost' # None
    BY <1>a, VerdictFacts, Zenon
  <2>4. Deciding'
    BY <2>3, VerdictFacts, Zenon DEF Deciding
  <2>5. ReadInv'
    BY <1>same, <2>1, <2>2, ReadFacts DEF ReadInv
  <2>6. VerdictInv'
    BY <1>a, <2>1, <2>3, Zenon DEF VerdictInv
  <2>7. QueryInv'
    BY <1>a, <2>1, <2>2 DEF QueryInv
  <2> QED BY <2>4, <2>5, <2>6, <2>7 DEF NeverStranded
<1>1. CASE QueryFails
  BY <1>1, <1>a, VerdictsGiven, Zenon DEF QueryFails
<1>2. ASSUME NEW user, NEW match \in BOOLEAN, after_result(user, match) PROVE SessionInv'
  BY <1>2, <1>a, VerdictsGiven, Zenon DEF after_result
<1>3. CASE after_connect
  <2>1. /\ query'.at = "executing" /\ DOMAIN query' = {"at", "session", "re"}
        /\ query.at = "connecting"
    BY <1>3 DEF after_connect, QueryInv
  <2>2. toPost' = toPost /\ posted' = posted /\ freed' = freed
    BY <1>3, Zenon DEF after_connect
  <2>3. VerdictInv'
    BY <2>2, Zenon DEF VerdictInv
  <2>4. ReadInv' /\ QueryInv' /\ NeverStranded'
    BY <1>same, <2>1, <2>2 DEF ReadInv, QueryInv, NeverStranded, Deciding
  <2> QED BY <2>3, <2>4
<1>4. CASE authCallback
  <2>1. /\ query' = query /\ freed' = freed /\ query.at = "answering" /\ toPost # None
        /\ toPost' = Tail(toPost) /\ posted' = Append(posted, Head(toPost))
    BY <1>4, VerdictFacts, Zenon DEF authCallback
  <2>2. /\ posted' \in {Yes, No, NoYes, NoNo} /\ VerdictInv'
    BY <2>1, VerdictFacts, Zenon DEF VerdictInv
  <2>3. Deciding /\ Deciding'
    BY <2>1, <2>2, VerdictFacts, Zenon DEF Deciding
  <2>4. ReadInv' /\ QueryInv'
    BY <1>same, <2>1, <2>3 DEF ReadInv, QueryInv
  <2> QED BY <2>2, <2>3, <2>4 DEF NeverStranded
<1>5. CASE Close
  <2>1. /\ toPost' = toPost /\ posted' = posted /\ toPost = None
        /\ query.at = "answering" /\ freed = 0
    BY Zenon, <1>5, VerdictFacts DEF Close, QueryInv
  <2>2. VerdictInv'
    BY <2>1, Zenon DEF VerdictInv
  <2>3. /\ DOMAIN query' = {"at", "session", "re"}
        /\ query.session => query'.at = "closing" /\ freed' = 0
        /\ ~query.session => query'.at = "done" /\ freed' = 1 /\ ~query'.session
    BY <1>5, <2>1 DEF Close, QueryInv
  <2>4. ReadInv' /\ QueryInv' /\ NeverStranded'
    BY <1>same, <2>1, <2>3 DEF ReadInv, QueryInv, NeverStranded, Deciding
  <2> QED BY <2>2, <2>4
<1>6. CASE after_session_closed
  <2>1. toPost' = toPost /\ posted' = posted /\ query.at = "closing" /\ freed = 0 /\ freed' = 1
    BY <1>6 DEF after_session_closed, QueryInv
  <2>2. VerdictInv'
    BY <2>1, Zenon DEF VerdictInv
  <2>3. /\ DOMAIN query' = {"at", "session", "re"}
        /\ query'.at = "done" /\ ~query'.session
    BY <1>6, <2>1 DEF after_session_closed, QueryInv
  <2>4. ReadInv' /\ QueryInv' /\ NeverStranded'
    BY <1>same, <2>1, <2>3 DEF ReadInv, QueryInv, NeverStranded, Deciding
  <2> QED BY <2>2, <2>4
<1> QED BY <1>1, <1>2, <1>3, <1>4, <1>5, <1>6, Zenon DEF Driver

\* Of the connection itself, SessionInv only needs that it does not open again.
LEMMA ConnectionStep ==
  ASSUME SessionInv, UNCHANGED <<reading, writing, closeAfter, lookup, posted>>,
         conn' = conn \/ conn' = "closed"
  PROVE  SessionInv'
<1>1. VerdictInv' /\ QueryInv' /\ Deciding' = Deciding
  BY SameLookup, Zenon DEF SessionInv
<1>2. /\ query' = query /\ toPost' = toPost /\ posted' = posted /\ reading' = reading
      /\ ClosingWrite' = ClosingWrite
  BY Zenon DEF lookup, ClosingWrite
<1> QED BY <1>1, <1>2 DEF SessionInv, ReadInv, NeverStranded

(***************************************************************************)
(* SessionInv holds in every state: the strengthening under the three      *)
(* results below.                                                          *)
(***************************************************************************)
THEOREM SessionInvariant == Spec => []SessionInv
<1>1. Init => SessionInv
  BY InitSession
<1>2. SessionInv /\ [Next]_vars => SessionInv'
  <2> SUFFICES ASSUME SessionInv, [Next]_vars PROVE SessionInv'
    OBVIOUS
  <2>1. CASE Io
    BY <2>1, IoStep
  <2>2. CASE Writes
    BY <2>2, WritesStep
  <2>3. CASE Driver
    BY <2>3, DriverStep
  <2>4. ASSUME NEW m, ClientSends(m) PROVE SessionInv'
    BY ConnectionStep, <2>4, Zenon DEF ClientSends, dispatcher
  <2>5. CASE Disconnect
    BY ConnectionStep, <2>5, Zenon DEF Disconnect, dispatcher
  <2>6. CASE UNCHANGED vars
    BY ConnectionStep, <2>6, Zenon DEF vars, dispatcher
  <2> QED BY <2>1, <2>2, <2>3, <2>4, <2>5, <2>6, Zenon DEF Next
<1> QED BY <1>1, <1>2, PTL DEF Spec

(***************************************************************************)
(* Reads on one socket never overlap, whatever the client sends and        *)
(* whenever the driver's thread delivers its verdicts.                     *)
(***************************************************************************)
THEOREM OneReadAtATime == Spec => []ReadsDoNotOverlap
<1>1. SessionInv => ReadsDoNotOverlap
  BY ReadFacts DEF SessionInv, ReadInv, ReadsDoNotOverlap
<1> QED BY <1>1, SessionInvariant, PTL

(***************************************************************************)
(* An open connection always has someone who will act on it.               *)
(***************************************************************************)
THEOREM OpenIsServed == Spec => []NeverStranded
<1>1. SessionInv => NeverStranded
  BY DEF SessionInv
<1> QED BY <1>1, SessionInvariant, PTL

(***************************************************************************)
(* The state of a lookup is deleted at most once, at its end.              *)
(***************************************************************************)
THEOREM QueryStateFreedOnce == Spec => []QueryFreedOnce
<1>1. SessionInv => QueryFreedOnce
  BY DEF SessionInv, QueryInv, QueryFreedOnce
<1> QED BY <1>1, SessionInvariant, PTL
=============================================================================
