------------------------- MODULE MessageQueueProofs -------------------------
(***************************************************************************)
(* Proofs about MessageQueue, for any ids, clocks, TTLs and threads: its   *)
(* counter and its index, that it drops nothing early and keeps its order, *)
(* and that it implements QueueContract.                                   *)
(*                                                                         *)
(* The counter, the index and the two collections are tied together by the *)
(* fact that no two things in the queue are mistaken for each other:       *)
(* messages held and enqueue calls under way have different serials, and,  *)
(* when producers never publish an id again, different ids.                *)
(***************************************************************************)
EXTENDS MessageQueue, TLAPS

Differ(x, y) == x.serial # y.serial /\ (Resend \/ x.id # y.id)
KnownIn(x, k, A) == x.serial <= k /\ \E a \in A : a.id = x.id
Known(x) == KnownIn(x, serial, asked)

Busy(t) == calls[t] # Idle

UnstampedInv ==
  /\ \A u \in unstamped : Known(u)
  /\ \A u, v \in unstamped : u # v => Differ(u, v)

QueuedInv ==
  /\ \A i \in 1 .. Len(queued) : Known(queued[i])
  /\ \A i, j \in 1 .. Len(queued) : i # j => Differ(queued[i], queued[j])
  /\ \A u \in unstamped, i \in 1 .. Len(queued) : Differ(u, queued[i])

CallInv ==
  /\ \A t \in Threads : Busy(t) => Known(calls[t])
  /\ \A s, t \in Threads : s # t /\ Busy(s) /\ Busy(t) => Differ(calls[s], calls[t])
  /\ \A t \in Threads, u \in unstamped : Busy(t) => Differ(u, calls[t])
  /\ \A t \in Threads, i \in 1 .. Len(queued) : Busy(t) => Differ(queued[i], calls[t])

Distinct == UnstampedInv /\ QueuedInv /\ CallInv

IndexInv ==
  ~Resend =>
    /\ \A e \in index : \E a \in asked : a.id = e.id
    /\ \A e \in index, u \in unstamped : e.id # u.id
    /\ \A e \in index, t \in Threads : Busy(t) => e.id # calls[t].id
    /\ IndexFindsQueued

SizeInv == SizeCoversHeld /\ (~Resend => SizeExact)

QueueInv == TypeOK /\ Distinct /\ IndexInv /\ SizeInv

\* What inserting e at position p of s gives.
Inserted(q, s, p, e) ==
  /\ q \in Seq(Queued) /\ Len(q) = Len(s) + 1 /\ q[p] = e
  /\ \A j \in 1 .. p - 1 : q[j] = s[j]
  /\ \A j \in p + 1 .. Len(s) + 1 : q[j] = s[j - 1]

Holds(U, Q, c) == (\E u \in U : u.serial = c) \/ \E i \in 1 .. Len(Q) : Q[i].serial = c
-----------------------------------------------------------------------------
LEMMA HeldIs ==
  ASSUME NEW U, NEW Q \in Seq(Queued), NEW c
  PROVE  c \in {m.serial : m \in U \cup Range(Q)} <=> Holds(U, Q, c)
BY DEF Holds, Range

LEMMA InsertAtEffect ==
  ASSUME NEW s \in Seq(Queued), NEW e \in Queued, NEW p \in 1 .. Len(s) + 1
  PROVE  Inserted(InsertAt(s, p, e), s, p, e)
<1> DEFINE a == SubSeq(s, 1, p - 1)
           b == SubSeq(s, p, Len(s))
<1>1. a \in Seq(Queued) /\ Len(a) = p - 1 /\ \A j \in 1 .. p - 1 : a[j] = s[j]
  OBVIOUS
<1>2. b \in Seq(Queued) /\ Len(b) = Len(s) - p + 1 /\ \A j \in 1 .. Len(s) - p + 1 : b[j] = s[p + j - 1]
  OBVIOUS
<1> HIDE DEF a, b
<1> DEFINE c == a \o <<e>>
<1>3. c \in Seq(Queued) /\ Len(c) = p /\ c[p] = e /\ \A j \in 1 .. p - 1 : c[j] = a[j]
  BY <1>1
<1> HIDE DEF c
<1>4. /\ c \o b \in Seq(Queued) /\ Len(c \o b) = Len(s) + 1
      /\ \A j \in 1 .. p : (c \o b)[j] = c[j]
      /\ \A j \in p + 1 .. Len(s) + 1 : (c \o b)[j] = b[j - p]
  <2>1. c \in Seq(Queued) /\ b \in Seq(Queued)
    BY Zenon, <1>2, <1>3
  <2>2. /\ c \o b \in Seq(Queued) /\ Len(c \o b) = Len(c) + Len(b)
        /\ \A j \in 1 .. Len(c) + Len(b) : (c \o b)[j] = IF j <= Len(c) THEN c[j] ELSE b[j - Len(c)]
    BY <2>1
  <2>3. Len(c) + Len(b) = Len(s) + 1 /\ Len(s) \in Nat
    BY <1>2, <1>3
  <2> QED
    BY <2>1, <2>2, <2>3, <1>3
<1>5. InsertAt(s, p, e) = c \o b
  BY Zenon DEF InsertAt, a, b, c
<1>6. \A j \in p + 1 .. Len(s) + 1 : j - p \in 1 .. Len(s) - p + 1 /\ b[j - p] = s[j - 1]
  BY <1>2
<1> QED
  BY <1>1, <1>3, <1>4, <1>5, <1>6 DEF Inserted

LEMMA OlderEffect ==
  ASSUME NEW x, x \in Unstamped \/ x \in Queued
  PROVE  /\ x \in Unstamped => Older(x) \in Unstamped
         /\ x \in Queued => Older(x) \in Queued /\ Older(x).clock = x.clock
         /\ Older(x).id = x.id /\ Older(x).serial = x.serial
BY MessageQueueAssumption DEF Older, Unstamped, Queued

LEMMA CallAt ==
  ASSUME TypeOK, NEW t \in Threads
  PROVE  /\ calls[t] = Idle <=> calls[t].at = "idle"
         /\ Busy(t) => /\ calls[t].id \in Ids /\ calls[t].ttl \in Ttls
                       /\ calls[t].serial \in Nat /\ calls[t] \in Call
BY DEF TypeOK, Call, Idle, Busy

LEMMA QueuedFields ==
  ASSUME TypeOK, NEW i \in 1 .. Len(queued)
  PROVE  /\ queued[i] \in Queued /\ queued[i].id \in Ids /\ queued[i].serial \in Nat
         /\ queued[i].age \in 0 .. AgeCap /\ queued[i].clock \in Clocks
<1>1. queued[i] \in Queued
  BY DEF TypeOK
<1> QED
  BY Zenon, <1>1 DEF Queued

LEMMA BeginKeepsInv ==
  ASSUME QueueInv, NEW t \in Threads, NEW id \in Ids, NEW secs \in Ttls, EnqueueBegin(t, id, secs)
  PROVE  QueueInv'
<1>type. TypeOK
  BY Zenon DEF QueueInv
<1>uns. UnstampedInv
  BY Zenon DEF QueueInv, Distinct
<1>que. QueuedInv
  BY Zenon DEF QueueInv, Distinct
<1>cal. CallInv
  BY Zenon DEF QueueInv, Distinct
<1>idx. IndexInv
  BY Zenon DEF QueueInv
<1>siz. SizeInv
  BY Zenon DEF QueueInv
<1> DEFINE d == [at |-> IF ttlSet THEN "insert" ELSE "unset", id |-> id, ttl |-> secs, serial |-> serial']
           b == [id |-> id, ttl |-> secs]
<1>0. d \in Call /\ d.id = id /\ d.serial = serial + 1 /\ d # Idle
  BY <1>type DEF EnqueueBegin, Call, Idle, TypeOK
<1> PICK c : c = d
  BY Zenon
<1>1. /\ calls[t] = Idle /\ serial' = serial + 1 /\ serial \in Nat /\ calls' = [calls EXCEPT ![t] = c]
      /\ asked' = asked \cup {b}
      /\ Resend \/ \A a \in asked : a.id # id
      /\ unstamped' = unstamped /\ queued' = queued /\ index' = index /\ charged' = charged
      /\ ttlSet' = ttlSet /\ ttl' = ttl
  BY Zenon, <1>type DEF EnqueueBegin, TypeOK
<1>2. c \in Call /\ c.id = id /\ c.serial = serial + 1 /\ c # Idle
  BY Zenon, <1>0
<1> HIDE DEF d
<1>3. calls' \in [Threads -> Call] /\ \A s \in Threads : calls'[s] = IF s = t THEN c ELSE calls[s]
  BY Zenon, <1>type, <1>1, <1>2 DEF TypeOK
<1>4. TypeOK'
  BY <1>type, <1>1, <1>3 DEF TypeOK
<1>5. \A x : Known(x) /\ x.serial \in Nat => Known(x)' /\ Differ(x, c)
  BY <1>1, <1>2 DEF Known, KnownIn, Differ
<1>6. b \in asked' /\ b.id = c.id
  BY Zenon, <1>1, <1>2
<1> HIDE DEF b
<1>7. KnownIn(c, serial', asked')
  <2>1. c.serial <= serial'
    BY <1>1, <1>2
  <2>2. \E a \in asked' : a.id = c.id
    BY Zenon, <1>6
  <2> QED
    BY Zenon, <2>1, <2>2 DEF KnownIn
<1>8. \A u \in unstamped : Known(u) /\ u.serial \in Nat
  BY Zenon, <1>uns, <1>type DEF UnstampedInv, TypeOK, Unstamped
<1>9. \A i \in 1 .. Len(queued) : Known(queued[i]) /\ queued[i].serial \in Nat
  BY Zenon, <1>que, <1>type, QueuedFields DEF QueuedInv
<1>10. \A s \in Threads : Busy(s) => Known(calls[s]) /\ calls[s].serial \in Nat
  BY Zenon, <1>cal, <1>type, CallAt DEF CallInv
<1>11. UnstampedInv'
  BY Zenon, <1>uns, <1>1, <1>5, <1>8 DEF UnstampedInv
<1>12. QueuedInv'
  BY Zenon, <1>que, <1>1, <1>5, <1>9 DEF QueuedInv
<1>13. CallInv'
  <2>1. \A s \in Threads : Busy(s)' => KnownIn(calls'[s], serial', asked')
    BY Zenon, <1>3, <1>5, <1>7, <1>10 DEF Busy, Known
  <2>2. \A r, s \in Threads : r # s /\ Busy(r)' /\ Busy(s)' => Differ(calls'[r], calls'[s])
    BY <1>cal, <1>3, <1>5, <1>10 DEF Busy, CallInv, Differ
  <2>3. \A s \in Threads, u \in unstamped : Busy(s)' => Differ(u, calls'[s])
    BY Zenon, <1>cal, <1>3, <1>5, <1>8 DEF Busy, CallInv
  <2>4. \A s \in Threads, i \in 1 .. Len(queued) : Busy(s)' => Differ(queued[i], calls'[s])
    BY Zenon, <1>cal, <1>3, <1>5, <1>9 DEF Busy, CallInv
  <2> QED
    BY Zenon, <1>cal, <1>1, <2>1, <2>2, <2>3, <2>4 DEF CallInv, Known
<1>14. IndexInv'
  BY <1>idx, <1>1, <1>2, <1>3 DEF IndexInv, IndexFindsQueued, Busy
<1>15. SizeInv'
  BY Zenon, <1>siz, <1>1 DEF SizeInv, SizeCoversHeld, SizeExact, HeldSerials, Messages
<1> QED
  BY Zenon, <1>4, <1>11, <1>12, <1>13, <1>14, <1>15 DEF QueueInv, Distinct

LEMMA SetKeepsInv ==
  ASSUME QueueInv, NEW t \in Threads, EnqueueSetFlag(t) \/ EnqueueSetTtl(t)
  PROVE  QueueInv'
<1>type. TypeOK
  BY Zenon DEF QueueInv
<1>uns. UnstampedInv
  BY Zenon DEF QueueInv, Distinct
<1>que. QueuedInv
  BY Zenon DEF QueueInv, Distinct
<1>cal. CallInv
  BY Zenon DEF QueueInv, Distinct
<1>idx. IndexInv
  BY Zenon DEF QueueInv
<1>siz. SizeInv
  BY Zenon DEF QueueInv
<1> PICK w \in {"ttl", "insert"} :
      /\ calls[t].at \in {"unset", "ttl"} /\ calls' = [calls EXCEPT ![t].at = w]
      /\ ttlSet' \in BOOLEAN /\ ttl' \in {ttl, calls[t].ttl}
      /\ UNCHANGED <<unstamped, queued, index, charged, serial, asked>>
  BY Zenon, <1>type DEF EnqueueSetFlag, EnqueueSetTtl, TypeOK
<1> DEFINE c == [calls[t] EXCEPT !.at = w]
<1>1. Busy(t)
  BY Zenon, <1>type, CallAt DEF Busy
<1>2. calls[t] \in [at : {"unset", "ttl", "insert"}, id : Ids, ttl : Ttls, serial : Nat]
  BY Zenon, <1>type, <1>1 DEF Busy, TypeOK, Call
<1>3. c \in Call /\ c.id = calls[t].id /\ c.serial = calls[t].serial /\ c # Idle
  BY Zenon, <1>2 DEF Call, Idle
<1>4. calls' = [calls EXCEPT ![t] = c]
  BY Zenon
<1> HIDE DEF c
<1>5. calls' \in [Threads -> Call] /\ \A s \in Threads : calls'[s] = IF s = t THEN c ELSE calls[s]
  BY <1>type, <1>3, <1>4 DEF TypeOK
<1>6. \A s \in Threads : /\ Busy(s)' <=> Busy(s)
                         /\ calls'[s].id = calls[s].id /\ calls'[s].serial = calls[s].serial
  BY Zenon, <1>1, <1>3, <1>5 DEF Busy
<1>7. TypeOK'
  BY <1>type, <1>1, <1>5, CallAt DEF TypeOK
<1>8. \A x : Known(x)' <=> Known(x)
  BY Zenon DEF Known
<1>9. UnstampedInv' /\ QueuedInv'
  BY Zenon, <1>uns, <1>que, <1>8 DEF UnstampedInv, QueuedInv
<1>10. CallInv'
  BY <1>cal, <1>6, <1>8 DEF CallInv, Known, KnownIn, Differ
<1>11. IndexInv'
  BY <1>idx, <1>6 DEF IndexInv, IndexFindsQueued
<1>12. SizeInv'
  BY Zenon, <1>siz DEF SizeInv, SizeCoversHeld, SizeExact, HeldSerials, Messages
<1> QED
  BY Zenon, <1>7, <1>9, <1>10, <1>11, <1>12 DEF QueueInv, Distinct

LEMMA InsertKeepsInv ==
  ASSUME QueueInv, NEW t \in Threads, EnqueueInsert(t)
  PROVE  QueueInv' /\ HeldSerials \subseteq HeldSerials'
<1>type. TypeOK
  BY Zenon DEF QueueInv
<1>uns. UnstampedInv
  BY Zenon DEF QueueInv, Distinct
<1>que. QueuedInv
  BY Zenon DEF QueueInv, Distinct
<1>cal. CallInv
  BY Zenon DEF QueueInv, Distinct
<1>idx. IndexInv
  BY Zenon DEF QueueInv
<1>siz. SizeInv
  BY Zenon DEF QueueInv
<1> DEFINE e == [id |-> calls[t].id, serial |-> calls[t].serial, age |-> 0]
           Waits == \E u \in unstamped : u.id = calls[t].id
<1>1. /\ calls[t].at = "insert" /\ charged' = charged \cup {calls[t].serial}
      /\ unstamped' = IF Waits THEN unstamped ELSE unstamped \cup {e}
      /\ calls' = [calls EXCEPT ![t] = Idle]
      /\ queued' = queued /\ index' = index /\ ttlSet' = ttlSet /\ ttl' = ttl
      /\ serial' = serial /\ asked' = asked
  BY Zenon DEF EnqueueInsert
<1>2. Busy(t) /\ calls[t].id \in Ids /\ calls[t].serial \in Nat
  BY Zenon, <1>type, <1>1, CallAt DEF Busy
<1>3. e \in Unstamped /\ e.id = calls[t].id /\ e.serial = calls[t].serial
  BY <1>2, MessageQueueAssumption DEF Unstamped
<1> HIDE DEF e
<1>4. unstamped' \subseteq unstamped \cup {e} /\ unstamped \subseteq unstamped'
  BY Zenon, <1>1
<1>5. calls' \in [Threads -> Call] /\ \A s \in Threads : calls'[s] = IF s = t THEN Idle ELSE calls[s]
  BY Zenon, <1>type, <1>1 DEF TypeOK, Call
<1>6. \A s \in Threads : Busy(s)' => s # t /\ Busy(s) /\ calls'[s] = calls[s]
  BY Zenon, <1>5 DEF Busy
<1>7. TypeOK'
  BY Zenon, <1>type, <1>1, <1>2, <1>3, <1>4, <1>5 DEF TypeOK
<1>8. \A x : Known(x)' <=> Known(x)
  BY Zenon, <1>1 DEF Known
<1>9. Known(e)
  BY Zenon, <1>cal, <1>2, <1>3 DEF CallInv, Known, KnownIn
<1>10. /\ \A u \in unstamped : Differ(u, e) /\ Differ(e, u)
       /\ \A i \in 1 .. Len(queued) : Differ(e, queued[i])
       /\ \A s \in Threads : s # t /\ Busy(s) => Differ(e, calls[s])
  BY <1>cal, <1>2, <1>3 DEF CallInv, Differ
<1>11. UnstampedInv'
  BY Zenon, <1>uns, <1>4, <1>8, <1>9, <1>10 DEF UnstampedInv
<1>12. QueuedInv'
  BY Zenon, <1>que, <1>1, <1>4, <1>8, <1>10 DEF QueuedInv
<1>13. CallInv'
  BY <1>cal, <1>1, <1>4, <1>6, <1>8, <1>10 DEF CallInv
<1>14. IndexInv'
  <2> SUFFICES ASSUME ~Resend PROVE IndexInv'
    BY Zenon, <1>idx DEF IndexInv
  <2>1. \A x \in index : x.id # e.id
    BY <1>idx, <1>2, <1>3 DEF IndexInv
  <2> QED
    BY <1>idx, <1>1, <1>4, <1>6, <2>1 DEF IndexInv, IndexFindsQueued
<1>15. SizeInv' /\ HeldSerials \subseteq HeldSerials'
  <2>1. \A c : c \in HeldSerials <=> Holds(unstamped, queued, c)
    BY Zenon, <1>type, HeldIs DEF TypeOK, HeldSerials, Messages
  <2>2. \A c : c \in HeldSerials' <=> Holds(unstamped', queued', c)
    BY Zenon, <1>type, <1>7, HeldIs DEF TypeOK, HeldSerials, Messages
  <2>3. SizeCoversHeld'
    BY Zenon, <1>siz, <2>1, <2>2, <1>1, <1>3, <1>4 DEF Holds, SizeInv, SizeCoversHeld
  <2>4. ASSUME ~Resend PROVE SizeExact'
    <3>1. ~Waits
      BY Zenon, <1>cal, <2>4, <1>2 DEF CallInv, Differ
    <3>2. e \in unstamped'
      BY Zenon, <3>1, <1>1
    <3> QED
      BY <1>siz, <2>1, <2>2, <2>3, <2>4, <3>2, <1>1, <1>3, <1>4
      DEF Holds, SizeInv, SizeCoversHeld, SizeExact
  <2>5. HeldSerials \subseteq HeldSerials'
    BY Zenon, <2>1, <2>2, <1>1, <1>4 DEF Holds
  <2> QED
    BY Zenon, <1>siz, <2>3, <2>4, <2>5 DEF SizeInv
<1> QED
  BY Zenon, <1>7, <1>11, <1>12, <1>13, <1>14, <1>15 DEF QueueInv, Distinct

LEMMA StampKeepsInv ==
  ASSUME QueueInv, NEW id \in Ids, NEW clock \in Clocks, Stamp(id, clock)
  PROVE  QueueInv' /\ HeldSerials' = HeldSerials
<1>type. TypeOK
  BY Zenon DEF QueueInv
<1>uns. UnstampedInv
  BY Zenon DEF QueueInv, Distinct
<1>que. QueuedInv
  BY Zenon DEF QueueInv, Distinct
<1>cal. CallInv
  BY Zenon DEF QueueInv, Distinct
<1>idx. IndexInv
  BY Zenon DEF QueueInv
<1>siz. SizeInv
  BY Zenon DEF QueueInv
<1> DEFINE Msg(u) == [id |-> id, serial |-> u.serial, age |-> 0, clock |-> clock]
           Entry(u) == [id |-> id, serial |-> u.serial]
<1>pick. PICK u \in unstamped, p \in 1 .. Len(queued) + 1 :
      /\ u.id = id /\ queued' = InsertAt(queued, p, Msg(u))
      /\ index' = IF \E x \in index : x.id = id THEN index ELSE index \cup {Entry(u)}
      /\ unstamped' = unstamped \ {u}
      /\ UNCHANGED <<charged, ttlSet, ttl, calls, serial, asked>>
  BY Zenon DEF Stamp
<1>same. /\ u \in unstamped /\ unstamped' = unstamped \ {u} /\ charged' = charged
         /\ ttlSet' = ttlSet /\ ttl' = ttl /\ calls' = calls /\ serial' = serial /\ asked' = asked
  BY Zenon, <1>pick
<1>1. u.serial \in Nat /\ u.id = id
  BY Zenon, <1>type, <1>pick DEF TypeOK, Unstamped
<1>2. Msg(u) \in Queued /\ Msg(u).id = u.id /\ Msg(u).serial = u.serial
  BY <1>1, MessageQueueAssumption DEF Queued
<1>msg. PICK e : e = Msg(u)
  BY Zenon
<1>3. e \in Queued /\ e.id = u.id /\ e.serial = u.serial /\ queued' = InsertAt(queued, p, e)
  BY Zenon, <1>2, <1>pick, <1>msg
<1>4. Entry(u) \in [id : Ids, serial : Nat] /\ Entry(u).id = u.id
  BY Zenon, <1>1
<1>5. Entry(u) = [id |-> e.id, serial |-> e.serial]
  BY Zenon, <1>1, <1>3
<1>entry. PICK n : n = Entry(u)
  BY Zenon
<1>6. /\ n \in [id : Ids, serial : Nat] /\ n.id = u.id /\ n = [id |-> e.id, serial |-> e.serial]
      /\ index' = IF \E x \in index : x.id = u.id THEN index ELSE index \cup {n}
  BY Zenon, <1>pick, <1>entry, <1>1, <1>4, <1>5
<1> HIDE DEF Msg, Entry
<1> DEFINE Old(j) == IF j < p THEN j ELSE j - 1
           New(i) == IF i < p THEN i ELSE i + 1
<1>7. queued \in Seq(Queued) /\ Len(queued) \in Nat /\ p \in Nat /\ p \in 1 .. Len(queued) + 1
  BY <1>type, <1>pick DEF TypeOK
<1>8. /\ queued' \in Seq(Queued) /\ Len(queued') = Len(queued) + 1 /\ queued'[p] = e
      /\ \A j \in 1 .. p - 1 : queued'[j] = queued[j]
      /\ \A j \in p + 1 .. Len(queued) + 1 : queued'[j] = queued[j - 1]
  <2>1. Inserted(InsertAt(queued, p, e), queued, p, e)
    BY Zenon, <1>3, <1>7, InsertAtEffect
  <2>2. Inserted(queued', queued, p, e)
    BY Zenon, <2>1, <1>3
  <2> QED
    BY Zenon, <2>2 DEF Inserted
<1>9. \A j \in 1 .. Len(queued') : j # p => Old(j) \in 1 .. Len(queued) /\ queued'[j] = queued[Old(j)]
  <2> SUFFICES ASSUME NEW j \in 1 .. Len(queued'), j # p
               PROVE  Old(j) \in 1 .. Len(queued) /\ queued'[j] = queued[Old(j)]
    BY Zenon
  <2>1. CASE j < p
    <3>1. Old(j) = j /\ j \in 1 .. p - 1 /\ j \in 1 .. Len(queued)
      BY <2>1, <1>7, <1>8
    <3> QED
      BY Zenon, <3>1, <1>8
  <2>2. CASE ~(j < p)
    <3>1. Old(j) = j - 1 /\ j \in p + 1 .. Len(queued) + 1 /\ j - 1 \in 1 .. Len(queued)
      BY <2>2, <1>7, <1>8
    <3> QED
      BY Zenon, <3>1, <1>8
  <2> QED
    BY Zenon, <2>1, <2>2
<1>10. \A j, k \in 1 .. Len(queued') : j # p /\ k # p /\ j # k => Old(j) # Old(k)
  BY <1>7, <1>8
<1>11. \A i \in 1 .. Len(queued) : New(i) \in 1 .. Len(queued') /\ queued'[New(i)] = queued[i]
  <2> SUFFICES ASSUME NEW i \in 1 .. Len(queued)
               PROVE  New(i) \in 1 .. Len(queued') /\ queued'[New(i)] = queued[i]
    BY Zenon
  <2>1. CASE i < p
    <3>1. New(i) = i /\ i \in 1 .. p - 1 /\ i \in 1 .. Len(queued')
      BY <2>1, <1>7, <1>8
    <3> QED
      BY Zenon, <3>1, <1>8
  <2>2. CASE ~(i < p)
    <3>1. /\ New(i) = i + 1 /\ i + 1 \in p + 1 .. Len(queued) + 1
          /\ i + 1 \in 1 .. Len(queued') /\ (i + 1) - 1 = i
      BY <2>2, <1>7, <1>8
    <3>2. queued'[i + 1] = queued[(i + 1) - 1]
      BY Zenon, <3>1, <1>8
    <3> QED
      BY Zenon, <3>1, <3>2
  <2> QED
    BY Zenon, <2>1, <2>2
<1>12. p \in 1 .. Len(queued')
  BY Zenon, <1>7, <1>8
<1> HIDE DEF Old, New
<1>13. TypeOK'
  BY Zenon, <1>type, <1>same, <1>6, <1>8 DEF TypeOK
<1>14. \A x : Known(x)' <=> Known(x)
  BY Zenon, <1>same DEF Known
<1>15. /\ \A i \in 1 .. Len(queued) : Differ(e, queued[i]) /\ Differ(queued[i], e)
       /\ \A v \in unstamped' : Differ(v, e)
       /\ \A t \in Threads : Busy(t) => Differ(e, calls[t])
       /\ Known(e)
  BY <1>uns, <1>que, <1>cal, <1>same, <1>3
     DEF UnstampedInv, QueuedInv, CallInv, Differ, Known, KnownIn
<1>16. UnstampedInv'
  BY Zenon, <1>uns, <1>same, <1>14 DEF UnstampedInv
<1>17. QueuedInv'
  <2>1. \A j \in 1 .. Len(queued') : Known(queued'[j])
    BY Zenon, <1>que, <1>same, <1>8, <1>9, <1>15 DEF QueuedInv
  <2>2. \A j, k \in 1 .. Len(queued') : j # k => Differ(queued'[j], queued'[k])
    <3> SUFFICES ASSUME NEW j \in 1 .. Len(queued'), NEW k \in 1 .. Len(queued'), j # k
                 PROVE  Differ(queued'[j], queued'[k])
      BY Zenon
    <3>1. CASE j = p
      <4>1. Old(k) \in 1 .. Len(queued) /\ queued'[k] = queued[Old(k)] /\ queued'[j] = e
        BY Zenon, <3>1, <1>8, <1>9
      <4> QED
        BY Zenon, <4>1, <1>15
    <3>2. CASE k = p
      <4>1. Old(j) \in 1 .. Len(queued) /\ queued'[j] = queued[Old(j)] /\ queued'[k] = e
        BY Zenon, <3>2, <1>8, <1>9
      <4> QED
        BY Zenon, <4>1, <1>15
    <3>3. CASE j # p /\ k # p
      <4>1. /\ Old(j) \in 1 .. Len(queued) /\ queued'[j] = queued[Old(j)]
            /\ Old(k) \in 1 .. Len(queued) /\ queued'[k] = queued[Old(k)] /\ Old(j) # Old(k)
        BY <3>3, <1>9, <1>10
      <4> QED
        BY <1>que, <4>1 DEF QueuedInv
    <3> QED
      BY <3>1, <3>2, <3>3
  <2>3. \A v \in unstamped', j \in 1 .. Len(queued') : Differ(v, queued'[j])
    BY <1>que, <1>same, <1>8, <1>9, <1>15 DEF QueuedInv
  <2> QED
    BY Zenon, <1>same, <2>1, <2>2, <2>3 DEF QueuedInv, Known
<1>18. CallInv'
  <2>1. \A t \in Threads, j \in 1 .. Len(queued') : Busy(t) => Differ(queued'[j], calls[t])
    BY Zenon, <1>cal, <1>8, <1>9, <1>15 DEF CallInv
  <2> QED
    BY <1>cal, <1>same, <2>1, <1>14 DEF CallInv, Busy
<1>19. IndexInv'
  <2> SUFFICES ASSUME ~Resend PROVE IndexInv'
    BY Zenon, <1>idx DEF IndexInv
  <2>1. index' = index \cup {n}
    BY Zenon, <1>idx, <1>same, <1>6 DEF IndexInv
  <2>2. \A x \in index' : \E a \in asked : a.id = x.id
    BY <1>idx, <1>uns, <1>same, <2>1, <1>6 DEF IndexInv, UnstampedInv, Known, KnownIn
  <2>3. \A x \in index', v \in unstamped' : x.id # v.id
    BY <1>idx, <1>uns, <1>same, <2>1, <1>6 DEF IndexInv, UnstampedInv, Differ
  <2>4. \A x \in index', t \in Threads : Busy(t) => x.id # calls[t].id
    BY <1>idx, <1>cal, <1>same, <2>1, <1>6 DEF IndexInv, CallInv, Differ
  <2>5. ASSUME NEW j \in 1 .. Len(queued')
        PROVE  [id |-> queued'[j].id, serial |-> queued'[j].serial] \in index'
    <3>1. CASE j = p
      BY Zenon, <3>1, <2>1, <1>6, <1>8
    <3>2. CASE j # p
      BY Zenon, <1>idx, <3>2, <2>1, <1>9 DEF IndexInv, IndexFindsQueued
    <3> QED
      BY Zenon, <3>1, <3>2
  <2> QED
    BY <1>same, <2>2, <2>3, <2>4, <2>5 DEF IndexInv, IndexFindsQueued, Busy
<1>20. SizeInv' /\ HeldSerials' = HeldSerials
  <2>1. \A c : c \in HeldSerials <=> Holds(unstamped, queued, c)
    BY Zenon, <1>type, HeldIs DEF TypeOK, HeldSerials, Messages
  <2>2. \A c : c \in HeldSerials' <=> Holds(unstamped', queued', c)
    BY Zenon, <1>type, <1>13, HeldIs DEF TypeOK, HeldSerials, Messages
  <2>3. \A c : Holds(unstamped', queued', c) => Holds(unstamped, queued, c)
    <3> SUFFICES ASSUME NEW c, Holds(unstamped', queued', c) PROVE Holds(unstamped, queued, c)
      BY Zenon
    <3>1. ASSUME NEW v \in unstamped', v.serial = c PROVE Holds(unstamped, queued, c)
      BY Zenon, <3>1, <1>same DEF Holds
    <3>2. ASSUME NEW j \in 1 .. Len(queued'), queued'[j].serial = c PROVE Holds(unstamped, queued, c)
      <4>1. CASE j = p
        BY <3>2, <4>1, <1>same, <1>3, <1>8 DEF Holds
      <4>2. CASE j # p
        BY <3>2, <4>2, <1>9 DEF Holds
      <4> QED
        BY Zenon, <4>1, <4>2
    <3> QED
      BY Zenon, <3>1, <3>2 DEF Holds
  <2>4. \A c : Holds(unstamped, queued, c) => Holds(unstamped', queued', c)
    BY <1>same, <1>3, <1>8, <1>11, <1>12 DEF Holds
  <2>5. HeldSerials' = HeldSerials
    BY Zenon, <2>1, <2>2, <2>3, <2>4
  <2> QED
    BY Zenon, <1>siz, <1>same, <2>5 DEF SizeInv, SizeCoversHeld, SizeExact
<1> QED
  BY Zenon, <1>13, <1>16, <1>17, <1>18, <1>19, <1>20 DEF QueueInv, Distinct

LEMMA ExpireKeepsInv ==
  ASSUME QueueInv, ExpireMessages
  PROVE  QueueInv'
<1>type. TypeOK
  BY Zenon DEF QueueInv
<1>uns. UnstampedInv
  BY Zenon DEF QueueInv, Distinct
<1>que. QueuedInv
  BY Zenon DEF QueueInv, Distinct
<1>cal. CallInv
  BY Zenon DEF QueueInv, Distinct
<1>idx. IndexInv
  BY Zenon DEF QueueInv
<1>siz. SizeInv
  BY Zenon DEF QueueInv
<1> DEFINE Due(k) == {queued[i].serial : i \in 1 .. k}
                     \cup {u.serial : u \in {v \in unstamped : Expired(v)}}
<1> PICK k \in 0 .. Len(queued) :
      /\ queued' = SubSeq(queued, k + 1, Len(queued))
      /\ unstamped' = {u \in unstamped : ~Expired(u)}
      /\ charged' = charged \ Due(k)
      /\ UNCHANGED <<index, ttlSet, ttl, calls, serial, asked>>
  BY Zenon DEF ExpireMessages
<1>1. queued \in Seq(Queued) /\ Len(queued) \in Nat /\ k \in Nat
  BY <1>type DEF TypeOK
<1>2. /\ queued' \in Seq(Queued) /\ Len(queued') = Len(queued) - k
      /\ \A j \in 1 .. Len(queued') : queued'[j] = queued[j + k]
  BY <1>1
<1>3. \A j \in 1 .. Len(queued') : j + k \in 1 .. Len(queued) /\ j + k \notin 1 .. k
  BY <1>1, <1>2
<1>4. \A i, j \in 1 .. Len(queued') : i # j => i + k # j + k
  BY <1>1, <1>2
<1>5. \A i \in 1 .. Len(queued) : i \notin 1 .. k => i - k \in 1 .. Len(queued') /\ (i - k) + k = i
  BY <1>1, <1>2
<1>6. TypeOK'
  BY Zenon, <1>type, <1>2 DEF TypeOK
<1>7. \A x : Known(x)' <=> Known(x)
  BY Zenon DEF Known
<1>8. UnstampedInv'
  BY Zenon, <1>uns, <1>7 DEF UnstampedInv
<1>9. QueuedInv'
  BY <1>que, <1>2, <1>3, <1>4, <1>7 DEF QueuedInv
<1>10. CallInv'
  BY <1>cal, <1>2, <1>3, <1>7 DEF CallInv, Busy
<1>11. IndexInv'
  BY <1>idx, <1>2, <1>3 DEF IndexInv, IndexFindsQueued, Busy
<1>12. SizeInv'
  <2>1. \A c : c \in HeldSerials <=> Holds(unstamped, queued, c)
    BY Zenon, <1>type, HeldIs DEF TypeOK, HeldSerials, Messages
  <2>2. \A c : c \in HeldSerials' <=> Holds(unstamped', queued', c)
    BY Zenon, <1>type, <1>6, HeldIs DEF TypeOK, HeldSerials, Messages
  <2>3. ASSUME NEW c, Holds(unstamped', queued', c) PROVE Holds(unstamped, queued, c) /\ c \notin Due(k)
    <3>1. CASE \E u \in unstamped' : u.serial = c
      <4>1. PICK u \in unstamped : u.serial = c /\ ~Expired(u)
        BY Zenon, <3>1
      <4>2. \A i \in 1 .. k : i \in 1 .. Len(queued)
        BY <1>1
      <4>3. \A i \in 1 .. k : queued[i].serial # c
        BY <1>que, <4>1, <4>2 DEF QueuedInv, Differ
      <4>4. \A v \in unstamped : Expired(v) => v.serial # c
        BY Zenon, <1>uns, <4>1 DEF UnstampedInv, Differ
      <4> QED
        BY <4>1, <4>3, <4>4 DEF Holds
    <3>2. ASSUME NEW j \in 1 .. Len(queued'), queued'[j].serial = c
          PROVE  Holds(unstamped, queued, c) /\ c \notin Due(k)
      <4>1. j + k \in 1 .. Len(queued) /\ queued[j + k].serial = c /\ j + k \notin 1 .. k
        BY Zenon, <3>2, <1>2, <1>3
      <4>2. \A i \in 1 .. k : i \in 1 .. Len(queued) /\ i # j + k
        BY <4>1, <1>1
      <4>3. \A i \in 1 .. k : queued[i].serial # c
        BY <1>que, <4>1, <4>2 DEF QueuedInv, Differ
      <4>4. \A u \in unstamped : u.serial # c
        BY <1>que, <4>1 DEF QueuedInv, Differ
      <4> QED
        BY Zenon, <4>1, <4>3, <4>4 DEF Holds
    <3> QED
      BY Zenon, <2>3, <3>1, <3>2 DEF Holds
  <2>4. ASSUME NEW c, Holds(unstamped, queued, c), c \notin Due(k) PROVE Holds(unstamped', queued', c)
    <3>1. CASE \E u \in unstamped : u.serial = c
      BY Zenon, <3>1, <2>4 DEF Holds
    <3>2. ASSUME NEW i \in 1 .. Len(queued), queued[i].serial = c PROVE Holds(unstamped', queued', c)
      BY Zenon, <3>2, <2>4, <1>2, <1>5 DEF Holds
    <3> QED
      BY Zenon, <2>4, <3>1, <3>2 DEF Holds
  <2> HIDE DEF Due
  <2>5. SizeCoversHeld'
    BY Zenon, <1>siz, <2>1, <2>2, <2>3 DEF SizeInv, SizeCoversHeld
  <2>6. ~Resend => SizeExact'
    BY Zenon, <1>siz, <2>1, <2>2, <2>4, <2>5 DEF SizeInv, SizeCoversHeld, SizeExact
  <2> QED
    BY Zenon, <1>siz, <2>5, <2>6 DEF SizeInv
<1> QED
  BY Zenon, <1>6, <1>8, <1>9, <1>10, <1>11, <1>12 DEF QueueInv, Distinct

LEMMA TickKeepsInv ==
  ASSUME QueueInv, Tick
  PROVE  QueueInv' /\ HeldSerials' = HeldSerials
<1>type. TypeOK
  BY Zenon DEF QueueInv
<1>uns. UnstampedInv
  BY Zenon DEF QueueInv, Distinct
<1>que. QueuedInv
  BY Zenon DEF QueueInv, Distinct
<1>cal. CallInv
  BY Zenon DEF QueueInv, Distinct
<1>idx. IndexInv
  BY Zenon DEF QueueInv
<1>siz. SizeInv
  BY Zenon DEF QueueInv
<1>1. /\ unstamped' = {Older(u) : u \in unstamped}
      /\ queued' = [i \in 1 .. Len(queued) |-> Older(queued[i])]
      /\ index' = index /\ charged' = charged /\ ttlSet' = ttlSet /\ ttl' = ttl
      /\ calls' = calls /\ serial' = serial /\ asked' = asked
  BY Zenon DEF Tick
<1>2. \A u \in unstamped : /\ Older(u) \in Unstamped
                           /\ Older(u).id = u.id /\ Older(u).serial = u.serial
  BY Zenon, <1>type, OlderEffect DEF TypeOK
<1>3. \A i \in 1 .. Len(queued) : /\ Older(queued[i]) \in Queued
                                  /\ Older(queued[i]).id = queued[i].id
                                  /\ Older(queued[i]).serial = queued[i].serial
  BY Zenon, <1>type, OlderEffect, QueuedFields
<1>4. /\ queued' \in Seq(Queued) /\ Len(queued') = Len(queued)
      /\ \A i \in 1 .. Len(queued) : queued'[i] = Older(queued[i])
  BY <1>type, <1>1, <1>3 DEF TypeOK
<1>5. TypeOK'
  BY <1>type, <1>1, <1>2, <1>4 DEF TypeOK
<1>6. \A x : Known(x)' <=> Known(x)
  BY Zenon, <1>1 DEF Known
<1>7. UnstampedInv'
  BY <1>uns, <1>1, <1>2, <1>6 DEF UnstampedInv, Differ, Known, KnownIn
<1>8. QueuedInv'
  BY <1>que, <1>1, <1>2, <1>3, <1>4, <1>6 DEF QueuedInv, Differ, Known, KnownIn
<1>9. CallInv'
  <2>1. \A t \in Threads : Busy(t)' <=> Busy(t)
    BY Zenon, <1>1 DEF Busy
  <2>2. \A t \in Threads : Busy(t) => Known(calls[t])'
    BY Zenon, <1>cal, <1>1, <1>6 DEF CallInv
  <2>3. \A s, t \in Threads : s # t /\ Busy(s) /\ Busy(t) => Differ(calls'[s], calls'[t])
    BY Zenon, <1>cal, <1>1 DEF CallInv
  <2>4. \A t \in Threads, u \in unstamped' : Busy(t) => Differ(u, calls'[t])
    BY <1>cal, <1>1, <1>2 DEF CallInv, Differ
  <2>5. \A t \in Threads, i \in 1 .. Len(queued') : Busy(t) => Differ(queued'[i], calls'[t])
    BY <1>cal, <1>1, <1>3, <1>4 DEF CallInv, Differ
  <2> QED
    BY Zenon, <1>cal, <2>1, <2>2, <2>3, <2>4, <2>5 DEF CallInv
<1>10. IndexInv'
  BY <1>idx, <1>1, <1>2, <1>3, <1>4 DEF IndexInv, IndexFindsQueued, Busy
<1>11. SizeInv' /\ HeldSerials' = HeldSerials
  <2>1. \A c : c \in HeldSerials <=> Holds(unstamped, queued, c)
    BY Zenon, <1>type, HeldIs DEF TypeOK, HeldSerials, Messages
  <2>2. \A c : c \in HeldSerials' <=> Holds(unstamped', queued', c)
    BY Zenon, <1>type, <1>5, HeldIs DEF TypeOK, HeldSerials, Messages
  <2>3. \A c : Holds(unstamped', queued', c) <=> Holds(unstamped, queued, c)
    <3>1. \A c : (\E u \in unstamped' : u.serial = c) <=> (\E u \in unstamped : u.serial = c)
      BY Zenon, <1>1, <1>2
    <3>2. \A i \in 1 .. Len(queued) : queued'[i].serial = queued[i].serial
      BY Zenon, <1>3, <1>4
    <3>3. \A c : (\E i \in 1 .. Len(queued') : queued'[i].serial = c)
                   <=> (\E i \in 1 .. Len(queued) : queued[i].serial = c)
      BY Zenon, <1>4, <3>2
    <3> QED
      BY Zenon, <3>1, <3>3 DEF Holds
  <2>4. HeldSerials' = HeldSerials
    BY Zenon, <2>1, <2>2, <2>3
  <2> QED
    BY Zenon, <1>siz, <2>4, <1>1 DEF SizeInv, SizeCoversHeld, SizeExact
<1> QED
  BY <1>5, <1>7, <1>8, <1>9, <1>10, <1>11 DEF QueueInv, Distinct

LEMMA InitQueueInv == Init => QueueInv
<1> SUFFICES ASSUME Init PROVE QueueInv
  BY Zenon
<1>1. queued = <<>> /\ Len(queued) = 0 /\ queued \in Seq(Queued)
  BY DEF Init
<1>2. calls \in [Threads -> Call] /\ \A t \in Threads : ~Busy(t)
  BY Zenon DEF Init, Call, Busy
<1>3. TypeOK
  BY Zenon, <1>1, <1>2 DEF Init, TypeOK
<1>4. Distinct
  BY <1>1, <1>2 DEF Init, Distinct, UnstampedInv, QueuedInv, CallInv
<1>5. IndexInv
  BY <1>1, <1>2 DEF Init, IndexInv, IndexFindsQueued
<1>6. HeldSerials = {}
  <2>1. \A c : c \in HeldSerials <=> Holds(unstamped, queued, c)
    BY Zenon, <1>1, HeldIs DEF HeldSerials, Messages
  <2> QED
    BY <2>1, <1>1 DEF Init, Holds
<1>7. SizeInv
  BY Zenon, <1>6 DEF Init, SizeInv, SizeCoversHeld, SizeExact
<1> QED
  BY Zenon, <1>3, <1>4, <1>5, <1>7 DEF QueueInv

LEMMA QueueInvInductive == QueueInv /\ [Next]_vars => QueueInv'
<1> SUFFICES ASSUME QueueInv, [Next]_vars PROVE QueueInv'
  BY Zenon
<1>1. CASE UNCHANGED vars
  <2>1. /\ unstamped' = unstamped /\ queued' = queued /\ index' = index /\ charged' = charged
        /\ ttlSet' = ttlSet /\ ttl' = ttl /\ calls' = calls /\ serial' = serial /\ asked' = asked
    BY Zenon, <1>1 DEF vars
  <2>2. TypeOK'
    BY Zenon, <2>1 DEF QueueInv, TypeOK
  <2>3. Distinct'
    BY <2>1 DEF QueueInv, Distinct, UnstampedInv, QueuedInv, CallInv, Known, Busy
  <2>4. IndexInv' /\ SizeInv'
    BY <2>1
    DEF QueueInv, IndexInv, IndexFindsQueued, Busy,
        SizeInv, SizeExact, SizeCoversHeld, HeldSerials, Messages
  <2> QED
    BY <2>2, <2>3, <2>4 DEF QueueInv
<1>2. ASSUME NEW t \in Threads, NEW id \in Ids, NEW secs \in Ttls, EnqueueBegin(t, id, secs)
      PROVE  QueueInv'
  BY Zenon, <1>2, BeginKeepsInv
<1>3. ASSUME NEW t \in Threads, EnqueueSetFlag(t) \/ EnqueueSetTtl(t) PROVE QueueInv'
  BY Zenon, <1>3, SetKeepsInv
<1>4. ASSUME NEW t \in Threads, EnqueueInsert(t) PROVE QueueInv'
  BY Zenon, <1>4, InsertKeepsInv
<1>5. ASSUME NEW id \in Ids, NEW clock \in Clocks, Stamp(id, clock) PROVE QueueInv'
  BY Zenon, <1>5, StampKeepsInv
<1> QED
  BY <1>1, <1>2, <1>3, <1>4, <1>5, ExpireKeepsInv, TickKeepsInv DEF Next

-----------------------------------------------------------------------------
(***************************************************************************)
(* The collections of the queue hold what their types say.                 *)
(***************************************************************************)
THEOREM QueueTypes == Spec => []TypeOK
<1>1. QueueInv => TypeOK
  BY DEF QueueInv
<1> QED
  BY <1>1, InitQueueInv, QueueInvInductive, PTL DEF Spec

(***************************************************************************)
(* _total_message_size counts at least the messages held, for any number   *)
(* of threads and of copies of an id: it never wraps below zero.           *)
(***************************************************************************)
THEOREM SizeNeverShort == Spec => []SizeCoversHeld
<1>1. QueueInv => SizeCoversHeld
  BY Zenon DEF QueueInv, SizeInv
<1> QED
  BY <1>1, InitQueueInv, QueueInvInductive, PTL DEF Spec

(***************************************************************************)
(* If no id is published twice, _total_message_size counts exactly the     *)
(* messages that the queue holds.                                          *)
(***************************************************************************)
THEOREM SizeIsExact == ~Resend => (Spec => []SizeExact)
<1> SUFFICES ASSUME ~Resend PROVE Spec => []SizeExact
  BY Zenon
<1>1. QueueInv => SizeExact
  BY DEF QueueInv, SizeInv
<1> QED
  BY <1>1, InitQueueInv, QueueInvInductive, PTL DEF Spec

(***************************************************************************)
(* If no id is published twice, _message_index has an entry for every      *)
(* message of _queued_messages.                                            *)
(***************************************************************************)
THEOREM IndexComplete == ~Resend => (Spec => []IndexFindsQueued)
<1> SUFFICES ASSUME ~Resend PROVE Spec => []IndexFindsQueued
  BY Zenon
<1>1. QueueInv => IndexFindsQueued
  BY Zenon DEF QueueInv, IndexInv
<1> QED
  BY <1>1, InitQueueInv, QueueInvInductive, PTL DEF Spec
-----------------------------------------------------------------------------
(***************************************************************************)
(* That nothing is dropped early rests on TtlInv: a message is in the      *)
(* queue only once _ttl_set is true, and from then on _ttl is the TTL of   *)
(* some message or the thread that set the flag has still to assign it.    *)
(***************************************************************************)
TtlInv ==
  /\ Messages # {} => ttlSet
  /\ \A t \in Threads :
       /\ Busy(t) => \E a \in asked : a.ttl = calls[t].ttl
       /\ calls[t].at \in {"ttl", "insert"} => ttlSet
  /\ ttlSet => TtlAsked \/ \E t \in Threads : calls[t].at = "ttl"

\* operator< is a strict weak order on the clocks, which std::multimap requires.
ClocksOrdered ==
  /\ \A a, b \in Clocks : VCLess(a, b) => ~VCLess(b, a)
  /\ \A a, b, c \in Clocks : ~VCLess(a, b) /\ ~VCLess(b, c) => ~VCLess(a, c)
-----------------------------------------------------------------------------
LEMMA ExpireTakesDue ==
  ASSUME QueueInv, ExpireMessages, NEW m \in Messages, m.serial \notin HeldSerials'
  PROVE  Expired(m)
<1> USE DEF QueueInv
<1> PICK k \in 0 .. Len(queued) :
      /\ ExpiredPrefix(k)
      /\ queued' = SubSeq(queued, k + 1, Len(queued))
      /\ unstamped' = {u \in unstamped : ~Expired(u)}
  BY Zenon DEF ExpireMessages
<1>1. queued \in Seq(Queued) /\ Len(queued) \in Nat /\ k \in Nat
  BY DEF TypeOK
<1>2. /\ queued' \in Seq(Queued) /\ Len(queued') = Len(queued) - k
      /\ \A j \in 1 .. Len(queued') : queued'[j] = queued[j + k]
  BY <1>1
<1>3. ~Holds(unstamped', queued', m.serial)
  BY Zenon, <1>2, HeldIs DEF HeldSerials, Messages
<1>4. CASE m \in unstamped
  BY Zenon, <1>3, <1>4 DEF Holds
<1>5. ASSUME NEW i \in 1 .. Len(queued), m = queued[i] PROVE Expired(m)
  <2>1. i \notin 1 .. k => i - k \in 1 .. Len(queued') /\ (i - k) + k = i
    BY <1>1, <1>2
  <2>2. i \in 1 .. k
    BY Zenon, <2>1, <1>2, <1>3, <1>5 DEF Holds
  <2> QED
    BY Zenon, <2>2, <1>5 DEF ExpiredPrefix
<1>6. m \in unstamped \/ \E i \in 1 .. Len(queued) : m = queued[i]
  BY <1>1 DEF Messages, Range
<1> QED
  BY <1>4, <1>5, <1>6

LEMMA ExpireHeld ==
  ASSUME QueueInv, ExpireMessages
  PROVE  HeldSerials' \subseteq HeldSerials
<1> USE DEF QueueInv
<1> PICK k \in 0 .. Len(queued) :
      /\ queued' = SubSeq(queued, k + 1, Len(queued))
      /\ unstamped' \subseteq unstamped
  BY Zenon DEF ExpireMessages
<1>1. queued \in Seq(Queued) /\ Len(queued) \in Nat /\ k \in Nat
  BY DEF TypeOK
<1>2. /\ queued' \in Seq(Queued) /\ Len(queued') = Len(queued) - k
      /\ \A j \in 1 .. Len(queued') : queued'[j] = queued[j + k] /\ j + k \in 1 .. Len(queued)
  BY <1>1
<1>3. \A c : Holds(unstamped', queued', c) => Holds(unstamped, queued, c)
  BY <1>2 DEF Holds
<1> QED
  BY Zenon, <1>1, <1>2, <1>3, HeldIs DEF HeldSerials, Messages

LEMMA NoneHeld ==
  ASSUME TypeOK
  PROVE  Messages = {} <=> HeldSerials = {}
BY Zenon DEF HeldSerials

LEMMA HeldKept ==
  ASSUME QueueInv, Next, ~ExpireMessages
  PROVE  HeldSerials \subseteq HeldSerials'
<1>1. ASSUME NEW t \in Threads,
             \/ \E id \in Ids, secs \in Ttls : EnqueueBegin(t, id, secs)
             \/ EnqueueSetFlag(t)
             \/ EnqueueSetTtl(t)
      PROVE  HeldSerials \subseteq HeldSerials'
  <2>1. unstamped' = unstamped /\ queued' = queued
    BY Zenon, <1>1 DEF EnqueueBegin, EnqueueSetFlag, EnqueueSetTtl
  <2> QED
    BY Zenon, <2>1 DEF HeldSerials, Messages
<1>2. ASSUME NEW t \in Threads, EnqueueInsert(t) PROVE HeldSerials \subseteq HeldSerials'
  BY <1>2, InsertKeepsInv
<1>3. ASSUME NEW id \in Ids, NEW clock \in Clocks, Stamp(id, clock)
      PROVE  HeldSerials \subseteq HeldSerials'
  BY <1>3, StampKeepsInv
<1>4. CASE Tick
  BY <1>4, TickKeepsInv
<1> QED
  BY Zenon, <1>1, <1>2, <1>3, <1>4 DEF Next

LEMMA InitTtlInv == Init => TtlInv
<1> SUFFICES ASSUME Init PROVE TtlInv
  BY Zenon
<1>1. Messages = {}
  BY DEF Init, Messages, Range
<1>2. \A t \in Threads : ~Busy(t) /\ calls[t].at = "idle"
  BY Zenon DEF Init, Busy, Idle
<1> QED
  BY <1>1, <1>2 DEF Init, TtlInv

LEMMA TtlInvInductive ==
  ASSUME QueueInv, TtlInv, [Next]_vars
  PROVE  TtlInv'
<1> USE DEF QueueInv
<1>1. QueueInv' /\ TypeOK'
  BY Zenon, QueueInvInductive
<1>2. CASE UNCHANGED vars
  BY Zenon, <1>2 DEF vars, TtlInv, Messages, Busy, TtlAsked
<1>3. ASSUME NEW t \in Threads, NEW id \in Ids, NEW secs \in Ttls, EnqueueBegin(t, id, secs)
      PROVE  TtlInv'
  <2> DEFINE b == [id |-> id, ttl |-> secs]
  <2>1. /\ calls[t] = Idle /\ ttlSet' = ttlSet /\ ttl' = ttl
        /\ asked' = asked \cup {b} /\ Messages' = Messages
    BY Zenon, <1>3 DEF EnqueueBegin, Messages
  <2>2. b.ttl = secs
    BY Zenon
  <2>3. /\ calls'[t].ttl = secs /\ calls'[t].at = IF ttlSet THEN "insert" ELSE "unset"
        /\ \A s \in Threads : s # t => calls'[s] = calls[s]
    BY <1>3 DEF EnqueueBegin, TypeOK
  <2>4. calls[t].at = "idle"
    BY Zenon, <2>1, CallAt
  <2> HIDE DEF b
  <2>5. TtlAsked => TtlAsked'
    BY Zenon, <2>1 DEF TtlAsked
  <2>6. ASSUME NEW s \in Threads
        PROVE  /\ Busy(s)' => \E a \in asked' : a.ttl = calls'[s].ttl
               /\ calls'[s].at \in {"ttl", "insert"} => ttlSet'
               /\ calls[s].at = "ttl" => calls'[s].at = "ttl"
    <3>1. CASE s = t
      BY <3>1, <2>1, <2>2, <2>3, <2>4
    <3>2. CASE s # t
      BY <3>2, <2>1, <2>3 DEF TtlInv, Busy
    <3> QED
      BY Zenon, <3>1, <3>2
  <2> QED
    BY <2>1, <2>5, <2>6 DEF TtlInv
<1>4. ASSUME NEW t \in Threads, EnqueueSetFlag(t) PROVE TtlInv'
  <2>1. /\ calls[t].at = "unset" /\ ttlSet' /\ asked' = asked /\ Messages' = Messages
        /\ calls' = [calls EXCEPT ![t].at = "ttl"]
    BY Zenon, <1>4 DEF EnqueueSetFlag, Messages
  <2>2. Busy(t) /\ calls[t] \in Call
    BY Zenon, <2>1, CallAt DEF Busy
  <2>3. calls[t] \in [at : {"unset", "ttl", "insert"}, id : Ids, ttl : Ttls, serial : Nat]
    BY Zenon, <2>2 DEF Busy, Call
  <2>4. /\ calls'[t].ttl = calls[t].ttl /\ calls'[t].at = "ttl"
        /\ \A s \in Threads : s # t => calls'[s] = calls[s]
    BY Zenon, <2>1, <2>3 DEF TypeOK
  <2>5. \A s \in Threads : Busy(s)' => \E a \in asked' : a.ttl = calls'[s].ttl
    BY <2>1, <2>2, <2>4 DEF TtlInv, Busy
  <2> QED
    BY Zenon, <2>1, <2>4, <2>5 DEF TtlInv
<1>5. ASSUME NEW t \in Threads, EnqueueSetTtl(t) PROVE TtlInv'
  <2>1. /\ calls[t].at = "ttl" /\ ttlSet' = ttlSet /\ asked' = asked /\ Messages' = Messages
        /\ calls' = [calls EXCEPT ![t].at = "insert"] /\ ttl' = calls[t].ttl
    BY Zenon, <1>5 DEF EnqueueSetTtl, Messages
  <2>2. Busy(t) /\ calls[t] \in Call
    BY Zenon, <2>1, CallAt DEF Busy
  <2>3. calls[t] \in [at : {"unset", "ttl", "insert"}, id : Ids, ttl : Ttls, serial : Nat]
    BY Zenon, <2>2 DEF Busy, Call
  <2>4. /\ calls'[t].ttl = calls[t].ttl /\ calls'[t].at = "insert"
        /\ \A s \in Threads : s # t => calls'[s] = calls[s]
    BY <2>1, <2>3 DEF TypeOK
  <2>5. TtlAsked'
    BY <2>1, <2>2 DEF TtlInv, TtlAsked
  <2>6. \A s \in Threads : Busy(s)' => \E a \in asked' : a.ttl = calls'[s].ttl
    BY <2>1, <2>2, <2>4 DEF TtlInv, Busy
  <2>7. ttlSet' /\ (Messages' # {} => ttlSet')
    BY Zenon, <2>1 DEF TtlInv
  <2> QED
    BY Zenon, <2>5, <2>6, <2>7 DEF TtlInv
<1>6. ASSUME NEW t \in Threads, EnqueueInsert(t) PROVE TtlInv'
  <2>1. /\ calls[t].at = "insert" /\ ttlSet' = ttlSet /\ ttl' = ttl /\ asked' = asked
        /\ calls'[t] = Idle /\ \A s \in Threads : s # t => calls'[s] = calls[s]
    BY Zenon, <1>6 DEF EnqueueInsert, TypeOK
  <2>2. calls'[t].at = "idle" /\ ~Busy(t)'
    BY <2>1 DEF Idle, Busy
  <2>3. TtlAsked => TtlAsked'
    BY Zenon, <2>1 DEF TtlAsked
  <2>4. \A s \in Threads : calls[s].at = "ttl" => calls'[s].at = "ttl"
    BY Zenon, <2>1
  <2>5. \A s \in Threads : /\ Busy(s)' => \E a \in asked' : a.ttl = calls'[s].ttl
                           /\ calls'[s].at \in {"ttl", "insert"} => ttlSet'
    BY <2>1, <2>2 DEF TtlInv, Busy
  <2>6. ttlSet'
    BY Zenon, <2>1 DEF TtlInv
  <2> QED
    BY Zenon, <2>1, <2>3, <2>4, <2>5, <2>6 DEF TtlInv
<1>7. ASSUME UNCHANGED <<ttlSet, ttl, calls, asked>>, HeldSerials' \subseteq HeldSerials PROVE TtlInv'
  <2>1. Messages' # {} => Messages # {}
    BY Zenon, <1>1, <1>7, NoneHeld DEF HeldSerials
  <2> QED
    BY Zenon, <2>1, <1>7 DEF TtlInv, Busy, TtlAsked
<1>8. ASSUME NEW id \in Ids, NEW clock \in Clocks, Stamp(id, clock) PROVE TtlInv'
  <2>1. UNCHANGED <<ttlSet, ttl, calls, asked>>
    BY Zenon, <1>8 DEF Stamp
  <2> QED
    BY <2>1, <1>7, <1>8, StampKeepsInv
<1>9. CASE ExpireMessages
  <2>1. UNCHANGED <<ttlSet, ttl, calls, asked>>
    BY Zenon, <1>9 DEF ExpireMessages
  <2>2. HeldSerials' \subseteq HeldSerials
    BY <1>9, ExpireHeld
  <2> QED
    BY <2>1, <2>2, <1>7
<1>10. CASE Tick
  <2>1. UNCHANGED <<ttlSet, ttl, calls, asked>>
    BY Zenon, <1>10 DEF Tick
  <2> QED
    BY Zenon, <2>1, <1>7, <1>10, TickKeepsInv
<1> QED
  BY <1>2, <1>3, <1>4, <1>5, <1>6, <1>8, <1>9, <1>10 DEF Next

(***************************************************************************)
(* For any number of threads, a message leaves the queue only once it is   *)
(* older than a TTL that some producer asked for, or while _ttl still has  *)
(* to be assigned: nothing is lost on the way from enqueue through stamp   *)
(* to expire_messages.                                                     *)
(***************************************************************************)
THEOREM NothingDroppedEarly == Spec => DroppedOnlyWhenDue
<1> DEFINE Early == \A m \in Messages :
                      m.serial \notin HeldSerials' => TtlPending \/ \E a \in asked : m.age > a.ttl
<1>1. QueueInv /\ TtlInv /\ [Next]_vars => [Early]_vars
  <2> SUFFICES ASSUME QueueInv, TtlInv, Next,
                      NEW m \in Messages, m.serial \notin HeldSerials'
               PROVE  TtlPending \/ \E a \in asked : m.age > a.ttl
    BY Zenon
  <2>1. ExpireMessages
    BY Zenon, HeldKept DEF HeldSerials
  <2>2. m.age > ttl
    BY Zenon, <2>1, ExpireTakesDue DEF Expired
  <2>3. TtlAsked \/ TtlPending
    BY Zenon DEF TtlInv, TtlPending
  <2> QED
    BY Zenon, <2>2, <2>3 DEF TtlAsked
<1>2. QueueInv /\ TtlInv /\ [Next]_vars => TtlInv'
  BY Zenon, TtlInvInductive
<1>3. Spec => [][Early]_vars
  BY <1>1, <1>2, InitQueueInv, InitTtlInv, QueueInvInductive, PTL DEF Spec
<1> QED
  BY Zenon, <1>3 DEF DroppedOnlyWhenDue

LEMMA StampKeepsSorted ==
  ASSUME ClocksOrdered, TypeOK, QueueSorted,
         NEW id \in Ids, NEW clock \in Clocks, Stamp(id, clock)
  PROVE  QueueSorted'
<1> DEFINE Msg(u) == [id |-> id, serial |-> u.serial, age |-> 0, clock |-> clock]
<1>a. PICK u \in unstamped, p \in 1 .. Len(queued) + 1 :
      IsInsertPosition(p, clock) /\ queued' = InsertAt(queued, p, Msg(u))
  BY DEF Stamp
<1>1. Msg(u) \in Queued /\ Msg(u).clock = clock
  <2>1. u.serial \in Nat /\ AgeCap \in Nat
    BY Zenon, MessageQueueAssumption DEF TypeOK, Unstamped
  <2> QED
    BY <2>1 DEF Queued
<1>b. PICK e : e = Msg(u)
  BY Zenon
<1>2. e.clock = clock
  BY Zenon, <1>1, <1>b
<1>c. e \in Queued /\ queued' = InsertAt(queued, p, e)
  BY Zenon, <1>1, <1>a, <1>b
<1> HIDE DEF Msg
<1>3. queued \in Seq(Queued) /\ Len(queued) \in Nat /\ p \in Nat /\ p \in 1 .. Len(queued) + 1
  BY <1>a DEF TypeOK
<1>4. /\ queued' \in Seq(Queued) /\ Len(queued') = Len(queued) + 1 /\ queued'[p] = e
      /\ \A j \in 1 .. p - 1 : queued'[j] = queued[j]
      /\ \A j \in p + 1 .. Len(queued) + 1 : queued'[j] = queued[j - 1]
  <2>1. Inserted(InsertAt(queued, p, e), queued, p, e)
    BY Zenon, <1>c, <1>3, InsertAtEffect
  <2>2. Inserted(queued', queued, p, e)
    BY Zenon, <2>1, <1>c
  <2> QED
    BY Zenon, <2>2 DEF Inserted
<1>5. \A i \in 1 .. Len(queued) : queued[i].clock \in Clocks
  BY Zenon, QueuedFields
<1>6. ASSUME NEW i \in 1 .. p - 1 PROVE ~VCLess(clock, queued[i].clock)
  <2>1. p > 1 /\ p - 1 \in 1 .. Len(queued) /\ i \in 1 .. Len(queued)
    BY <1>3, <1>6
  <2>2. ~VCLess(clock, queued[p - 1].clock)
    BY Zenon, <2>1, <1>a DEF IsInsertPosition
  <2>3. i = p - 1 \/ ~VCLess(queued[p - 1].clock, queued[i].clock)
    BY <2>1, <1>3, <1>6 DEF QueueSorted
  <2> QED
    BY <2>1, <2>2, <2>3, <1>5 DEF ClocksOrdered
<1>7. ASSUME NEW j \in p .. Len(queued) PROVE ~VCLess(queued[j].clock, clock)
  <2>1. p <= Len(queued) /\ p \in 1 .. Len(queued) /\ j \in 1 .. Len(queued)
    BY <1>3, <1>7
  <2>2. VCLess(clock, queued[p].clock)
    BY <2>1, <1>a DEF IsInsertPosition
  <2>3. j = p \/ ~VCLess(queued[j].clock, queued[p].clock)
    BY <2>1, <1>3, <1>7 DEF QueueSorted
  <2>4. ~VCLess(queued[p].clock, clock)
    BY <2>1, <2>2, <1>5 DEF ClocksOrdered
  <2> QED
    BY <2>1, <2>3, <2>4, <1>5 DEF ClocksOrdered
<1>8. ASSUME NEW i \in 1 .. Len(queued'), NEW j \in 1 .. Len(queued'), i < j
      PROVE  ~VCLess(queued'[j].clock, queued'[i].clock)
  <2>1. CASE j < p
    <3>1. i \in 1 .. p - 1 /\ j \in 1 .. p - 1 /\ i \in 1 .. Len(queued) /\ j \in 1 .. Len(queued)
      BY <2>1, <1>3, <1>8
    <3> QED
      BY <3>1, <1>4, <1>8 DEF QueueSorted
  <2>2. CASE j = p
    <3>1. i \in 1 .. p - 1
      BY <2>2, <1>3, <1>8
    <3> QED
      BY <3>1, <2>2, <1>2, <1>4, <1>6
  <2>3. CASE j > p /\ i = p
    <3>1. j \in p + 1 .. Len(queued) + 1 /\ j - 1 \in p .. Len(queued)
      BY <2>3, <1>3, <1>4, <1>8
    <3> QED
      BY <3>1, <2>3, <1>2, <1>4, <1>7
  <2>4. CASE j > p /\ i < p
    <3>1. /\ j \in p + 1 .. Len(queued) + 1 /\ j - 1 \in 1 .. Len(queued)
          /\ i \in 1 .. p - 1 /\ i \in 1 .. Len(queued) /\ i < j - 1
      BY <2>4, <1>3, <1>4, <1>8
    <3> QED
      BY <3>1, <1>4 DEF QueueSorted
  <2>5. CASE i > p
    <3>1. /\ j \in p + 1 .. Len(queued) + 1 /\ j - 1 \in 1 .. Len(queued)
          /\ i \in p + 1 .. Len(queued) + 1 /\ i - 1 \in 1 .. Len(queued) /\ i - 1 < j - 1
      BY <2>5, <1>3, <1>4, <1>8
    <3> QED
      BY Zenon, <3>1, <1>4 DEF QueueSorted
  <2> QED
    BY <2>1, <2>2, <2>3, <2>4, <2>5, <1>3, <1>8
<1> QED
  BY Zenon, <1>8 DEF QueueSorted

LEMMA SortedInductive ==
  ASSUME ClocksOrdered, QueueInv, QueueSorted, [Next]_vars
  PROVE  QueueSorted'
<1>1. TypeOK
  BY Zenon DEF QueueInv
<1>2. CASE queued' = queued
  BY Zenon, <1>2 DEF QueueSorted
<1>3. ASSUME NEW t \in Threads,
             \/ \E id \in Ids, secs \in Ttls : EnqueueBegin(t, id, secs)
             \/ EnqueueSetFlag(t)
             \/ EnqueueSetTtl(t)
             \/ EnqueueInsert(t)
      PROVE  queued' = queued
  BY Zenon, <1>3 DEF EnqueueBegin, EnqueueSetFlag, EnqueueSetTtl, EnqueueInsert
<1>4. ASSUME NEW id \in Ids, NEW clock \in Clocks, Stamp(id, clock) PROVE QueueSorted'
  BY Zenon, <1>1, <1>4, StampKeepsSorted
<1>5. CASE ExpireMessages
  <2> PICK k \in 0 .. Len(queued) : queued' = SubSeq(queued, k + 1, Len(queued))
    BY Zenon, <1>5 DEF ExpireMessages
  <2>1. queued \in Seq(Queued) /\ Len(queued) \in Nat /\ k \in Nat
    BY <1>1 DEF TypeOK
  <2>2. /\ Len(queued') = Len(queued) - k
        /\ \A j \in 1 .. Len(queued') : queued'[j] = queued[j + k]
    BY <2>1
  <2>3. \A i, j \in 1 .. Len(queued') :
          i < j => i + k \in 1 .. Len(queued) /\ j + k \in 1 .. Len(queued) /\ i + k < j + k
    BY <2>1, <2>2
  <2> QED
    BY Zenon, <2>2, <2>3 DEF QueueSorted
<1>6. CASE Tick
  <2>1. queued' = [i \in 1 .. Len(queued) |-> Older(queued[i])]
    BY Zenon, <1>6 DEF Tick
  <2>2. \A i \in 1 .. Len(queued) : /\ Older(queued[i]) \in Queued
                                    /\ Older(queued[i]).clock = queued[i].clock
    BY <1>1, OlderEffect, QueuedFields
  <2>3. /\ Len(queued') = Len(queued)
        /\ \A i \in 1 .. Len(queued) : queued'[i].clock = queued[i].clock
    BY <2>1, <2>2, <1>1 DEF TypeOK
  <2> QED
    BY <2>3 DEF QueueSorted
<1> QED
  BY Zenon, <1>2, <1>3, <1>4, <1>5, <1>6 DEF Next, vars

(***************************************************************************)
(* When operator< orders the clocks that stamps carry, _queued_messages is *)
(* kept sorted by vector clock through every stamp and expiry.             *)
(***************************************************************************)
THEOREM QueueIsSorted == ClocksOrdered => (Spec => []QueueSorted)
<1> SUFFICES ASSUME ClocksOrdered PROVE Spec => []QueueSorted
  BY Zenon
<1>1. Init => QueueSorted
  BY DEF Init, QueueSorted
<1>2. QueueInv /\ QueueSorted /\ [Next]_vars => QueueSorted'
  BY Zenon, SortedInductive
<1> QED
  BY <1>1, <1>2, InitQueueInv, QueueInvInductive, PTL DEF Spec
-----------------------------------------------------------------------------
(***************************************************************************)
(* The queue implements QueueContract.  Every step has one of the effects  *)
(* below on the places where serials are, and the rest is about sets.      *)
(***************************************************************************)
SerialInv == serial <= MaxEnqueues /\ Waiting \cup Ordered \cup InCall \subseteq 1 .. serial

\* The effects an action can have on the places of messages.
Begins ==
  /\ serial < MaxEnqueues /\ serial' = serial + 1 /\ InCall' = InCall \cup {serial + 1}
  /\ Waiting' = Waiting /\ Ordered' = Ordered

Inserts(c) ==
  /\ c \in InCall /\ c \notin Waiting \cup Ordered /\ InCall' = InCall \ {c}
  /\ Waiting' \in {Waiting, Waiting \cup {c}} /\ Ordered' = Ordered /\ serial' = serial

Stamps(c) ==
  /\ c \in Waiting /\ c \notin Ordered /\ Waiting' = Waiting \ {c} /\ Ordered' = Ordered \cup {c}
  /\ InCall' = InCall /\ serial' = serial

Takes ==
  /\ Waiting' \subseteq Waiting /\ Ordered' \subseteq Ordered
  /\ Waiting \cap Ordered = {} /\ (Waiting \cup Ordered) \cap InCall = {}
  /\ InCall' = InCall /\ serial' = serial
LEMMA InOrdered ==
  ASSUME NEW Q \in Seq(Queued), NEW c
  PROVE  c \in {m.serial : m \in Range(Q)} <=> \E i \in 1 .. Len(Q) : Q[i].serial = c
BY DEF Range

LEMMA InCallIs ==
  ASSUME NEW c
  PROVE  c \in InCall <=> \E t \in Threads : Busy(t) /\ calls[t].serial = c
BY Zenon DEF InCall, Busy

LEMMA BeginEffect ==
  ASSUME TypeOK, NEW t \in Threads, NEW id \in Ids, NEW secs \in Ttls, EnqueueBegin(t, id, secs)
  PROVE  Begins
<1> DEFINE d == [at |-> IF ttlSet THEN "insert" ELSE "unset", id |-> id, ttl |-> secs, serial |-> serial']
<1>1. /\ calls[t] = Idle /\ serial < MaxEnqueues /\ serial' = serial + 1
      /\ calls' = [calls EXCEPT ![t] = d] /\ calls \in [Threads -> Call]
      /\ unstamped' = unstamped /\ queued' = queued
  BY Zenon DEF EnqueueBegin, TypeOK
<1>2. d.serial = serial + 1 /\ d # Idle
  BY Zenon, <1>1 DEF Idle
<1> HIDE DEF d
<1>3. \A s \in Threads : calls'[s] = IF s = t THEN d ELSE calls[s]
  BY Zenon, <1>1
<1>4. \A c : c \in InCall' <=> \E s \in Threads : calls'[s] # Idle /\ calls'[s].serial = c
  BY Zenon DEF InCall
<1>5. InCall' = InCall \cup {serial + 1}
  BY <1>1, <1>2, <1>3, <1>4, InCallIs DEF Busy
<1>6. Waiting' = Waiting /\ Ordered' = Ordered
  BY Zenon, <1>1 DEF Waiting, Ordered
<1> QED
  BY Zenon, <1>1, <1>5, <1>6 DEF Begins
LEMMA SetEffect ==
  ASSUME TypeOK, NEW t \in Threads, EnqueueSetFlag(t) \/ EnqueueSetTtl(t)
  PROVE  UNCHANGED <<Waiting, Ordered, InCall, serial>>
<1>1. PICK w \in {"ttl", "insert"} :
        /\ calls[t].at \in {"unset", "ttl"} /\ calls' = [calls EXCEPT ![t].at = w]
        /\ UNCHANGED <<unstamped, queued, serial>>
  BY Zenon DEF EnqueueSetFlag, EnqueueSetTtl
<1> DEFINE d == [calls[t] EXCEPT !.at = w]
<1>2. Busy(t)
  BY <1>1, CallAt DEF Busy
<1>3. calls[t] \in [at : {"unset", "ttl", "insert"}, id : Ids, ttl : Ttls, serial : Nat]
  BY <1>2 DEF Busy, TypeOK, Call
<1>4. d.serial = calls[t].serial /\ d # Idle
  BY Zenon, <1>3 DEF Idle
<1>5. calls' = [calls EXCEPT ![t] = d] /\ calls \in [Threads -> Call]
  BY <1>1 DEF TypeOK
<1> HIDE DEF d
<1>6. \A s \in Threads : (calls'[s] # Idle <=> Busy(s)) /\ calls'[s].serial = calls[s].serial
  BY <1>2, <1>4, <1>5 DEF Busy
<1>7. \A c : c \in InCall' <=> \E s \in Threads : calls'[s] # Idle /\ calls'[s].serial = c
  BY Zenon DEF InCall
<1>8. \A c : c \in InCall' <=> c \in InCall
  BY Zenon, <1>6, <1>7, InCallIs
<1>9. InCall' = InCall
  BY Zenon, <1>8
<1> QED
  BY Zenon, <1>1, <1>9 DEF Waiting, Ordered

LEMMA InsertEffect ==
  ASSUME QueueInv, NEW t \in Threads, EnqueueInsert(t)
  PROVE  Inserts(calls[t].serial)
<1>type. TypeOK
  BY Zenon DEF QueueInv
<1>cal. CallInv
  BY Zenon DEF QueueInv, Distinct
<1> DEFINE e == [id |-> calls[t].id, serial |-> calls[t].serial, age |-> 0]
<1>1. /\ calls[t].at = "insert" /\ unstamped' \in {unstamped, unstamped \cup {e}}
      /\ calls' = [calls EXCEPT ![t] = Idle] /\ queued' = queued /\ serial' = serial
  BY Zenon DEF EnqueueInsert
<1>2. Busy(t)
  BY <1>type, <1>1, CallAt DEF Busy
<1>3. e.serial = calls[t].serial
  BY Zenon
<1> HIDE DEF e
<1>4. \A s \in Threads : calls'[s] = IF s = t THEN Idle ELSE calls[s]
  BY <1>type, <1>1 DEF TypeOK
<1>5. \A c : c \in InCall' <=> \E s \in Threads : calls'[s] # Idle /\ calls'[s].serial = c
  BY Zenon DEF InCall
<1>6. \A s \in Threads : s # t /\ Busy(s) => calls[s].serial # calls[t].serial
  BY <1>cal, <1>2 DEF CallInv, Differ
<1>7. InCall' = InCall \ {calls[t].serial} /\ calls[t].serial \in InCall
  BY <1>2, <1>4, <1>5, <1>6, InCallIs DEF Busy
<1>8. calls[t].serial \notin Waiting
  BY Zenon, <1>cal, <1>2 DEF CallInv, Differ, Waiting
<1>9. calls[t].serial \notin Ordered
  <2>1. queued \in Seq(Queued)
    BY Zenon, <1>type DEF TypeOK
  <2>2. \A i \in 1 .. Len(queued) : queued[i].serial # calls[t].serial
    BY <1>cal, <1>2 DEF CallInv, Differ
  <2> QED
    BY Zenon, <2>1, <2>2, InOrdered DEF Ordered
<1>10. Waiting' \in {Waiting, Waiting \cup {calls[t].serial}}
  <2>1. CASE unstamped' = unstamped
    BY Zenon, <2>1 DEF Waiting
  <2>2. CASE unstamped' = unstamped \cup {e}
    BY <2>2, <1>3 DEF Waiting
  <2> QED
    BY <1>1, <2>1, <2>2
<1>11. Ordered' = Ordered
  BY Zenon, <1>1 DEF Ordered
<1> QED
  BY Zenon, <1>1, <1>7, <1>8, <1>9, <1>10, <1>11 DEF Inserts

LEMMA StampEffect ==
  ASSUME QueueInv, NEW id \in Ids, NEW clock \in Clocks, Stamp(id, clock)
  PROVE  \E c \in Waiting : Stamps(c)
<1>type. TypeOK
  BY Zenon DEF QueueInv
<1>uns. UnstampedInv
  BY Zenon DEF QueueInv, Distinct
<1>que. QueuedInv
  BY Zenon DEF QueueInv, Distinct
<1>1. PICK u \in unstamped, p \in 1 .. Len(queued) + 1 :
        /\ queued' = InsertAt(queued, p, [id |-> id, serial |-> u.serial, age |-> 0, clock |-> clock])
        /\ unstamped' = unstamped \ {u}
        /\ calls' = calls /\ serial' = serial
  BY Zenon DEF Stamp
<1> DEFINE e == [id |-> id, serial |-> u.serial, age |-> 0, clock |-> clock]
<1>2. e \in Queued /\ e.serial = u.serial
  BY <1>type, MessageQueueAssumption DEF Queued, TypeOK, Unstamped
<1>3. queued \in Seq(Queued) /\ Len(queued) \in Nat
  BY <1>type DEF TypeOK
<1>4. queued' = InsertAt(queued, p, e)
  BY <1>1
<1> HIDE DEF e
<1>5. Inserted(queued', queued, p, e)
  BY <1>2, <1>3, <1>4, InsertAtEffect
<1>6. \A c : (\E j \in 1 .. Len(queued') : queued'[j].serial = c)
               <=> c = u.serial \/ \E i \in 1 .. Len(queued) : queued[i].serial = c
  <2> SUFFICES ASSUME NEW c
               PROVE  (\E j \in 1 .. Len(queued') : queued'[j].serial = c)
                        <=> c = u.serial \/ \E i \in 1 .. Len(queued) : queued[i].serial = c
    BY Zenon
  <2>1. ASSUME NEW j \in 1 .. Len(queued'), queued'[j].serial = c
        PROVE  c = u.serial \/ \E i \in 1 .. Len(queued) : queued[i].serial = c
    <3>1. j \in 1 .. p - 1 \/ j = p \/ (j \in p + 1 .. Len(queued) + 1 /\ j - 1 \in 1 .. Len(queued))
      BY <1>3, <1>5 DEF Inserted
    <3>2. j \in 1 .. p - 1 => j \in 1 .. Len(queued)
      BY <1>3
    <3> QED
      BY <3>1, <3>2, <2>1, <1>2, <1>5 DEF Inserted
  <2>2. ASSUME NEW i \in 1 .. Len(queued), queued[i].serial = c
        PROVE  \E j \in 1 .. Len(queued') : queued'[j].serial = c
    <3>1. CASE i < p
      <4>1. i \in 1 .. p - 1 /\ i \in 1 .. Len(queued')
        BY <3>1, <1>3, <1>5 DEF Inserted
      <4> QED
        BY <4>1, <2>2, <1>5 DEF Inserted
    <3>2. CASE i >= p
      <4>1. i + 1 \in p + 1 .. Len(queued) + 1 /\ i + 1 \in 1 .. Len(queued') /\ (i + 1) - 1 = i
        BY <3>2, <1>3, <1>5 DEF Inserted
      <4>2. queued'[i + 1] = queued[i]
        BY Zenon, <4>1, <1>5 DEF Inserted
      <4> QED
        BY <4>1, <4>2, <2>2
    <3> QED
      BY <3>1, <3>2, <1>3
  <2>3. p \in 1 .. Len(queued') /\ queued'[p].serial = u.serial
    BY <1>2, <1>3, <1>5 DEF Inserted
  <2> QED
    BY <2>1, <2>2, <2>3
<1>7. Ordered' = Ordered \cup {u.serial}
  <2>1. queued' \in Seq(Queued)
    BY <1>5 DEF Inserted
  <2>2. \A c : c \in Ordered' <=> \E i \in 1 .. Len(queued') : queued'[i].serial = c
    BY Zenon, <2>1, InOrdered DEF Ordered
  <2>3. \A c : c \in Ordered <=> \E i \in 1 .. Len(queued) : queued[i].serial = c
    BY <1>3, InOrdered DEF Ordered
  <2> QED
    BY Zenon, <1>6, <2>2, <2>3
<1>8. Waiting' = Waiting \ {u.serial} /\ u.serial \in Waiting
  BY <1>uns, <1>1 DEF UnstampedInv, Differ, Waiting
<1>9. u.serial \notin Ordered
  <2>1. \A i \in 1 .. Len(queued) : queued[i].serial # u.serial
    BY Zenon, <1>que DEF QueuedInv, Differ
  <2> QED
    BY Zenon, <1>3, <2>1, InOrdered DEF Ordered
<1>10. InCall' = InCall
  BY Zenon, <1>1 DEF InCall
<1> QED
  BY <1>1, <1>7, <1>8, <1>9, <1>10 DEF Stamps
LEMMA ExpireEffect ==
  ASSUME QueueInv, ExpireMessages
  PROVE  Takes
<1>type. TypeOK
  BY Zenon DEF QueueInv
<1>que. QueuedInv
  BY Zenon DEF QueueInv, Distinct
<1>cal. CallInv
  BY Zenon DEF QueueInv, Distinct
<1>1. PICK k \in 0 .. Len(queued) :
        /\ queued' = SubSeq(queued, k + 1, Len(queued))
        /\ unstamped' \subseteq unstamped
        /\ calls' = calls /\ serial' = serial
  BY Zenon DEF ExpireMessages
<1>2. queued \in Seq(Queued) /\ Len(queued) \in Nat /\ k \in Nat
  BY <1>type DEF TypeOK
<1>3. /\ queued' \in Seq(Queued)
      /\ \A j \in 1 .. Len(queued') : queued'[j] = queued[j + k] /\ j + k \in 1 .. Len(queued)
  BY <1>1, <1>2
<1>4. \A c : c \in Ordered' <=> \E i \in 1 .. Len(queued') : queued'[i].serial = c
  BY Zenon, <1>3, InOrdered DEF Ordered
<1>5. \A c : c \in Ordered <=> \E i \in 1 .. Len(queued) : queued[i].serial = c
  BY Zenon, <1>2, InOrdered DEF Ordered
<1>6. Ordered' \subseteq Ordered
  BY SMTT(30), <1>3, <1>4, <1>5
<1>7. Waiting' \subseteq Waiting
  BY Zenon, <1>1 DEF Waiting
<1>8. Waiting \cap Ordered = {}
  BY <1>que, <1>5 DEF Waiting, QueuedInv, Differ
<1>9. Waiting \cap InCall = {}
  BY <1>cal, InCallIs DEF Waiting, CallInv, Differ
<1>10. Ordered \cap InCall = {}
  BY <1>cal, <1>5, InCallIs DEF CallInv, Differ
<1>11. InCall' = InCall
  BY Zenon, <1>1 DEF InCall
<1> QED
  BY <1>1, <1>6, <1>7, <1>8, <1>9, <1>10, <1>11 DEF Takes

LEMMA TickEffect ==
  ASSUME TypeOK, Tick
  PROVE  UNCHANGED <<Waiting, Ordered, InCall, serial>>
<1>1. /\ unstamped' = {Older(u) : u \in unstamped}
      /\ queued' = [i \in 1 .. Len(queued) |-> Older(queued[i])]
      /\ calls' = calls /\ serial' = serial
  BY Zenon DEF Tick
<1>2. queued \in Seq(Queued) /\ Len(queued) \in Nat /\ unstamped \subseteq Unstamped
  BY DEF TypeOK
<1>3. /\ \A u \in unstamped : Older(u).serial = u.serial
      /\ \A i \in 1 .. Len(queued) : Older(queued[i]) \in Queued /\ Older(queued[i]).serial = queued[i].serial
  BY Zenon, <1>2, OlderEffect, QueuedFields
<1>4. /\ queued' \in Seq(Queued) /\ Len(queued') = Len(queued)
      /\ \A i \in 1 .. Len(queued) : queued'[i] = Older(queued[i])
  BY <1>1, <1>2, <1>3
<1>5. Waiting' = Waiting
  BY <1>1, <1>3 DEF Waiting
<1>6. Ordered' = Ordered
  <2>1. \A c : c \in Ordered' <=> \E i \in 1 .. Len(queued') : queued'[i].serial = c
    BY Zenon, <1>4, InOrdered DEF Ordered
  <2>2. \A c : c \in Ordered <=> \E i \in 1 .. Len(queued) : queued[i].serial = c
    BY Zenon, <1>2, InOrdered DEF Ordered
  <2>3. \A i \in 1 .. Len(queued) : queued'[i].serial = queued[i].serial
    BY Zenon, <1>3, <1>4
  <2>4. \A c : c \in Ordered' <=> c \in Ordered
    BY Zenon, <1>4, <2>1, <2>2, <2>3
  <2> QED
    BY Zenon, <2>4
<1> QED
  BY <1>1, <1>5, <1>6 DEF InCall

\* Every step has one of the effects.
LEMMA StepEffect ==
  ASSUME QueueInv, [Next]_vars
  PROVE  \/ Begins
         \/ \E c \in InCall : Inserts(c)
         \/ \E c \in Waiting : Stamps(c)
         \/ Takes
         \/ UNCHANGED <<Waiting, Ordered, InCall, serial>>
<1>type. TypeOK
  BY DEF QueueInv
<1>1. CASE UNCHANGED vars
  BY <1>1 DEF vars, Waiting, Ordered, InCall
<1>2. ASSUME NEW t \in Threads, NEW id \in Ids, NEW secs \in Ttls, EnqueueBegin(t, id, secs)
      PROVE  Begins
  BY <1>type, <1>2, BeginEffect
<1>3. ASSUME NEW t \in Threads, EnqueueSetFlag(t) \/ EnqueueSetTtl(t)
      PROVE  UNCHANGED <<Waiting, Ordered, InCall, serial>>
  BY <1>type, <1>3, SetEffect
<1>4. ASSUME NEW t \in Threads, EnqueueInsert(t) PROVE \E c \in InCall : Inserts(c)
  BY <1>4, InsertEffect DEF Inserts
<1>5. ASSUME NEW id \in Ids, NEW clock \in Clocks, Stamp(id, clock)
      PROVE  \E c \in Waiting : Stamps(c)
  BY <1>5, StampEffect
<1>6. CASE ExpireMessages
  BY <1>6, ExpireEffect
<1>7. CASE Tick
  BY <1>type, <1>7, TickEffect
<1> QED
  BY Zenon, <1>1, <1>2, <1>3, <1>4, <1>5, <1>6, <1>7 DEF Next

LEMMA SerialInvInductive ==
  ASSUME TypeOK, TypeOK', QueueInv, SerialInv, [Next]_vars
  PROVE  SerialInv'
<1>0. serial \in Nat /\ serial' \in Nat /\ MaxEnqueues \in Nat
  BY MessageQueueAssumption DEF TypeOK
<1>1. CASE Begins
  BY <1>0, <1>1 DEF Begins, SerialInv
<1>2. ASSUME NEW c \in InCall, Inserts(c) PROVE SerialInv'
  BY <1>0, <1>2 DEF Inserts, SerialInv
<1>3. ASSUME NEW c \in Waiting, Stamps(c) PROVE SerialInv'
  BY <1>0, <1>3 DEF Stamps, SerialInv
<1>4. CASE Takes
  BY <1>0, <1>4 DEF Takes, SerialInv
<1>5. CASE UNCHANGED <<Waiting, Ordered, InCall, serial>>
  BY <1>5 DEF SerialInv
<1> QED
  BY <1>1, <1>2, <1>3, <1>4, <1>5, StepEffect

LEMMA ContractStep ==
  ASSUME TypeOK, QueueInv, SerialInv, [Next]_vars
  PROVE  [Contract!Next]_(Contract!vars)
<1>0. serial \in Nat /\ MaxEnqueues \in Nat
  BY MessageQueueAssumption DEF TypeOK
<1>1. CASE Begins
  <2>1. Gone' = Gone
    BY <1>0, <1>1 DEF Begins, SerialInv, Gone
  <2> QED
    BY <1>1, <2>1 DEF Begins, Contract!vars
<1>2. ASSUME NEW c \in InCall, Inserts(c) PROVE Contract!Next
  <2>1. c \in 1 .. serial /\ c \in 1 .. MaxEnqueues
    BY <1>0 DEF SerialInv
  <2>2. Contract!New(c)
    BY <1>2 DEF Inserts, Contract!New, Gone
  <2>3. CASE Waiting' = Waiting
    <3>1. Gone' = Gone \cup {c}
      BY <1>2, <2>1, <2>3 DEF Inserts, Gone
    <3>2. Contract!TurnAway(c)
      BY <1>2, <2>2, <2>3, <3>1 DEF Inserts, Contract!TurnAway
    <3> QED
      BY <2>1, <3>2 DEF Contract!Next
  <2>4. CASE Waiting' = Waiting \cup {c}
    <3>1. Gone' = Gone
      BY <1>2, <2>1, <2>4 DEF Inserts, Gone
    <3>2. Contract!Accept(c)
      BY <1>2, <2>2, <2>4, <3>1 DEF Inserts, Contract!Accept
    <3> QED
      BY <2>1, <3>2 DEF Contract!Next
  <2> QED
    BY Zenon, <1>2, <2>3, <2>4 DEF Inserts
<1>3. ASSUME NEW c \in Waiting, Stamps(c) PROVE Contract!Next
  <2>1. c \in 1 .. MaxEnqueues
    BY <1>0 DEF SerialInv
  <2>2. Gone' = Gone
    BY <1>3 DEF Stamps, Gone
  <2>3. Contract!Order(c)
    BY <1>3, <2>2 DEF Stamps, Contract!Order
  <2> QED
    BY <2>1, <2>3 DEF Contract!Next
<1>4. CASE Takes
  <2> DEFINE due == (Waiting \ Waiting') \cup (Ordered \ Ordered')
  <2>1. Waiting' = Waiting \ due /\ Ordered' = Ordered \ due
    BY <1>4 DEF Takes
  <2>2. Gone' = Gone \cup due
    BY <1>4 DEF Takes, SerialInv, Gone
  <2>3. Contract!Expire(due) /\ due \in SUBSET (Waiting \cup Ordered)
    BY <2>1, <2>2 DEF Contract!Expire
  <2> QED
    BY <2>3 DEF Contract!Next
<1>5. CASE UNCHANGED <<Waiting, Ordered, InCall, serial>>
  BY <1>5 DEF Gone, Contract!vars
<1> QED
  BY <1>1, <1>2, <1>3, <1>4, <1>5, StepEffect

(***************************************************************************)
(* For any ids, clocks, TTLs and threads, and with repeated ids too,       *)
(* enqueue, stamp and expire_messages move every message object forward    *)
(* from its call to waiting, queued and gone, as QueueContract has it.     *)
(***************************************************************************)
THEOREM QueueKeepsContract == Spec => ImplementsContract
<1>1. Init => SerialInv /\ Contract!Init
  <2> SUFFICES ASSUME Init PROVE SerialInv /\ Contract!Init
    BY Zenon
  <2>1. Waiting = {} /\ serial = 0
    BY DEF Init, Waiting
  <2>2. Ordered = {}
    BY DEF Init, Ordered, Range
  <2>3. InCall = {}
    BY Zenon DEF Init, InCall
  <2>4. Gone = {}
    BY <2>1 DEF Gone
  <2> QED
    BY <2>1, <2>2, <2>3, <2>4, MessageQueueAssumption DEF SerialInv, Contract!Init
<1>2. QueueInv => TypeOK
  BY Zenon DEF QueueInv
<1>3. QueueInv /\ QueueInv' /\ SerialInv /\ [Next]_vars => SerialInv'
  BY Zenon, SerialInvInductive DEF QueueInv
<1>4. QueueInv /\ SerialInv /\ [Next]_vars => [Contract!Next]_(Contract!vars)
  BY Zenon, <1>2, ContractStep
<1> QED
  BY <1>1, <1>3, <1>4, InitQueueInv, QueueInvInductive, PTL
  DEF Spec, ImplementsContract, Contract!Spec
=============================================================================
