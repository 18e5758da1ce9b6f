----------------------------- MODULE NodeProofs -----------------------------
(***************************************************************************)
(* Proofs about PublishOrder, for any set of messages, any bound on clocks *)
(* and restarts and any clocks to start with: types; and, where those      *)
(* satisfy IdsAssigned and NoneAhead, the real-time order of the vector    *)
(* clocks.                                                                 *)
(*                                                                         *)
(* The argument: a node advances only its own clock, so what it answers is *)
(* what it started with but for a greater clock of its own (Answer), and   *)
(* that one is ahead of what any other process holds for it (OwnIsAhead).  *)
(* Both nodes of the later message are therefore ahead of the earlier      *)
(* message's clock: either they took the earlier message too, and took the *)
(* later one after it (Order), or the earlier clock has what another       *)
(* process holds for them.  That leaves one node that may be ahead on the  *)
(* other side, and operator< compares 2 with at most 1.                    *)
(*                                                                         *)
(* And about FailureDetector, for any window and threshold.  If e < t * x  *)
(* for each of n samples x, then e * n < t * sum, by induction on the      *)
(* prefixes of the window: a node whose silence is short against each of   *)
(* the intervals is short against their average.                           *)
(*                                                                         *)
(* And about VectorClock, for any two clocks of the same three nodes: what *)
(* operator< and max() promise each other, position by position.           *)
(***************************************************************************)
EXTENDS PublishOrder, FailureDetector, TLAPS

\* v is w but for the clock of node n, which has advanced by at least d.
Advanced(v, w, n, d) ==
  /\ \A i \in Positions : i # n => v[i] = w[i]
  /\ v[n].node_id = w[n].node_id /\ v[n].generation = w[n].generation
  /\ v[n].clock >= w[n].clock + d

View(v, n) == \E w \in InitViews[n] : Advanced(v, w, n, 0)
Answer(v, n) == \E w \in InitViews[n] : Advanced(v, w, n, 1)

\* v is of the same nodes as r, and of the same start of node n.
SameStart(r, v, n) == SameQuorum(r, v) /\ r[n].generation = v[n].generation

Views == \A n \in Positions : View(view[n], n)

Replies ==
  \A m \in Msgs, n \in Positions : reply[m][n] # None =>
    /\ n \in target[m]
    /\ Answer(reply[m][n], n)
    /\ m \notin disturbed => /\ SameStart(reply[m][n], view[n], n)
                             /\ reply[m][n][n].clock <= view[n][n].clock

StampOf(m, a, b) ==
  /\ a # b /\ target[m] = {a, b}
  /\ reply[m][a] # None /\ reply[m][b] # None
  /\ SameQuorum(reply[m][a], reply[m][b])
  /\ stamp[m] = VCMax(reply[m][a], reply[m][b])

Stamps ==
  \A m \in Msgs : stamp[m] # None => \E a, b \in Positions : StampOf(m, a, b)

Order ==
  \A m2 \in Msgs : \A m1 \in before[m2] :
    /\ stamp[m1] # None
    /\ m1 \notin disturbed => \A n \in target[m1] : reply[m2][n] # None =>
         /\ SameStart(reply[m1][n], reply[m2][n], n)
         /\ reply[m1][n][n].clock < reply[m2][n][n].clock

\* The inductive invariant.
OrderInv == TypeOK /\ Views /\ Replies /\ Stamps /\ Order
-----------------------------------------------------------------------------
LEMMA PositionsThree == Positions = {1, 2, 3}
BY PublishOrderAssumption DEF Positions

LEMMA StartIsView ==
  ASSUME NEW n \in Positions, NEW v \in InitViews[n]
  PROVE  v \in VectorClocks /\ View(v, n)
<1>1. v \in VectorClocks
  BY Zenon, PublishOrderAssumption
<1>2. v[n].clock >= v[n].clock + 0
  BY <1>1 DEF VectorClocks, NodeClock
<1> QED
  BY Zenon, <1>1, <1>2 DEF View, Advanced

\* ++_clock.clock changes one counter of one process.
LEMMA AdvanceEffect ==
  ASSUME TypeOK, NEW n \in Positions, Advance(n)
  PROVE  /\ view' \in [Positions -> VectorClocks]
         /\ \A k \in Positions : k # n => view'[k] = view[k]
         /\ \A i \in Positions : i # n => view'[n][i] = view[n][i]
         /\ view'[n][n].node_id = view[n][n].node_id
         /\ view'[n][n].generation = view[n][n].generation
         /\ view'[n][n].clock = view[n][n].clock + 1
<1> DEFINE c == [view[n][n] EXCEPT !.clock = @ + 1]
           v == [view[n] EXCEPT ![n] = c]
<1>1. view' = [view EXCEPT ![n] = v]
  BY DEF Advance
<1>2. view \in [Positions -> VectorClocks] /\ view[n] \in VectorClocks
  BY DEF TypeOK
<1>3. view[n][n] \in NodeClock(Nat, Nat, Nat)
  BY <1>2 DEF VectorClocks
<1>4. /\ c \in NodeClock(Nat, Nat, Nat)
      /\ c.node_id = view[n][n].node_id /\ c.generation = view[n][n].generation
      /\ c.clock = view[n][n].clock + 1
  BY <1>3 DEF NodeClock
<1> HIDE DEF c
<1>5. v \in VectorClocks /\ v[n] = c /\ \A i \in Positions : i # n => v[i] = view[n][i]
  BY <1>2, <1>4 DEF VectorClocks
<1> HIDE DEF v
<1>6. view'[n] = v /\ \A k \in Positions : k # n => view'[k] = view[k]
  BY <1>1, <1>2
<1>7. view' \in [Positions -> VectorClocks]
  BY <1>1, <1>2, <1>5
<1> QED
  BY <1>4, <1>5, <1>6, <1>7

LEMMA VCMaxType ==
  ASSUME NEW a \in VectorClocks, NEW b \in VectorClocks
  PROVE  VCMax(a, b) \in VectorClocks
BY DEF VectorClocks, VCMax, NodeClockMax, NodeClockLess, NodeClock

LEMMA InitOrderInv == Init => OrderInv
<1> SUFFICES ASSUME Init PROVE OrderInv
  OBVIOUS
<1>1. view = [n \in Positions |-> view[n]] /\ \A n \in Positions : view[n] \in InitViews[n]
  BY DEF Init
<1>2. TypeOK
  <2>1. view \in [Positions -> VectorClocks]
    BY <1>1, StartIsView
  <2> QED
    BY <2>1, PublishOrderAssumption DEF Init, TypeOK
<1>3. Views
  BY <1>1, StartIsView DEF Views
<1>4. Replies /\ Stamps /\ Order
  BY DEF Init, Replies, Stamps, Order
<1> QED
  BY <1>2, <1>3, <1>4 DEF OrderInv
-----------------------------------------------------------------------------
LEMMA PublishKeepsInv ==
  ASSUME OrderInv, NEW m \in Msgs, NEW Q \in SUBSET Positions, Publish(m, Q)
  PROVE  OrderInv'
<1> USE DEF OrderInv, Publish
<1>1. \A n \in Positions : reply[m][n] = None
  BY DEF Replies
<1>2. stamp[m] = None
  BY DEF Stamps, StampOf
<1>3. TypeOK'
  BY DEF TypeOK, Stamped
<1>4. /\ \A k \in Msgs : k # m => target'[k] = target[k] /\ before'[k] = before[k]
      /\ before'[m] = Stamped
  BY DEF TypeOK
<1>5. Views'
  BY DEF Views, View, Advanced
<1>6. Replies'
  <2> SUFFICES ASSUME NEW k \in Msgs, NEW n \in Positions, reply[k][n] # None
               PROVE  /\ n \in target'[k]
                      /\ Answer(reply[k][n], n)
                      /\ k \notin disturbed => /\ SameStart(reply[k][n], view[n], n)
                                               /\ reply[k][n][n].clock <= view[n][n].clock
    BY DEF Replies, Answer, Advanced, SameStart, SameQuorum
  <2> QED
    BY Zenon, <1>1, <1>4 DEF Replies
<1>7. Stamps'
  BY <1>2, <1>4 DEF Stamps, StampOf
<1>8. Order'
  <2> SUFFICES ASSUME NEW m2 \in Msgs, NEW m1 \in before'[m2]
               PROVE  /\ stamp[m1] # None
                      /\ m1 \notin disturbed => \A n \in target'[m1] : reply[m2][n] # None =>
                           /\ SameStart(reply[m1][n], reply[m2][n], n)
                           /\ reply[m1][n][n].clock < reply[m2][n][n].clock
    BY DEF Order
  <2>1. CASE m2 = m
    BY <2>1, <1>1, <1>3, <1>4 DEF Stamped, TypeOK
  <2>2. CASE m2 # m
    <3>1. m1 \in before[m2] /\ stamp[m1] # None /\ m1 \in Msgs
      BY <2>2, <1>4 DEF Order, TypeOK
    <3>2. target'[m1] = target[m1]
      BY <3>1, <1>2, <1>4
    <3> QED
      BY <3>1, <3>2 DEF Order
  <2> QED
    BY <2>1, <2>2
<1> QED
  BY <1>3, <1>5, <1>6, <1>7, <1>8

LEMMA AdvanceKeepsViews ==
  ASSUME OrderInv, NEW n \in Positions, Advance(n)
  PROVE  /\ Views'
         /\ SameStart(view[n], view'[n], n)
         /\ Answer(view'[n], n)
         /\ \A m \in Msgs, k \in Positions : reply[m][k] # None /\ m \notin disturbed =>
              /\ SameStart(reply[m][k], view'[k], k)
              /\ reply[m][k][k].clock <= view'[k][k].clock
<1>1. TypeOK /\ Views /\ Replies
  BY Zenon DEF OrderInv
<1>2. /\ \A k \in Positions : k # n => view'[k] = view[k]
      /\ \A i \in Positions : i # n => view'[n][i] = view[n][i]
      /\ view'[n][n].node_id = view[n][n].node_id
      /\ view'[n][n].generation = view[n][n].generation
      /\ view'[n][n].clock = view[n][n].clock + 1
  BY Zenon, <1>1, AdvanceEffect
<1>3. view[n][n].clock \in Nat
  BY <1>1 DEF TypeOK, VectorClocks, NodeClock
<1>4. PICK w \in InitViews[n] : Advanced(view[n], w, n, 0)
  BY Zenon, <1>1 DEF Views, View
<1>5. Advanced(view'[n], w, n, 1) /\ Advanced(view'[n], w, n, 0)
  <2>1. w[n].clock \in Nat
    BY PublishOrderAssumption DEF VectorClocks, NodeClock
  <2>2. view'[n][n].clock >= w[n].clock + 1 /\ view'[n][n].clock >= w[n].clock + 0
    BY <1>2, <1>3, <1>4, <2>1 DEF Advanced
  <2> QED
    BY Zenon, <1>2, <1>4, <2>2 DEF Advanced
<1>6. SameStart(view[n], view'[n], n)
  BY Zenon, <1>2 DEF SameStart, SameQuorum
<1>7. Views'
  <2> SUFFICES ASSUME NEW k \in Positions PROVE View(view'[k], k)
    BY Zenon DEF Views, View, Advanced
  <2>1. CASE k = n
    BY Zenon, <2>1, <1>5 DEF View
  <2>2. CASE k # n
    BY Zenon, <2>2, <1>1, <1>2 DEF Views
  <2> QED
    BY Zenon, <2>1, <2>2
<1>8. Answer(view'[n], n)
  BY Zenon, <1>5 DEF Answer
<1>9. ASSUME NEW m \in Msgs, NEW k \in Positions, reply[m][k] # None, m \notin disturbed
      PROVE  SameStart(reply[m][k], view'[k], k) /\ reply[m][k][k].clock <= view'[k][k].clock
  <2>1. SameStart(reply[m][k], view[k], k) /\ reply[m][k][k].clock <= view[k][k].clock
    BY Zenon, <1>1, <1>9 DEF Replies
  <2>2. reply[m][k] \in VectorClocks
    BY <1>1, <1>9 DEF TypeOK
  <2>3. reply[m][k][k].clock \in Nat
    BY <2>2 DEF VectorClocks, NodeClock
  <2>4. CASE k # n
    BY Zenon, <2>1, <2>4, <1>2
  <2>5. CASE k = n
    <3>1. SameStart(reply[m][k], view'[k], k)
      BY Zenon, <2>1, <2>5, <1>6 DEF SameStart, SameQuorum
    <3>2. reply[m][k][k].clock <= view'[k][k].clock
      BY <2>1, <2>3, <2>5, <1>2, <1>3
    <3> QED
      BY Zenon, <3>1, <3>2
  <2> QED
    BY Zenon, <2>4, <2>5
<1> QED
  BY Zenon, <1>6, <1>7, <1>8, <1>9

LEMMA TakeMessageKeepsInv ==
  ASSUME OrderInv, NEW n \in Positions, NEW m \in Msgs, TakeMessage(n, m)
  PROVE  OrderInv'
<1>1. TypeOK /\ Views /\ Replies /\ Stamps /\ Order
  BY DEF OrderInv
<1>2. /\ n \in target[m] /\ reply[m][n] = None /\ Advance(n)
      /\ reply' = [reply EXCEPT ![m][n] = view'[n]]
      /\ UNCHANGED <<target, stamp, failed, before, disturbed, restarts>>
  BY DEF TakeMessage
<1>3. view' \in [Positions -> VectorClocks]
  BY <1>1, <1>2, AdvanceEffect
<1>4. /\ Views'
      /\ SameStart(view[n], view'[n], n)
      /\ Answer(view'[n], n)
      /\ \A k \in Msgs, i \in Positions : reply[k][i] # None /\ k \notin disturbed =>
           /\ SameStart(reply[k][i], view'[i], i)
           /\ reply[k][i][i].clock <= view'[i][i].clock
  BY <1>2, AdvanceKeepsViews
<1>5. TypeOK'
  BY <1>1, <1>2, <1>3 DEF TypeOK
<1>6. /\ reply'[m][n] = view'[n] /\ reply'[m][n] # None
      /\ \A k \in Msgs, i \in Positions : k # m \/ i # n => reply'[k][i] = reply[k][i]
  BY <1>1, <1>2, <1>3, PublishOrderAssumption DEF TypeOK
<1>7. Replies'
  <2> SUFFICES ASSUME NEW k \in Msgs, NEW i \in Positions, reply'[k][i] # None
               PROVE  /\ i \in target[k]
                      /\ Answer(reply'[k][i], i)
                      /\ k \notin disturbed => /\ SameStart(reply'[k][i], view'[i], i)
                                               /\ reply'[k][i][i].clock <= view'[i][i].clock
    BY Zenon, <1>2 DEF Replies, Answer, Advanced, SameStart, SameQuorum
  <2>1. CASE k = m /\ i = n
    <3>1. view'[n][n].clock <= view'[n][n].clock
      BY <1>3 DEF VectorClocks, NodeClock
    <3> QED
      BY Zenon, <2>1, <3>1, <1>2, <1>4, <1>6 DEF SameStart, SameQuorum
  <2>2. CASE ~(k = m /\ i = n)
    BY <2>2, <1>1, <1>4, <1>6 DEF Replies
  <2> QED
    BY <2>1, <2>2
<1>8. \A k \in Msgs : stamp[k] # None => \A i \in target[k] : i \in Positions /\ reply[k][i] # None
  BY <1>1 DEF Stamps, StampOf
<1>9. stamp[m] = None
  BY <1>2, <1>8
<1>10. Stamps'
  <2> SUFFICES ASSUME NEW k \in Msgs, stamp[k] # None
               PROVE  \E a, b \in Positions : StampOf(k, a, b)'
    BY <1>2 DEF Stamps
  <2>1. PICK a, b \in Positions : StampOf(k, a, b)
    BY <1>1 DEF Stamps
  <2>2. StampOf(k, a, b)'
    BY <2>1, <1>2, <1>6, <1>9 DEF StampOf, SameQuorum, VCMax
  <2> QED
    BY <2>2
<1>11. Order'
  <2> SUFFICES ASSUME NEW m2 \in Msgs, NEW m1 \in before[m2]
               PROVE  /\ stamp[m1] # None
                      /\ m1 \notin disturbed => \A i \in target[m1] : reply'[m2][i] # None =>
                           /\ SameStart(reply'[m1][i], reply'[m2][i], i)
                           /\ reply'[m1][i][i].clock < reply'[m2][i][i].clock
    BY <1>2 DEF Order, SameStart, SameQuorum
  <2>1. m1 \in Msgs /\ stamp[m1] # None /\ m1 # m
    BY <1>1, <1>9 DEF Order, TypeOK
  <2> SUFFICES ASSUME m1 \notin disturbed, NEW i \in target[m1], reply'[m2][i] # None
               PROVE  /\ SameStart(reply'[m1][i], reply'[m2][i], i)
                      /\ reply'[m1][i][i].clock < reply'[m2][i][i].clock
    BY <2>1
  <2>2. i \in Positions /\ reply[m1][i] # None /\ reply'[m1][i] = reply[m1][i]
    BY <2>1, <1>6, <1>8
  <2>3. CASE m2 = m /\ i = n
    <3>1. SameStart(reply[m1][n], view[n], n) /\ reply[m1][n][n].clock <= view[n][n].clock
      BY <2>1, <2>2, <2>3, <1>1 DEF Replies
    <3>2. view'[n][n].clock = view[n][n].clock + 1
      BY <1>1, <1>2, AdvanceEffect
    <3>3. reply[m1][n][n].clock \in Nat /\ view[n][n].clock \in Nat
      BY <2>1, <2>2, <2>3, <1>1 DEF TypeOK, VectorClocks, NodeClock
    <3>4. SameStart(reply[m1][n], view'[n], n)
      BY Zenon, <3>1, <1>4 DEF SameStart, SameQuorum
    <3>5. reply[m1][n][n].clock < view'[n][n].clock
      BY <3>1, <3>2, <3>3
    <3> QED
      BY Zenon, <2>2, <2>3, <3>4, <3>5, <1>6
  <2>4. CASE ~(m2 = m /\ i = n)
    BY <2>1, <2>2, <2>4, <1>1, <1>6 DEF Order
  <2> QED
    BY <2>3, <2>4
<1> QED
  BY <1>4, <1>5, <1>7, <1>10, <1>11 DEF OrderInv

LEMMA TakeOtherKeepsInv ==
  ASSUME OrderInv, NEW n \in Positions, TakeOther(n)
  PROVE  OrderInv'
<1>1. TypeOK /\ Views /\ Replies /\ Stamps /\ Order
  BY DEF OrderInv
<1>2. Advance(n) /\ UNCHANGED <<target, reply, stamp, failed, before, disturbed, restarts>>
  BY DEF TakeOther
<1>3. TypeOK'
  BY <1>1, <1>2, AdvanceEffect DEF TypeOK
<1>4. Views'
  BY <1>2, AdvanceKeepsViews
<1>5. \A m \in Msgs, k \in Positions : reply[m][k] # None /\ m \notin disturbed =>
        SameStart(reply[m][k], view'[k], k) /\ reply[m][k][k].clock <= view'[k][k].clock
  BY <1>2, AdvanceKeepsViews
<1>6. Replies'
  BY <1>1, <1>2, <1>5 DEF Replies, SameStart, SameQuorum, Answer, Advanced
<1>7. Stamps'
  BY <1>1, <1>2 DEF Stamps, StampOf
<1>8. Order'
  BY <1>1, <1>2 DEF Order
<1> QED
  BY <1>3, <1>4, <1>6, <1>7, <1>8 DEF OrderInv

LEMMA NotQueuedKeepsInv ==
  ASSUME OrderInv, NEW m \in Msgs, NEW n \in Positions, NotQueued(m, n)
  PROVE  OrderInv'
<1>1. TypeOK /\ Views /\ Replies /\ Stamps /\ Order
  BY Zenon DEF OrderInv
<1>2. /\ failed' = failed \cup {m}
      /\ UNCHANGED <<view, target, reply, stamp, before, disturbed, restarts>>
  BY Zenon DEF NotQueued
<1>3. TypeOK'
  BY <1>1, <1>2 DEF TypeOK
<1>4. Views' /\ Replies'
  BY Zenon, <1>1, <1>2 DEF Views, Replies
<1>5. Stamps' /\ Order'
  BY <1>1, <1>2 DEF Stamps, StampOf, Order
<1> QED
  BY Zenon, <1>3, <1>4, <1>5 DEF OrderInv

LEMMA CombineKeepsInv ==
  ASSUME OrderInv, NEW m \in Msgs, NEW a \in Positions, NEW b \in Positions, Combine(m, a, b)
  PROVE  OrderInv'
<1>1. TypeOK /\ Views /\ Replies /\ Stamps /\ Order
  BY DEF OrderInv
<1>2. /\ target[m] = {a, b} /\ a # b
      /\ reply[m][a] # None /\ reply[m][b] # None
      /\ stamp[m] = None
      /\ UNCHANGED <<view, target, reply, before, disturbed, restarts>>
      /\ \/ /\ SameQuorum(reply[m][a], reply[m][b])
            /\ stamp' = [stamp EXCEPT ![m] = VCMax(reply[m][a], reply[m][b])]
            /\ failed' = failed
         \/ stamp' = stamp /\ failed' = failed \cup {m}
  BY DEF Combine
<1>3. reply[m][a] \in VectorClocks /\ reply[m][b] \in VectorClocks
  BY <1>1, <1>2 DEF TypeOK
<1>4. VCMax(reply[m][a], reply[m][b]) \in VectorClocks
  BY <1>3, VCMaxType
<1>5. TypeOK'
  BY <1>1, <1>2, <1>4 DEF TypeOK
<1>6. Views'
  BY <1>1, <1>2 DEF Views
<1>7. Replies'
  BY <1>1, <1>2 DEF Replies
<1>8. \A k \in Msgs : stamp[k] # None => stamp'[k] = stamp[k]
  BY <1>1, <1>2 DEF TypeOK
<1>9. Stamps'
  <2> SUFFICES ASSUME NEW k \in Msgs, stamp'[k] # None
               PROVE  \E c, d \in Positions : StampOf(k, c, d)'
    BY DEF Stamps
  <2>1. CASE stamp[k] # None
    BY <2>1, <1>1, <1>2, <1>8 DEF Stamps, StampOf
  <2>2. CASE stamp[k] = None
    <3>1. k = m /\ StampOf(m, a, b)'
      BY <2>2, <1>1, <1>2 DEF TypeOK, StampOf
    <3> QED
      BY <3>1
  <2> QED
    BY <2>1, <2>2
<1>10. Order'
  <2>1. \A m2 \in Msgs : \A m1 \in before[m2] : m1 \in Msgs
    BY <1>1 DEF TypeOK
  <2> QED
    BY <2>1, <1>1, <1>2, <1>8 DEF Order
<1> QED
  BY <1>5, <1>6, <1>7, <1>9, <1>10 DEF OrderInv

LEMMA RestartKeepsInv ==
  ASSUME OrderInv, NEW n \in Positions, Restart(n)
  PROVE  OrderInv'
<1>1. TypeOK /\ Views /\ Replies /\ Stamps /\ Order
  BY DEF OrderInv
<1>2. PICK v \in InitViews[n] : view' = [view EXCEPT ![n] = v]
  BY Zenon DEF Restart
<1>3. /\ restarts < MaxRestarts /\ restarts' = restarts + 1
      /\ disturbed' = disturbed \cup {m \in Msgs : reply[m][n] # None}
      /\ UNCHANGED <<target, reply, stamp, failed, before>>
  BY DEF Restart
<1>4. v \in VectorClocks /\ View(v, n)
  BY Zenon, StartIsView
<1>5. view'[n] = v /\ \A k \in Positions : k # n => view'[k] = view[k]
  BY <1>1, <1>2 DEF TypeOK
<1>6. TypeOK'
  BY <1>1, <1>2, <1>3, <1>4, PublishOrderAssumption DEF TypeOK
<1>7. Views'
  <2> SUFFICES ASSUME NEW k \in Positions PROVE View(view'[k], k)
    BY Zenon DEF Views, View, Advanced
  <2> QED
    BY Zenon, <1>1, <1>4, <1>5 DEF Views
<1>8. Replies'
  <2> SUFFICES ASSUME NEW m \in Msgs, NEW k \in Positions, reply[m][k] # None
               PROVE  /\ k \in target[m]
                      /\ Answer(reply[m][k], k)
                      /\ m \notin disturbed' => /\ SameStart(reply[m][k], view'[k], k)
                                                /\ reply[m][k][k].clock <= view'[k][k].clock
    BY <1>3 DEF Replies, Answer, Advanced, SameStart, SameQuorum
  <2>1. m \notin disturbed' => k # n /\ m \notin disturbed
    BY <1>3
  <2> QED
    BY <2>1, <1>1, <1>5 DEF Replies
<1>9. Stamps'
  BY <1>1, <1>3 DEF Stamps, StampOf
<1>10. Order'
  BY <1>1, <1>3 DEF Order
<1> QED
  BY <1>6, <1>7, <1>8, <1>9, <1>10 DEF OrderInv

LEMMA NextKeepsInv == OrderInv /\ [Next]_vars => OrderInv'
<1> SUFFICES ASSUME OrderInv, [Next]_vars PROVE OrderInv'
  OBVIOUS
<1>1. CASE UNCHANGED vars
  BY <1>1 DEF vars, OrderInv, TypeOK, Views, Replies, Stamps, StampOf, Order
<1>2. ASSUME NEW m \in Msgs, NEW Q \in SUBSET Positions, Publish(m, Q) PROVE OrderInv'
  BY <1>2, PublishKeepsInv
<1>3. ASSUME NEW n \in Positions, NEW m \in Msgs, TakeMessage(n, m) PROVE OrderInv'
  BY <1>3, TakeMessageKeepsInv
<1>4. ASSUME NEW n \in Positions, TakeOther(n) PROVE OrderInv'
  BY <1>4, TakeOtherKeepsInv
<1>5. ASSUME NEW m \in Msgs, NEW a \in Positions, NEW b \in Positions, Combine(m, a, b)
      PROVE  OrderInv'
  BY <1>5, CombineKeepsInv
<1>6. ASSUME NEW n \in Positions, Restart(n) PROVE OrderInv'
  BY <1>6, RestartKeepsInv
<1>7. ASSUME NEW m \in Msgs, NEW n \in Positions, NotQueued(m, n) PROVE OrderInv'
  BY <1>7, NotQueuedKeepsInv
<1> QED
  BY Zenon, <1>1, <1>2, <1>3, <1>4, <1>5, <1>6, <1>7 DEF Next
-----------------------------------------------------------------------------
\* The clock a node answers with is ahead of what any other node answers for it.
LEMMA OwnIsAhead ==
  ASSUME NoneAhead, NEW n \in Positions, NEW i \in Positions, n # i,
         NEW r \in VectorClocks, Answer(r, n), NEW s, Answer(s, i)
  PROVE  NodeClockLess(s[n], r[n])
<1>1. PICK w \in InitViews[n] : Advanced(r, w, n, 1)
  BY Zenon DEF Answer
<1>2. PICK x \in InitViews[i] : Advanced(s, x, i, 1)
  BY Zenon DEF Answer
<1>3. s[n] = x[n] /\ ~NodeClockLess(w[n], x[n])
  BY Zenon, <1>1, <1>2 DEF Advanced, NoneAhead
<1>4. w[n] \in NodeClock(Nat, Nat, Nat) /\ x[n] \in NodeClock(Nat, Nat, Nat) /\ r[n] \in NodeClock(Nat, Nat, Nat)
  BY PublishOrderAssumption DEF VectorClocks
<1>5. r[n].generation = w[n].generation /\ r[n].clock >= w[n].clock + 1
  BY Zenon, <1>1 DEF Advanced
<1> QED
  BY <1>3, <1>4, <1>5 DEF NodeClockLess, NodeClock

LEMMA AnswerHasIds ==
  ASSUME IdsAssigned, NEW n \in Positions, NEW r, Answer(r, n)
  PROVE  DistinctIds(r)
<1>1. PICK w \in InitViews[n] : Advanced(r, w, n, 1)
  BY Zenon DEF Answer
<1>2. \A i \in Positions : r[i].node_id = w[i].node_id
  BY Zenon, <1>1 DEF Advanced
<1>3. DistinctIds(w)
  BY Zenon DEF IdsAssigned
<1> QED
  BY Zenon, <1>2, <1>3 DEF DistinctIds

\* What a stamp is, position by position.
LEMMA StampShape ==
  ASSUME NoneAhead, OrderInv, NEW m \in Msgs, stamp[m] # None
  PROVE  /\ stamp[m] \in VectorClocks
         /\ \E a, b \in Positions : a # b /\ target[m] = {a, b}
         /\ \A n \in target[m] : /\ reply[m][n] # None /\ SameQuorum(stamp[m], reply[m][n])
                                 /\ reply[m][n] \in VectorClocks /\ Answer(reply[m][n], n)
         /\ \A i \in Positions :
              /\ i \in target[m] => stamp[m][i] = reply[m][i][i]
              /\ i \notin target[m] => \E n \in target[m] : stamp[m][i] = reply[m][n][i]
<1>1. TypeOK /\ Replies /\ Stamps
  BY Zenon DEF OrderInv
<1>2. PICK a, b \in Positions : StampOf(m, a, b)
  BY Zenon, <1>1 DEF Stamps
<1> DEFINE ra == reply[m][a]
           rb == reply[m][b]
<1>3. /\ a # b /\ target[m] = {a, b} /\ ra # None /\ rb # None
      /\ SameQuorum(ra, rb) /\ stamp[m] = VCMax(ra, rb)
  BY Zenon, <1>2 DEF StampOf
<1>4. ra \in VectorClocks /\ rb \in VectorClocks
  BY <1>1, <1>3 DEF TypeOK
<1>5. Answer(ra, a) /\ Answer(rb, b)
  BY Zenon, <1>1, <1>3 DEF Replies
<1> HIDE DEF ra, rb
<1>6. stamp[m] \in VectorClocks
  BY Zenon, <1>3, <1>4, VCMaxType
<1>7. \A i \in Positions : stamp[m][i] = NodeClockMax(ra[i], rb[i])
  BY <1>3 DEF VCMax
<1>8. NodeClockLess(rb[a], ra[a]) /\ NodeClockLess(ra[b], rb[b])
  BY Zenon, <1>3, <1>4, <1>5, OwnIsAhead
<1>9. \A i \in Positions : stamp[m][i] = ra[i] \/ stamp[m][i] = rb[i]
  BY Zenon, <1>7 DEF NodeClockMax
<1>10. SameQuorum(stamp[m], ra) /\ SameQuorum(stamp[m], rb)
  BY <1>3, <1>9 DEF SameQuorum
<1>11. stamp[m][b] = rb[b]
  BY Zenon, <1>7, <1>8 DEF NodeClockMax
<1>12. stamp[m][a] = ra[a]
  <2>1. ra[a] \in NodeClock(Nat, Nat, Nat) /\ rb[a] \in NodeClock(Nat, Nat, Nat)
    BY <1>4 DEF VectorClocks
  <2>2. ~NodeClockLess(ra[a], rb[a])
    BY <1>8, <2>1 DEF NodeClockLess, NodeClock
  <2> QED
    BY Zenon, <1>7, <2>2 DEF NodeClockMax
<1> QED
  BY Zenon, <1>3, <1>4, <1>5, <1>6, <1>9, <1>10, <1>11, <1>12 DEF ra, rb

\* operator< on clocks that name the same nodes, each once, compares position by
\* position.
LEMMA SameNodesCompare ==
  ASSUME NEW s \in VectorClocks, NEW t \in VectorClocks, SameQuorum(s, t), DistinctIds(t)
  PROVE  /\ LeftLess(s, t) = {i \in Positions : NodeClockLess(s[i], t[i])}
         /\ RightLess(s, t) = {i \in Positions : NodeClockLess(t[i], s[i])}
<1>1. \A i, j \in Positions : IsPartner(s, t, i, j) <=> i = j
  <2> SUFFICES ASSUME NEW i \in Positions, NEW j \in Positions
               PROVE  IsPartner(s, t, i, j) <=> i = j
    OBVIOUS
  <2>1. s[i].node_id = t[i].node_id
    BY DEF SameQuorum
  <2>2. \A k \in Positions : t[k].node_id = t[i].node_id => k = i
    BY DEF DistinctIds
  <2>3. ~(i < i)
    BY DEF Positions
  <2> QED
    BY <2>1, <2>2, <2>3 DEF IsPartner
<1> QED
  BY <1>1 DEF LeftLess, RightLess

INSTANCE FiniteSetTheorems

\* Two of three positions are more than what is left of them.
LEMMA TwoAgainstOne ==
  ASSUME NEW L \in SUBSET Positions, NEW R \in SUBSET Positions,
         NEW a \in L, NEW b \in L, a # b, R \subseteq Positions \ {a, b}
  PROVE  Cardinality(L) > Cardinality(R)
<1>1. IsFiniteSet(Positions)
  <2>1. 1 \in Int /\ RF \in Int
    BY RFAssumption
  <2> QED
    BY <2>1, FS_Interval DEF Positions
<1>2. IsFiniteSet({a}) /\ Cardinality({a}) = 1
  BY FS_Singleton
<1>3. Cardinality({a} \cup {b}) = 2
  <2>1. b \notin {a}
    OBVIOUS
  <2>2. Cardinality({a} \cup {b}) = IF b \in {a} THEN Cardinality({a}) ELSE Cardinality({a}) + 1
    BY Zenon, <1>2, FS_AddElement
  <2> QED
    BY <2>1, <2>2, <1>2
<1>4. IsFiniteSet(L) /\ Cardinality(L) \in Nat
  BY <1>1, FS_Subset, FS_CardinalityType
<1>5. Cardinality(L) >= 2
  <2>1. {a} \cup {b} \in SUBSET L
    OBVIOUS
  <2>2. Cardinality({a} \cup {b}) <= Cardinality(L)
    BY <2>1, <1>4, FS_Subset
  <2> QED
    BY <2>2, <1>3, <1>4
<1>6. PICK c \in Positions : R \in SUBSET {c}
  BY Zenon, PositionsThree
<1>7. IsFiniteSet({c}) /\ Cardinality({c}) = 1
  BY Zenon, FS_Singleton
<1>8. IsFiniteSet(R) /\ Cardinality(R) <= 1
  BY <1>6, <1>7, FS_Subset
<1>9. Cardinality(R) \in Nat
  BY <1>8, FS_CardinalityType
<1> QED
  BY <1>4, <1>5, <1>8, <1>9

LEMMA InvImpliesOrder ==
  ASSUME IdsAssigned, NoneAhead
  PROVE  OrderInv => RealTimeOrder
<1> SUFFICES ASSUME OrderInv, NEW m2 \in Stamped, NEW m1 \in before[m2] \ disturbed
             PROVE  VCLess(stamp[m1], stamp[m2])
  BY Zenon DEF RealTimeOrder
<1> DEFINE s == stamp[m1]
           t == stamp[m2]
<1>1. TypeOK /\ Order
  BY Zenon DEF OrderInv
<1>2. m1 \in Msgs /\ m2 \in Msgs /\ s # None /\ t # None
  BY <1>1 DEF Stamped, Order, TypeOK
<1>3. /\ s \in VectorClocks
      /\ \E a, b \in Positions : a # b /\ target[m1] = {a, b}
      /\ \A n \in target[m1] : /\ reply[m1][n] # None /\ SameQuorum(s, reply[m1][n])
                               /\ reply[m1][n] \in VectorClocks /\ Answer(reply[m1][n], n)
      /\ \A i \in Positions :
           /\ i \in target[m1] => s[i] = reply[m1][i][i]
           /\ i \notin target[m1] => \E n \in target[m1] : s[i] = reply[m1][n][i]
  BY Zenon, <1>2, StampShape
<1>4. /\ t \in VectorClocks
      /\ \E a, b \in Positions : a # b /\ target[m2] = {a, b}
      /\ \A n \in target[m2] : /\ reply[m2][n] # None /\ SameQuorum(t, reply[m2][n])
                               /\ reply[m2][n] \in VectorClocks /\ Answer(reply[m2][n], n)
      /\ \A i \in Positions : i \in target[m2] => t[i] = reply[m2][i][i]
  BY Zenon, <1>2, StampShape
<1>5. \A n \in target[m1] \cap target[m2] :
        /\ SameStart(reply[m1][n], reply[m2][n], n)
        /\ reply[m1][n][n].clock < reply[m2][n][n].clock
  BY Zenon, <1>1, <1>2, <1>4 DEF Order
<1>6. target[m1] \subseteq Positions /\ target[m2] \subseteq Positions
  BY Zenon, <1>3, <1>4
<1> HIDE DEF s, t
<1>7. PICK n \in target[m1] : n \in target[m2]
  BY <1>3, <1>4, PositionsThree
<1>8. SameQuorum(s, t) /\ DistinctIds(t)
  <2>1. /\ SameQuorum(s, reply[m1][n]) /\ SameQuorum(t, reply[m2][n])
        /\ SameQuorum(reply[m1][n], reply[m2][n])
    BY Zenon, <1>3, <1>4, <1>5, <1>7 DEF SameStart
  <2>2. DistinctIds(reply[m2][n])
    BY Zenon, <1>4, <1>6, <1>7, AnswerHasIds
  <2> QED
    BY <2>1, <2>2 DEF SameQuorum, DistinctIds
<1>9. /\ LeftLess(s, t) = {i \in Positions : NodeClockLess(s[i], t[i])}
      /\ RightLess(s, t) = {i \in Positions : NodeClockLess(t[i], s[i])}
  BY Zenon, <1>3, <1>4, <1>8, SameNodesCompare
<1>10. ASSUME NEW i \in target[m2] PROVE NodeClockLess(s[i], t[i])
  <2>1. i \in Positions /\ t[i] = reply[m2][i][i]
    BY Zenon, <1>4, <1>6
  <2>2. CASE i \in target[m1]
    <3>1. s[i] = reply[m1][i][i] /\ SameStart(reply[m1][i], reply[m2][i], i)
          /\ reply[m1][i][i].clock < reply[m2][i][i].clock
      BY Zenon, <1>3, <1>5, <2>1, <2>2
    <3> QED
      BY Zenon, <2>1, <3>1 DEF NodeClockLess, SameStart
  <2>3. CASE i \notin target[m1]
    <3>1. PICK k \in target[m1] : s[i] = reply[m1][k][i]
      BY Zenon, <1>3, <2>1, <2>3
    <3>2. k \in Positions /\ k # i /\ Answer(reply[m1][k], k)
      BY Zenon, <1>3, <1>6, <2>3
    <3>3. NodeClockLess(reply[m1][k][i], reply[m2][i][i])
      BY Zenon, <1>4, <2>1, <3>2, OwnIsAhead
    <3> QED
      BY Zenon, <2>1, <3>1, <3>3
  <2> QED
    BY Zenon, <2>2, <2>3
<1>11. ASSUME NEW i \in target[m2] PROVE ~NodeClockLess(t[i], s[i])
  <2>1. s[i] \in NodeClock(Nat, Nat, Nat) /\ t[i] \in NodeClock(Nat, Nat, Nat)
    BY <1>3, <1>4, <1>6 DEF VectorClocks
  <2> QED
    BY <1>10, <2>1 DEF NodeClockLess, NodeClock
<1>12. PICK a, b \in Positions : a # b /\ target[m2] = {a, b}
  BY Zenon, <1>4
<1>13. /\ LeftLess(s, t) \subseteq Positions /\ a \in LeftLess(s, t) /\ b \in LeftLess(s, t)
       /\ RightLess(s, t) \subseteq Positions \ {a, b}
  BY <1>9, <1>10, <1>11, <1>12
<1>14. VCLess(s, t)
  BY <1>12, <1>13, TwoAgainstOne DEF VCLess
<1> QED
  BY Zenon, <1>14 DEF s, t

(***************************************************************************)
(* The clocks, replies and stamps keep their types: no step of the publish *)
(* path stores anything but a clock of RF entries.                         *)
(***************************************************************************)
THEOREM PublishOrderTypes == Spec => []TypeOK
<1>1. OrderInv => TypeOK
  BY DEF OrderInv
<1> QED
  BY <1>1, InitOrderInv, NextKeepsInv, PTL DEF Spec

(***************************************************************************)
(* vector_clock's operator< orders two messages the way they were          *)
(* published, whenever the second was published after the first was        *)
(* stamped and no node that took the first restarted, for any number of    *)
(* messages, clocks and restarts, provided that node ids are assigned and  *)
(* no process starts with a clock for another node that is ahead of it.    *)
(***************************************************************************)
THEOREM PublishedInOrder ==
  ASSUME IdsAssigned, NoneAhead
  PROVE  Spec => []RealTimeOrder
BY InitOrderInv, NextKeepsInv, InvImpliesOrder, PTL DEF Spec
-----------------------------------------------------------------------------
(***************************************************************************)
(* The failure detector.  Sums(g, s, n) says that g holds the sums of the  *)
(* prefixes of s, which is what accumulate computes.                       *)
(***************************************************************************)
INSTANCE WellFoundedInduction

LEMMA LeastElement ==
  ASSUME NEW S, S \subseteq Nat, S # {}
  PROVE  \E x \in S : \A y \in S : x <= y
<1> DEFINE R == OpToRel(<, Nat)
<1>1. IsWellFoundedOn(R, Nat)
  BY Zenon, NatLessThanWellFounded
<1>2. \A x, y \in Nat : x < y => <<x, y>> \in R
  BY DEF OpToRel
<1> HIDE DEF R
<1>3. PICK x \in S : \A y \in S : ~(<<y, x>> \in R)
  BY Zenon, <1>1, WFMin
<1>4. ASSUME NEW y \in S PROVE x <= y
  <2>1. x \in Nat /\ y \in Nat
    OBVIOUS
  <2>2. ~(y < x)
    BY <1>2, <1>3, <2>1, Zenon
  <2> QED
    BY <2>1, <2>2
<1> QED
  BY <1>4

\* Induction up to n, for a property that is given as a set.
LEMMA UpTo ==
  ASSUME NEW n \in Nat, NEW D, 0 \in D, \A k \in 0 .. n - 1 : k \in D => k + 1 \in D
  PROVE  \A k \in 0 .. n : k \in D
<1> DEFINE Out == {k \in 0 .. n : k \notin D}
<1>1. SUFFICES ASSUME Out # {} PROVE FALSE
  OBVIOUS
<1>2. PICK k \in Out : \A j \in Out : k <= j
  <2>1. Out \subseteq Nat
    OBVIOUS
  <2> QED
    BY Zenon, <1>1, <2>1, LeastElement
<1>3. k \in 1 .. n /\ k - 1 \notin Out
  BY <1>2
<1> QED
  BY <1>3

\* g[i] is the sum of the first i elements of s.
Sums(g, s, n) ==
  /\ g \in [0 .. n -> Int]
  /\ g[0] = 0 /\ \A i \in 1 .. n : g[i] = g[i - 1] + s[i]

LEMMA SumsExist ==
  ASSUME NEW n \in Nat, NEW s \in [1 .. n -> Int]
  PROVE  \E g : Sums(g, s, n)
<1> DEFINE D == {k \in 0 .. n : \E g : Sums(g, s, k)}
<1>1. 0 \in D
  <2>1. Sums([i \in 0 .. 0 |-> 0], s, 0)
    BY DEF Sums
  <2> QED
    BY <2>1
<1>2. ASSUME NEW k \in 0 .. n - 1, k \in D PROVE k + 1 \in D
  <2>1. PICK g : Sums(g, s, k)
    BY <1>2
  <2>0. /\ \A i \in 0 .. k : g[i] \in Int
        /\ g[k] \in Int /\ s[k + 1] \in Int
    BY <2>1 DEF Sums
  <2> HIDE DEF D
  <2> DEFINE h == [i \in 0 .. k + 1 |-> IF i = k + 1 THEN g[k] + s[k + 1] ELSE g[i]]
  <2>2. /\ \A i \in 0 .. k : h[i] = g[i]
        /\ h[k + 1] = g[k] + s[k + 1]
    OBVIOUS
  <2>3. h \in [0 .. k + 1 -> Int]
    <3>1. ASSUME NEW i \in 0 .. k + 1
          PROVE  (IF i = k + 1 THEN g[k] + s[k + 1] ELSE g[i]) \in Int
      BY <2>0
    <3> QED
      BY <3>1
  <2>4. h[0] = 0 /\ \A i \in 1 .. k + 1 : h[i] = h[i - 1] + s[i]
    <3>1. h[0] = 0
      BY <2>1, <2>2 DEF Sums
    <3>2. ASSUME NEW i \in 1 .. k PROVE h[i] = h[i - 1] + s[i]
      BY <2>1, <2>2 DEF Sums
    <3>3. h[k + 1] = h[k] + s[k + 1]
      BY <2>2
    <3> HIDE DEF h
    <3>4. \A i \in 1 .. k + 1 : i \in 1 .. k \/ i = k + 1
      OBVIOUS
    <3>5. k + 1 - 1 = k
      OBVIOUS
    <3> QED
      BY <3>1, <3>2, <3>3, <3>4, <3>5
  <2>5. Sums(h, s, k + 1)
    BY Zenon, <2>3, <2>4 DEF Sums
  <2> QED
    BY <2>5 DEF D
<1> HIDE DEF D
<1>3. \A k \in 0 .. n : k \in D
  BY Zenon, <1>1, <1>2, UpTo
<1> QED
  BY <1>3 DEF D

\* What std::accumulate returns is the last of the sums.
LEMMA AccumulateSums ==
  ASSUME NEW s \in Seq(Int)
  PROVE  \E g : Sums(g, s, Len(s)) /\ accumulate(s) = g[Len(s)]
<1> DEFINE n == Len(s)
           sum[i \in 0 .. Len(s)] == IF i = 0 THEN 0 ELSE sum[i - 1] + s[i]
<1>1. n \in Nat /\ s \in [1 .. n -> Int]
  OBVIOUS
<1>2. accumulate(s) = sum[n]
  BY DEF accumulate
<1>3. PICK g : Sums(g, s, n)
  BY <1>1, SumsExist
<1>4. g = [i \in 0 .. n |-> IF i = 0 THEN 0 ELSE g[i - 1] + s[i]]
  BY <1>1, <1>3 DEF Sums
<1>5. sum = [i \in 0 .. n |-> IF i = 0 THEN 0 ELSE sum[i - 1] + s[i]]
  BY Zenon, <1>4
<1> HIDE DEF sum, n
<1> DEFINE D == {i \in 0 .. n : sum[i] = g[i]}
<1>6. 0 \in D
  BY <1>1, <1>3, <1>5 DEF Sums
<1>7. ASSUME NEW k \in 0 .. n - 1, k \in D PROVE k + 1 \in D
  BY SMTT(30), <1>1, <1>3, <1>5, <1>7 DEF Sums
<1>8. \A k \in 0 .. n : k \in D
  <2> HIDE DEF D
  <2> QED
    BY Zenon, <1>1, <1>6, <1>7, UpTo
<1> QED
  BY <1>1, <1>2, <1>3, <1>8 DEF n

\* Sums of samples grow with them: a lower bound on each, and an upper one.
LEMMA SumsBounded ==
  ASSUME NEW n \in Nat \ {0}, NEW m \in Nat, NEW s \in [1 .. n -> 0 .. m], NEW g, Sums(g, s, n),
         NEW e \in Nat, NEW t \in Nat, \A i \in 1 .. n : e < t * s[i]
  PROVE  g[n] \in 0 .. n * m /\ e * n < t * g[n]
<1> DEFINE D == {k \in 0 .. n : g[k] \in 0 .. k * m /\ e * k <= t * g[k] /\ (k > 0 => e * k < t * g[k])}
<1>1. 0 \in D
  <2>1. g[0] = 0 /\ 0 * m = 0 /\ e * 0 = 0 /\ t * 0 = 0
    BY DEF Sums
  <2> QED
    BY <2>1
<1>2. ASSUME NEW k \in 0 .. n - 1, k \in D PROVE k + 1 \in D
  <2>1. /\ g[k + 1] = g[k] + s[k + 1] /\ s[k + 1] \in 0 .. m /\ e < t * s[k + 1]
        /\ g[k] \in Nat /\ g[k] <= k * m /\ e * k <= t * g[k]
    <3>1. g[k] \in 0 .. k * m /\ e * k <= t * g[k]
      BY <1>2
    <3> HIDE DEF D
    <3>2. k + 1 \in 1 .. n /\ k + 1 - 1 = k
      OBVIOUS
    <3>3. g[k + 1] = g[k] + s[k + 1]
      BY <3>2 DEF Sums
    <3>4. s[k + 1] \in 0 .. m /\ e < t * s[k + 1]
      BY <3>2
    <3> QED
      BY <3>1, <3>3, <3>4
  <2> DEFINE x == g[k]
             y == s[k + 1]
  <2>2. x \in Nat /\ y \in Nat /\ y <= m
    BY <2>1
  <2> HIDE DEF x, y
  <2>3. (k + 1) * m = k * m + m /\ e * (k + 1) = e * k + e /\ t * (x + y) = t * x + t * y
    BY <2>2
  <2>4. k * m \in Nat /\ e * k \in Nat /\ t * x \in Nat /\ t * y \in Nat
    BY <2>2
  <2>5. x <= k * m /\ e * k <= t * x /\ e < t * y /\ g[k + 1] = x + y
    BY <2>1 DEF x, y
  <2>6. x + y <= (k + 1) * m /\ e * (k + 1) < t * (x + y)
    BY <2>2, <2>3, <2>4, <2>5
  <2> QED
    BY SMTT(30), <2>2, <2>5, <2>6
<1>3. \A k \in 0 .. n : k \in D
  <2> HIDE DEF D
  <2> QED
    BY Zenon, <1>1, <1>2, UpTo
<1> QED
  BY <1>3
-----------------------------------------------------------------------------
LEMMA DetectorTypes == DetectorSpec => []DetectorTypeOK
<1>1. DetectorInit => DetectorTypeOK
  <2>1. InitialValue \in 0 .. MaxInterval /\ 0 \in 0 .. MaxElapsed
    BY FailureDetectorAssumption
  <2> QED
    BY Zenon, <2>1 DEF DetectorInit, DetectorTypeOK
<1>2. DetectorTypeOK /\ [DetectorNext]_detectorVars => DetectorTypeOK'
  <2> SUFFICES ASSUME DetectorTypeOK, [DetectorNext]_detectorVars PROVE DetectorTypeOK'
    OBVIOUS
  <2>1. CASE heartbeat
    <3>1. SampleSize \in Nat \ {0} /\ MaxInterval \in Nat /\ MaxElapsed \in Nat
      BY FailureDetectorAssumption
    <3>2. intervals \in Seq(0 .. MaxInterval) /\ Len(intervals) = SampleSize
      BY <3>1 DEF DetectorTypeOK
    <3>3. elapsed \in 0 .. MaxInterval
      BY <2>1, <3>1 DEF DetectorTypeOK, heartbeat
    <3>4. /\ Append(Tail(intervals), elapsed) \in Seq(0 .. MaxInterval)
          /\ Len(Append(Tail(intervals), elapsed)) = SampleSize
      BY <3>1, <3>2, <3>3
    <3>5. intervals' \in [1 .. SampleSize -> 0 .. MaxInterval]
      <4>1. ASSUME NEW S, NEW n, NEW s \in Seq(S), Len(s) = n PROVE s \in [1 .. n -> S]
        BY <4>1
      <4> QED
        BY Zenon, <2>1, <3>4, <4>1 DEF heartbeat
    <3> QED
      BY <2>1, <3>1, <3>5 DEF heartbeat, DetectorTypeOK
  <2>2. CASE set_failed
    BY <2>2 DEF set_failed, DetectorTypeOK
  <2>3. CASE Tick
    BY <2>3, FailureDetectorAssumption DEF Tick, DetectorTypeOK
  <2>4. CASE UNCHANGED detectorVars
    BY <2>4 DEF detectorVars, DetectorTypeOK
  <2> QED
    BY <2>1, <2>2, <2>3, <2>4 DEF DetectorNext
<1> QED
  BY <1>1, <1>2, PTL DEF DetectorSpec

LEMMA SumIsInt == DetectorTypeOK => IntervalSum \in Int
<1> SUFFICES ASSUME DetectorTypeOK PROVE IntervalSum \in Int
  OBVIOUS
<1>1. SampleSize \in Nat /\ MaxInterval \in Nat /\ IntHalf \in Nat \ {0}
  BY FailureDetectorAssumption
<1>2. intervals \in Seq(Int)
  BY <1>1 DEF DetectorTypeOK
<1>3. accumulate(intervals) \in Int
  <2>1. PICK g : Sums(g, intervals, Len(intervals)) /\ accumulate(intervals) = g[Len(intervals)]
    BY <1>2, AccumulateSums
  <2>2. Len(intervals) \in 0 .. Len(intervals)
    BY <1>2
  <2> QED
    BY <2>1, <2>2 DEF Sums
<1> QED
  BY <1>1, <1>3 DEF IntervalSum, ToInt

(***************************************************************************)
(* A node whose silence is short against every interval of the window is   *)
(* UP, for any size of the window and any threshold, as long as the sum of *)
(* the samples is an int.                                                  *)
(***************************************************************************)
THEOREM PaceIsKept ==
  ASSUME SampleSize * MaxInterval < IntHalf
  PROVE  DetectorSpec => []KeepingPaceIsUp
<1>1. DetectorTypeOK => KeepingPaceIsUp
  <2> SUFFICES ASSUME DetectorTypeOK,
                      \A i \in 1 .. SampleSize : PhiNum * elapsed < Threshold * PhiDen * intervals[i]
               PROVE  ~PhiAtThreshold
    BY DEF KeepingPaceIsUp, interpret
  <2> DEFINE e == PhiNum * elapsed
             t == Threshold * PhiDen
             x == accumulate(intervals)
  <2>1. /\ SampleSize \in Nat \ {0} /\ MaxInterval \in Nat /\ IntHalf \in Nat \ {0}
        /\ PhiNum \in Nat /\ Threshold \in Nat /\ PhiDen \in Nat /\ elapsed \in Nat
    BY FailureDetectorAssumption DEF DetectorTypeOK
  <2>2. /\ intervals \in [1 .. SampleSize -> 0 .. MaxInterval]
        /\ intervals \in Seq(Int) /\ Len(intervals) = SampleSize
    BY <2>1 DEF DetectorTypeOK
  <2>3. PICK g : Sums(g, intervals, SampleSize) /\ x = g[SampleSize]
    BY <2>2, AccumulateSums
  <2>4. e \in Nat /\ t \in Nat
    BY <2>1
  <2>5. \A i \in 1 .. SampleSize : e < t * intervals[i]
    OBVIOUS
  <2> HIDE DEF e, t, x
  <2>6. x \in 0 .. SampleSize * MaxInterval /\ e * SampleSize < t * x
    BY Zenon, <2>1, <2>2, <2>3, <2>4, <2>5, SumsBounded
  <2>7. x \in Nat /\ x < IntHalf
    <3>1. SampleSize * MaxInterval \in Nat
      BY <2>1
    <3> QED
      BY <2>1, <2>6, <3>1
  <2>8. IntervalSum = x
    <3>1. IntervalSum = ((x + IntHalf) % (2 * IntHalf)) - IntHalf
      BY DEF IntervalSum, ToInt, x
    <3>2. ASSUME NEW d \in Nat \ {0}, NEW z \in 0 .. d - 1 PROVE z % d = z
      OBVIOUS
    <3>3. (x + IntHalf) % (2 * IntHalf) = x + IntHalf
      BY <2>1, <2>7, <3>2
    <3> QED
      BY <2>1, <2>7, <3>1, <3>3
  <2>9. x # 0
    <3>1. e * SampleSize \in Nat /\ t * 0 = 0
      BY <2>1, <2>4
    <3> QED
      BY <2>6, <3>1
  <2>10. ~(e * SampleSize >= t * x)
    <3>1. e * SampleSize \in Nat /\ t * x \in Nat
      BY <2>1, <2>4, <2>7
    <3> QED
      BY <2>6, <3>1
  <2> QED
    BY <2>8, <2>9, <2>10 DEF PhiAtThreshold, e, t
<1> QED
  BY <1>1, DetectorTypes, PTL

(***************************************************************************)
(* Time alone never revives a node that was judged DOWN, nor does a forced *)
(* failure, whatever the samples add up to, beyond an int too.             *)
(***************************************************************************)
THEOREM HeartbeatRevives == DetectorSpec => OnlyHeartbeatRevives
<1>1. ASSUME DetectorTypeOK, [DetectorNext]_detectorVars, interpret = "DOWN", interpret' = "UP"
      PROVE  heartbeat
  <2>1. PhiAtThreshold /\ ~PhiAtThreshold'
    BY <1>1 DEF interpret
  <2>2. CASE UNCHANGED <<elapsed, intervals>>
    BY <2>1, <2>2 DEF PhiAtThreshold, IntervalSum
  <2>3. CASE Tick
    <3>1. /\ PhiNum \in Nat /\ SampleSize \in Nat /\ elapsed \in Nat
          /\ IntervalSum \in Int /\ Threshold \in Nat /\ PhiDen \in Nat
      BY <1>1, FailureDetectorAssumption, SumIsInt DEF DetectorTypeOK
    <3>2. elapsed' = elapsed + 1 /\ IntervalSum' = IntervalSum
      BY <2>3 DEF Tick, IntervalSum
    <3>3. PhiNum * (elapsed + 1) * SampleSize >= PhiNum * elapsed * SampleSize
      <4>1. PhiNum * (elapsed + 1) * SampleSize = PhiNum * elapsed * SampleSize + PhiNum * SampleSize
        BY <3>1
      <4>2. PhiNum * elapsed * SampleSize \in Int /\ PhiNum * SampleSize \in Nat
        BY <3>1
      <4> QED
        BY <4>1, <4>2
    <3> DEFINE a == PhiNum * (elapsed + 1) * SampleSize
               b == PhiNum * elapsed * SampleSize
               c == Threshold * PhiDen * IntervalSum
    <3>4. a \in Int /\ b \in Int /\ c \in Int
      BY <3>1
    <3>5. /\ PhiAtThreshold <=> (IntervalSum > 0 /\ b >= c) \/ (IntervalSum = 0 /\ elapsed > 0)
          /\ PhiAtThreshold' <=> (IntervalSum > 0 /\ a >= c) \/ (IntervalSum = 0 /\ elapsed + 1 > 0)
      BY <3>2 DEF PhiAtThreshold
    <3>6. a >= b
      BY <3>3
    <3> HIDE DEF a, b, c
    <3> QED
      BY <2>1, <3>1, <3>4, <3>5, <3>6
  <2> QED
    BY <1>1, <2>2, <2>3 DEF DetectorNext, set_failed, detectorVars
<1>2. DetectorTypeOK /\ [DetectorNext]_detectorVars
        => [interpret = "DOWN" /\ interpret' = "UP" => heartbeat]_detectorVars
  BY <1>1
<1> QED
  BY <1>2, DetectorTypes, PTL DEF DetectorSpec, OnlyHeartbeatRevives

-----------------------------------------------------------------------------
(***************************************************************************)
(* The vector clocks by themselves: operator< and max(), for any clocks of *)
(* the same three nodes.                                                   *)
(***************************************************************************)
\* operator< of node_clock compares clocks of one node the way pairs are compared.
LEMMA NodeClocksCompare ==
  ASSUME NEW a \in NodeClock(Nat, Nat, Nat), NEW b \in NodeClock(Nat, Nat, Nat),
         NEW c \in NodeClock(Nat, Nat, Nat), a.node_id = b.node_id
  PROVE  /\ ~NodeClockLess(a, a)
         /\ ~(NodeClockLess(a, b) /\ NodeClockLess(b, a))
         /\ NodeClockLess(a, b) /\ NodeClockLess(b, c) => NodeClockLess(a, c)
         /\ NodeClockLess(a, b) \/ NodeClockLess(b, a) \/ a = b
<1>1. /\ a.generation \in Nat /\ a.clock \in Nat /\ b.generation \in Nat /\ b.clock \in Nat
      /\ c.generation \in Nat /\ c.clock \in Nat
  BY DEF NodeClock
<1>2. ~NodeClockLess(a, a) /\ ~(NodeClockLess(a, b) /\ NodeClockLess(b, a))
  BY <1>1 DEF NodeClockLess
<1>3. NodeClockLess(a, b) /\ NodeClockLess(b, c) => NodeClockLess(a, c)
  BY <1>1 DEF NodeClockLess
<1>4. NodeClockLess(a, b) \/ NodeClockLess(b, a) \/ (a.generation = b.generation /\ a.clock = b.clock)
  BY <1>1 DEF NodeClockLess
<1>5. a.generation = b.generation /\ a.clock = b.clock => a = b
  BY DEF NodeClock
<1> QED
  BY <1>2, <1>3, <1>4, <1>5

\* std::max of two clocks of one node is one of them, and less than neither.
LEMMA NodeClockMaxIs ==
  ASSUME NEW a \in NodeClock(Nat, Nat, Nat), NEW b \in NodeClock(Nat, Nat, Nat),
         a.node_id = b.node_id
  PROVE  /\ NodeClockMax(a, b) \in {a, b}
         /\ ~NodeClockLess(NodeClockMax(a, b), a) /\ ~NodeClockLess(NodeClockMax(a, b), b)
         /\ NodeClockMax(a, b) = NodeClockMax(b, a)
<1>1. ~NodeClockLess(a, a) /\ ~NodeClockLess(b, b)
  BY NodeClocksCompare
<1>2. ~(NodeClockLess(a, b) /\ NodeClockLess(b, a))
  BY NodeClocksCompare
<1>3. NodeClockLess(a, b) \/ NodeClockLess(b, a) \/ a = b
  BY NodeClocksCompare
<1> QED
  BY <1>1, <1>2, <1>3, Zenon DEF NodeClockMax

LEMMA ClockAt ==
  ASSUME NEW a \in VectorClocks, NEW i \in Positions
  PROVE  a[i] \in NodeClock(Nat, Nat, Nat)
BY DEF VectorClocks

(***************************************************************************)
(* The clock of a message does not depend on which of the two answers of   *)
(* its quorum reached the coordinator first, and a repeated answer changes *)
(* nothing: max() of vector_clock is commutative and idempotent on the     *)
(* clocks for which it does not throw.                                     *)
(***************************************************************************)
THEOREM AnswersCombineInAnyOrder ==
  ASSUME NEW a \in VectorClocks, NEW b \in VectorClocks, SameQuorum(a, b)
  PROVE  VCMax(a, b) = VCMax(b, a) /\ VCMax(a, a) = a /\ VCMax(VCMax(a, b), b) = VCMax(a, b)
<1>1. ASSUME NEW i \in Positions
      PROVE  /\ NodeClockMax(a[i], b[i]) = NodeClockMax(b[i], a[i])
             /\ NodeClockMax(a[i], a[i]) = a[i]
             /\ ~NodeClockLess(NodeClockMax(a[i], b[i]), b[i])
  <2>1. a[i] \in NodeClock(Nat, Nat, Nat) /\ b[i] \in NodeClock(Nat, Nat, Nat)
    BY ClockAt
  <2>2. a[i].node_id = b[i].node_id
    BY DEF SameQuorum
  <2> QED
    BY <2>1, <2>2, NodeClockMaxIs, Zenon DEF NodeClockMax
<1>2. VCMax(a, b) = VCMax(b, a)
  BY <1>1 DEF VCMax
<1>3. VCMax(a, a) = a
  BY <1>1 DEF VCMax, VectorClocks
<1>4. VCMax(VCMax(a, b), b) = VCMax(a, b)
  <2>1. ASSUME NEW i \in Positions
        PROVE  NodeClockMax(NodeClockMax(a[i], b[i]), b[i]) = NodeClockMax(a[i], b[i])
    <3> DEFINE c == NodeClockMax(a[i], b[i])
    <3>1. ~NodeClockLess(c, b[i])
      BY <1>1
    <3> QED
      BY <3>1, Zenon DEF NodeClockMax
  <2> QED
    BY <2>1 DEF VCMax
<1> QED
  BY <1>2, <1>3, <1>4

LEMMA PositionsFinite == IsFiniteSet(Positions)
<1>1. 1 \in Int /\ RF \in Int
  BY RFAssumption
<1> QED
  BY <1>1, FS_Interval DEF Positions

(***************************************************************************)
(* The combined clock is behind neither of the answers it was made of, by  *)
(* vector_clock's operator<: the message is not queued before what its     *)
(* nodes had already ordered.                                              *)
(***************************************************************************)
THEOREM CombinedIsNotBehind ==
  ASSUME NEW a \in VectorClocks, NEW b \in VectorClocks, SameQuorum(a, b), DistinctIds(a)
  PROVE  ~VCLess(VCMax(a, b), a) /\ ~VCLess(VCMax(a, b), b)
<1> DEFINE c == VCMax(a, b)
<1>1. c \in VectorClocks
  BY VCMaxType
<1>2. ASSUME NEW i \in Positions
      PROVE  /\ c[i].node_id = a[i].node_id /\ c[i].node_id = b[i].node_id
             /\ ~NodeClockLess(c[i], a[i]) /\ ~NodeClockLess(c[i], b[i])
  <2>1. a[i] \in NodeClock(Nat, Nat, Nat) /\ b[i] \in NodeClock(Nat, Nat, Nat)
    BY ClockAt
  <2>2. a[i].node_id = b[i].node_id
    BY DEF SameQuorum
  <2>3. c[i] = NodeClockMax(a[i], b[i])
    BY DEF VCMax
  <2> HIDE DEF c
  <2> QED
    BY <2>1, <2>2, <2>3, NodeClockMaxIs
<1> HIDE DEF c
<1>3. ASSUME NEW t \in VectorClocks, SameQuorum(c, t), DistinctIds(t),
             \A i \in Positions : ~NodeClockLess(c[i], t[i])
      PROVE  ~VCLess(c, t)
  <2>1. LeftLess(c, t) = {}
    BY <1>1, <1>3, SameNodesCompare
  <2>2. Cardinality(LeftLess(c, t)) = 0
    BY <2>1, FS_EmptySet
  <2>3. Cardinality(RightLess(c, t)) \in Nat
    <3>1. RightLess(c, t) \in SUBSET Positions
      BY DEF RightLess
    <3> QED
      BY <3>1, PositionsFinite, FS_Subset, FS_CardinalityType
  <2> QED
    BY <2>2, <2>3 DEF VCLess
<1>4. SameQuorum(c, a) /\ SameQuorum(c, b) /\ DistinctIds(b)
  BY <1>2 DEF SameQuorum, DistinctIds
<1>5. ~VCLess(c, a) /\ ~VCLess(c, b)
  BY <1>2, <1>3, <1>4
<1> QED
  BY <1>5 DEF c

(***************************************************************************)
(* operator< of vector_clock orders no clock before itself and no two      *)
(* clocks of the same nodes both ways.  This half of what std::multimap    *)
(* asks of its comparison holds; that operator< is transitive does not     *)
(* (StampsSortable).                                                       *)
(***************************************************************************)
THEOREM ClocksCompareOneWay ==
  ASSUME NEW a \in VectorClocks, NEW b \in VectorClocks, SameQuorum(a, b), DistinctIds(a)
  PROVE  ~VCLess(a, a) /\ ~(VCLess(a, b) /\ VCLess(b, a))
<1>1. SameQuorum(b, a) /\ SameQuorum(a, a) /\ DistinctIds(b)
  BY DEF SameQuorum, DistinctIds
<1>2. LeftLess(a, b) = RightLess(b, a) /\ RightLess(a, b) = LeftLess(b, a)
  BY Zenon, <1>1, SameNodesCompare
<1>3. LeftLess(a, a) = RightLess(a, a)
  BY <1>1, SameNodesCompare
<1>4. Cardinality(LeftLess(a, b)) \in Nat /\ Cardinality(RightLess(a, b)) \in Nat
      /\ Cardinality(LeftLess(a, a)) \in Nat
  <2>1. ASSUME NEW S \in SUBSET Positions PROVE Cardinality(S) \in Nat
    BY PositionsFinite, FS_Subset, FS_CardinalityType
  <2> QED
    BY <2>1 DEF LeftLess, RightLess
<1> QED
  BY <1>2, <1>3, <1>4 DEF VCLess
=============================================================================
