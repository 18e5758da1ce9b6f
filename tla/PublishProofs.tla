--------------------------- MODULE PublishProofs ----------------------------
(***************************************************************************)
(* How a node takes a publish: the queues it keeps and the quorum it asks. *)
(*                                                                         *)
(* Proofs about QueueManager, for any threads, queues and messages.        *)
(*                                                                         *)
(* LockInv is why a queue is created once: a thread that found no queue    *)
(* still holds _list_lock, and its queue is still missing.  PlaceInv and   *)
(* CallInv say where a message is from what has been called: it is in its  *)
(* own queue, in one place, from the return of its enqueue_message until   *)
(* it expires.                                                             *)
(*                                                                         *)
(* Proofs about QuorumPublish, for any set of messages, remote nodes,      *)
(* answers and quorum arrays.                                              *)
(*                                                                         *)
(* The argument: after run() two nodes or fewer can still answer, and      *)
(* can_continue is false for good, so each further failure is reported and *)
(* no further node is asked.  Each answer uses up one of the two: two      *)
(* clocks to combine, and so a stamp, need both, and leave none that could *)
(* fail (FewLeft, StampIsLast).                                            *)
(***************************************************************************)
EXTENDS QuorumPublish, QueueManager, TLAPS

(***************************************************************************)
(* The queue manager.                                                      *)
(***************************************************************************)
Busy(t) == call[t] # NoCall

LockInv ==
  \A t \in Threads : call[t].at = "creating" => lock = t /\ call[t].queue \notin queues

HeapInv == \A q \in QueueIds : heap[q] = IF q \in queues THEN 1 ELSE 0

CallInv ==
  \A t \in Threads : Busy(t) =>
    /\ call[t].o \in begun
    /\ \A s \in Threads : Busy(s) /\ s # t => call[s].o # call[t].o
    /\ call[t].o.op # "expire" => call[t].queue = home[call[t].o.msg]
    /\ call[t].o.op = "enqueue" => call[t].o.msg \notin enqueued

PlaceInv ==
  /\ \A m \in enqueued : [op |-> "enqueue", msg |-> m] \in begun
  /\ \A q \in QueueIds :
       /\ unstamped[q] \cap queued[q] = {}
       /\ \A m \in unstamped[q] \cup queued[q] : home[m] = q /\ m \in enqueued \ dropped
  /\ \A m \in enqueued \ dropped : m \in unstamped[home[m]] \cup queued[home[m]]
  /\ dropped \subseteq enqueued /\ late \subseteq enqueued

ManagerInv == ManagerTypeOK /\ LockInv /\ HeapInv /\ CallInv /\ PlaceInv /\ LateStampQueues
-----------------------------------------------------------------------------
LEMMA CallFields ==
  ASSUME ManagerTypeOK, NEW t \in Threads
  PROVE  /\ call[t] \in Calls
         /\ Busy(t) <=> call[t].at # "idle"
         /\ Busy(t) => /\ call[t] \in [at : {"called", "creating", "using"}, o : Ops, queue : QueueIds]
                       /\ call[t].o \in Ops /\ call[t].queue \in QueueIds
                       /\ call[t].o.op \in {"enqueue", "stamp"} => call[t].o.msg \in Messages
<1>1. call[t] \in Calls
  BY Zenon DEF ManagerTypeOK
<1>2. Busy(t) => call[t] \in [at : {"called", "creating", "using"}, o : Ops, queue : QueueIds]
  BY Zenon, <1>1 DEF Calls, Busy
<1>3. \A o \in Ops : o.op \in {"enqueue", "stamp"} => o.msg \in Messages
  BY Zenon DEF Ops
<1>4. Busy(t) <=> call[t].at # "idle"
  BY <1>1 DEF Calls, NoCall, Busy
<1> QED
  BY Zenon, <1>1, <1>2, <1>3, <1>4

LEMMA CallKeepsInv ==
  ASSUME ManagerInv, NEW t \in Threads, NEW o \in Ops, NEW q \in QueueIds, Call(t, o, q)
  PROVE  ManagerInv'
<1>type. ManagerTypeOK
  BY Zenon DEF ManagerInv
<1>cal. CallInv
  BY Zenon DEF ManagerInv
<1>pla. PlaceInv
  BY Zenon DEF ManagerInv
<1> DEFINE d == [at |-> "called", o |-> o, queue |-> q]
<1>1. /\ call[t] = NoCall /\ o \notin begun /\ (o.op # "expire" => q = home[o.msg])
      /\ begun' = begun \cup {o} /\ call' = [call EXCEPT ![t] = d]
      /\ late' \subseteq late \cup enqueued /\ (late' \subseteq Messages)
      /\ UNCHANGED <<lock, queues, heap, unstamped, queued, home, enqueued, dropped, stamped>>
  BY Zenon, <1>type DEF Call, contents, ManagerTypeOK
<1>2. /\ d \in Calls /\ d.at = "called" /\ d.o = o /\ d.queue = q /\ d # NoCall
  BY Zenon DEF Calls, NoCall
<1> HIDE DEF d
<1>3. call' \in [Threads -> Calls] /\ \A s \in Threads : call'[s] = IF s = t THEN d ELSE call[s]
  BY Zenon, <1>type, <1>1, <1>2 DEF ManagerTypeOK
<1>4. lock # t
  BY <1>type, <1>1, QueueManagerAssumption DEF ManagerTypeOK, NoCall
<1>lock. lock' = "free" \/ (lock' \in Threads /\ call'[lock'].at = "creating")
  BY Zenon, <1>type, <1>1, <1>3, <1>4 DEF ManagerTypeOK
<1>5. ManagerTypeOK'
  BY Zenon, <1>type, <1>1, <1>3, <1>lock DEF ManagerTypeOK
<1>6. LockInv' /\ HeapInv'
  BY Zenon, <1>1, <1>2, <1>3 DEF ManagerInv, LockInv, HeapInv
<1>7. o.op = "enqueue" => o.msg \notin enqueued
  <2> SUFFICES ASSUME o.op = "enqueue" PROVE o.msg \notin enqueued
    BY Zenon
  <2>1. o = [op |-> "enqueue", msg |-> o.msg]
    BY Zenon DEF Ops
  <2> QED
    BY <2>1, <1>1, <1>pla DEF PlaceInv
<1>8. CallInv'
  BY <1>cal, <1>1, <1>2, <1>3, <1>7 DEF CallInv, Busy
<1>9. PlaceInv' /\ LateStampQueues'
  BY Zenon, <1>pla, <1>1 DEF ManagerInv, PlaceInv, LateStampQueues
<1> QED
  BY Zenon, <1>5, <1>6, <1>8, <1>9 DEF ManagerInv

LEMMA FindKeepsInv ==
  ASSUME ManagerInv, NEW t \in Threads, Find(t)
  PROVE  ManagerInv'
<1>type. ManagerTypeOK
  BY Zenon DEF ManagerInv
<1>cal. CallInv
  BY Zenon DEF ManagerInv
<1>1. PICK w \in {"creating", "using"} :
        /\ call[t].at = "called" /\ lock = "free" /\ call' = [call EXCEPT ![t].at = w]
        /\ w = "creating" <=> call[t].queue \notin queues
        /\ lock' = IF w = "using" THEN lock ELSE t
        /\ UNCHANGED <<queues, heap, unstamped, queued, home, begun, enqueued, dropped, late, stamped>>
  BY Zenon DEF Find, At, contents, history
<1> DEFINE d == [call[t] EXCEPT !.at = w]
<1>2. Busy(t)
  BY Zenon, <1>type, <1>1, CallFields
<1>3. d \in Calls /\ d.at = w /\ d.o = call[t].o /\ d.queue = call[t].queue /\ d # NoCall
  BY Zenon, <1>type, <1>2, CallFields DEF Calls, NoCall
<1>4. call' = [call EXCEPT ![t] = d]
  BY Zenon, <1>1
<1> HIDE DEF d
<1>5. call' \in [Threads -> Calls] /\ \A s \in Threads : call'[s] = IF s = t THEN d ELSE call[s]
  BY Zenon, <1>type, <1>3, <1>4 DEF ManagerTypeOK
<1>lock. lock' = "free" \/ (lock' \in Threads /\ call'[lock'].at = "creating")
  BY Zenon, <1>1, <1>3, <1>5
<1>6. ManagerTypeOK'
  BY Zenon, <1>type, <1>1, <1>5, <1>lock DEF ManagerTypeOK
<1>7. LockInv'
  <2>1. \A s \in Threads : call[s].at # "creating"
    BY Zenon, <1>1, QueueManagerAssumption DEF ManagerInv, LockInv
  <2> QED
    BY <2>1, <1>1, <1>3, <1>5 DEF LockInv
<1>heap. HeapInv'
  BY Zenon, <1>1 DEF ManagerInv, HeapInv
<1>8. CallInv'
  BY <1>cal, <1>1, <1>2, <1>3, <1>5 DEF CallInv, Busy
<1>9. PlaceInv' /\ LateStampQueues'
  BY Zenon, <1>1 DEF ManagerInv, PlaceInv, LateStampQueues
<1> QED
  BY Zenon, <1>6, <1>7, <1>heap, <1>8, <1>9 DEF ManagerInv

LEMMA CreateKeepsInv ==
  ASSUME ManagerInv, NEW t \in Threads, Create(t)
  PROVE  ManagerInv'
<1>type. ManagerTypeOK
  BY Zenon DEF ManagerInv
<1>cal. CallInv
  BY Zenon DEF ManagerInv
<1>1. /\ call[t].at = "creating" /\ call' = [call EXCEPT ![t].at = "using"]
      /\ queues' = queues \cup {call[t].queue}
      /\ heap' = [heap EXCEPT ![call[t].queue] = @ + 1]
      /\ lock' = "free"
      /\ UNCHANGED <<unstamped, queued, home, begun, enqueued, dropped, late, stamped>>
  BY Zenon DEF Create, At, contents, history
<1> DEFINE d == [call[t] EXCEPT !.at = "using"]
<1>2. Busy(t)
  BY Zenon, <1>type, <1>1, CallFields
<1>3. /\ d \in Calls /\ d.at = "using" /\ d.o = call[t].o /\ d.queue = call[t].queue /\ d # NoCall
  BY Zenon, <1>type, <1>2, CallFields DEF Calls, NoCall
<1>4. call' = [call EXCEPT ![t] = d] /\ call[t].queue \in QueueIds
  BY Zenon, <1>type, <1>1, <1>2, CallFields
<1> HIDE DEF d
<1>5. call' \in [Threads -> Calls] /\ \A s \in Threads : call'[s] = IF s = t THEN d ELSE call[s]
  BY Zenon, <1>type, <1>3, <1>4 DEF ManagerTypeOK
<1>6. /\ heap' \in [QueueIds -> Nat]
      /\ \A q \in QueueIds : heap'[q] = IF q = call[t].queue THEN heap[q] + 1 ELSE heap[q]
  BY <1>type, <1>1, <1>4 DEF ManagerTypeOK
<1>7. ManagerTypeOK'
  BY Zenon, <1>type, <1>1, <1>4, <1>5, <1>6 DEF ManagerTypeOK
<1>8. lock = t /\ call[t].queue \notin queues
  BY Zenon, <1>1 DEF ManagerInv, LockInv
<1>9. LockInv'
  <2>1. \A s \in Threads : s # t => call[s].at # "creating"
    BY Zenon, <1>8 DEF ManagerInv, LockInv
  <2> QED
    BY Zenon, <2>1, <1>3, <1>5 DEF LockInv
<1>10. HeapInv'
  BY <1>1, <1>4, <1>6, <1>8 DEF ManagerInv, HeapInv
<1>11. CallInv'
  BY <1>cal, <1>1, <1>2, <1>3, <1>5 DEF CallInv, Busy
<1>12. PlaceInv' /\ LateStampQueues'
  BY Zenon, <1>1 DEF ManagerInv, PlaceInv, LateStampQueues
<1> QED
  BY Zenon, <1>7, <1>9, <1>10, <1>11, <1>12 DEF ManagerInv
\* What the return of a call leaves alone.
LEMMA ReturnKeeps ==
  ASSUME ManagerInv, NEW t \in Threads, NEW o, Returns(t, o)
  PROVE  /\ Busy(t) /\ call[t].o.op = o /\ call[t].o \in Ops /\ call[t].queue \in QueueIds
         /\ \A s \in Threads : call'[s] = IF s = t THEN NoCall ELSE call[s]
         /\ UNCHANGED <<lock, queues, heap, home, begun, late>>
         /\ call' \in [Threads -> Calls] /\ lock # t
         /\ lock' = "free" \/ (lock' \in Threads /\ call'[lock'].at = "creating")
         /\ LockInv' /\ HeapInv'
<1>type. ManagerTypeOK
  BY Zenon DEF ManagerInv
<1>1. /\ call[t].at = "using" /\ call[t].o.op = o /\ call' = [call EXCEPT ![t] = NoCall]
      /\ UNCHANGED <<lock, queues, heap, home, begun, late>>
  BY Zenon DEF Returns
<1>2. Busy(t)
  BY Zenon, <1>type, <1>1, CallFields
<1>3. call' \in [Threads -> Calls] /\ \A s \in Threads : call'[s] = IF s = t THEN NoCall ELSE call[s]
  BY Zenon, <1>type, <1>1 DEF ManagerTypeOK, Calls
<1>4. lock # t
  BY Zenon, <1>type, <1>1, QueueManagerAssumption DEF ManagerTypeOK
<1>5. lock' = "free" \/ (lock' \in Threads /\ call'[lock'].at = "creating")
  BY Zenon, <1>type, <1>1, <1>3, <1>4 DEF ManagerTypeOK
<1>6. LockInv' /\ HeapInv'
  BY Zenon, <1>1, <1>3 DEF ManagerInv, LockInv, HeapInv, NoCall
<1> QED
  BY Zenon, <1>type, <1>1, <1>2, <1>3, <1>4, <1>5, <1>6, CallFields

LEMMA EnqueueKeepsInv ==
  ASSUME ManagerInv, NEW t \in Threads, enqueue_message(t)
  PROVE  ManagerInv'
<1>type. ManagerTypeOK
  BY Zenon DEF ManagerInv
<1>cal. CallInv
  BY Zenon DEF ManagerInv
<1>pla. PlaceInv
  BY Zenon DEF ManagerInv
<1> DEFINE m == call[t].o.msg
           q == call[t].queue
<1>1. /\ Returns(t, "enqueue")
      /\ unstamped' = [unstamped EXCEPT ![q] = @ \cup {m}]
      /\ enqueued' = enqueued \cup {m}
      /\ queued' = queued /\ dropped' = dropped /\ stamped' = stamped
  BY Zenon DEF enqueue_message
<1>2. /\ Busy(t) /\ call[t].o.op = "enqueue" /\ call[t].o \in Ops /\ q \in QueueIds
      /\ \A s \in Threads : call'[s] = IF s = t THEN NoCall ELSE call[s]
      /\ UNCHANGED <<lock, queues, heap, home, begun, late>>
      /\ call' \in [Threads -> Calls]
      /\ lock' = "free" \/ (lock' \in Threads /\ call'[lock'].at = "creating")
      /\ LockInv' /\ HeapInv'
  BY Zenon, <1>1, ReturnKeeps
<1>3. /\ m \in Messages /\ m \notin enqueued /\ home[m] = q /\ call[t].o \in begun
      /\ call[t].o = [op |-> "enqueue", msg |-> m]
  BY Zenon, <1>cal, <1>2 DEF CallInv, Ops
<1>4. \A s \in Threads : Busy(s) /\ s # t => call[s].o # call[t].o
  BY Zenon, <1>cal, <1>2 DEF CallInv
<1>5. \A s \in Threads : Busy(s) /\ s # t /\ call[s].o.op = "enqueue" => call[s].o.msg # m
  <2>1. ASSUME NEW s \in Threads, Busy(s), s # t, call[s].o.op = "enqueue" PROVE call[s].o.msg # m
    <3>1. call[s].o \in Ops
      BY Zenon, <1>type, <2>1, CallFields
    <3>2. call[s].o = [op |-> "enqueue", msg |-> call[s].o.msg]
      BY Zenon, <3>1, <2>1 DEF Ops
    <3> QED
      BY Zenon, <3>2, <2>1, <1>3, <1>4
  <2> QED
    BY Zenon, <2>1
<1> HIDE DEF m, q
<1>6. /\ unstamped' \in [QueueIds -> SUBSET Messages]
      /\ \A r \in QueueIds : unstamped'[r] = IF r = q THEN unstamped[r] \cup {m} ELSE unstamped[r]
  BY Zenon, <1>type, <1>1, <1>2, <1>3 DEF ManagerTypeOK
<1>7. ManagerTypeOK'
  BY <1>type, <1>1, <1>2, <1>3, <1>6 DEF ManagerTypeOK
<1>8. CallInv'
  BY <1>cal, <1>1, <1>2, <1>5 DEF CallInv, Busy
<1>9. PlaceInv'
  <2>1. \A x \in enqueued' : [op |-> "enqueue", msg |-> x] \in begun'
    <3>1. [op |-> "enqueue", msg |-> m] \in begun
      BY Zenon, <1>3
    <3>2. \A x \in enqueued : [op |-> "enqueue", msg |-> x] \in begun
      BY Zenon, <1>pla DEF PlaceInv
    <3>3. ASSUME NEW x \in enqueued', x # m PROVE x \in enqueued
      BY Zenon, <3>3, <1>1
    <3>4. begun' = begun
      BY Zenon, <1>2
    <3> QED
      BY Zenon, <3>1, <3>2, <3>3, <3>4
  <2>2. ASSUME NEW r \in QueueIds
        PROVE  /\ unstamped'[r] \cap queued'[r] = {}
               /\ \A x \in unstamped'[r] \cup queued'[r] : home'[x] = r /\ x \in enqueued' \ dropped'
    BY <1>pla, <1>1, <1>2, <1>3, <1>6 DEF PlaceInv
  <2>3. \A x \in enqueued' \ dropped' : x \in unstamped'[home'[x]] \cup queued'[home'[x]]
    <3>1. \A x \in enqueued : home[x] \in QueueIds
      BY Zenon, <1>type DEF ManagerTypeOK
    <3> QED
      BY <1>pla, <1>1, <1>2, <1>3, <1>6, <3>1 DEF PlaceInv
  <2> QED
    BY Zenon, <1>pla, <1>1, <1>2, <2>1, <2>2, <2>3 DEF PlaceInv
<1>10. LateStampQueues'
  BY Zenon, <1>1, <1>2 DEF ManagerInv, LateStampQueues
<1> QED
  BY Zenon, <1>2, <1>7, <1>8, <1>9, <1>10 DEF ManagerInv

LEMMA StampKeepsInv ==
  ASSUME ManagerInv, NEW t \in Threads, stamp_message(t)
  PROVE  ManagerInv'
<1>type. ManagerTypeOK
  BY Zenon DEF ManagerInv
<1>cal. CallInv
  BY Zenon DEF ManagerInv
<1>pla. PlaceInv
  BY Zenon DEF ManagerInv
<1> DEFINE m == call[t].o.msg
           q == call[t].queue
           found == {m} \cap unstamped[q]
<1>1. /\ Returns(t, "stamp")
      /\ unstamped' = [unstamped EXCEPT ![q] = @ \ found]
      /\ queued' = [queued EXCEPT ![q] = @ \cup found]
      /\ stamped' = stamped \cup ({m} \cap late)
      /\ enqueued' = enqueued /\ dropped' = dropped
  BY Zenon DEF stamp_message
<1>2. /\ Busy(t) /\ call[t].o.op = "stamp" /\ call[t].o \in Ops /\ q \in QueueIds
      /\ \A s \in Threads : call'[s] = IF s = t THEN NoCall ELSE call[s]
      /\ UNCHANGED <<lock, queues, heap, home, begun, late>>
      /\ call' \in [Threads -> Calls]
      /\ lock' = "free" \/ (lock' \in Threads /\ call'[lock'].at = "creating")
      /\ LockInv' /\ HeapInv'
  BY Zenon, <1>1, ReturnKeeps
<1>3. m \in Messages /\ home[m] = q
  BY Zenon, <1>cal, <1>2 DEF CallInv, Ops
<1> HIDE DEF m, q
<1>4. /\ unstamped' \in [QueueIds -> SUBSET Messages] /\ queued' \in [QueueIds -> SUBSET Messages]
      /\ \A r \in QueueIds : /\ unstamped'[r] = IF r = q THEN unstamped[r] \ found ELSE unstamped[r]
                             /\ queued'[r] = IF r = q THEN queued[r] \cup found ELSE queued[r]
  BY Zenon, <1>type, <1>1, <1>2, <1>3 DEF ManagerTypeOK
<1>5. ManagerTypeOK'
  BY Zenon, <1>type, <1>1, <1>2, <1>3, <1>4 DEF ManagerTypeOK
<1>6. CallInv'
  BY <1>cal, <1>1, <1>2 DEF CallInv, Busy
<1>7. \A r \in QueueIds : /\ unstamped'[r] \cup queued'[r] = unstamped[r] \cup queued[r]
                          /\ unstamped'[r] \cap queued'[r] = {}
                          /\ queued[r] \subseteq queued'[r]
  <2>1. \A r \in QueueIds : unstamped[r] \cap queued[r] = {}
    BY Zenon, <1>pla DEF PlaceInv
  <2>2. found \subseteq unstamped[q]
    BY Zenon
  <2> HIDE DEF found
  <2>3. \A r \in QueueIds \ {q} : unstamped'[r] = unstamped[r] /\ queued'[r] = queued[r]
    BY Zenon, <1>4
  <2>4. unstamped'[q] = unstamped[q] \ found /\ queued'[q] = queued[q] \cup found
    BY Zenon, <1>2, <1>4
  <2>5. /\ unstamped'[q] \cup queued'[q] = unstamped[q] \cup queued[q]
        /\ unstamped'[q] \cap queued'[q] = {}
        /\ queued[q] \subseteq queued'[q]
    BY Zenon, <1>2, <2>1, <2>2, <2>4
  <2> QED
    BY Zenon, <2>1, <2>3, <2>5
<1>8. \A x \in Messages : home[x] \in QueueIds
  BY Zenon, <1>type DEF ManagerTypeOK
<1>9. PlaceInv'
  BY <1>pla, <1>type, <1>1, <1>2, <1>7, <1>8 DEF PlaceInv, ManagerTypeOK
<1>10. LateStampQueues'
  <2>1. m \in late \ dropped => m \in queued'[q]
    <3>1. m \in late \ dropped => m \in unstamped[q] \cup queued[q]
      BY Zenon, <1>pla, <1>3 DEF PlaceInv
    <3> QED
      BY Zenon, <3>1, <1>2, <1>4
  <2>2. \A x \in stamped \ dropped : x \in queued'[home[x]]
    BY Zenon, <1>type, <1>7, <1>8 DEF ManagerInv, LateStampQueues, ManagerTypeOK
  <2> QED
    BY <2>1, <2>2, <1>1, <1>2, <1>3 DEF LateStampQueues
<1> QED
  BY Zenon, <1>2, <1>5, <1>6, <1>9, <1>10 DEF ManagerInv

LEMMA ExpireKeepsInv ==
  ASSUME ManagerInv, NEW t \in Threads, expire_messages(t)
  PROVE  ManagerInv'
<1>type. ManagerTypeOK
  BY Zenon DEF ManagerInv
<1>cal. CallInv
  BY Zenon DEF ManagerInv
<1>pla. PlaceInv
  BY Zenon DEF ManagerInv
<1> DEFINE q == call[t].queue
<1>1. PICK due \in SUBSET (unstamped[q] \cup queued[q]) :
        /\ Returns(t, "expire")
        /\ unstamped' = [unstamped EXCEPT ![q] = @ \ due]
        /\ queued' = [queued EXCEPT ![q] = @ \ due]
        /\ dropped' = dropped \cup due
        /\ enqueued' = enqueued /\ stamped' = stamped
  BY Zenon DEF expire_messages
<1>2. /\ Busy(t) /\ q \in QueueIds
      /\ \A s \in Threads : call'[s] = IF s = t THEN NoCall ELSE call[s]
      /\ UNCHANGED <<lock, queues, heap, home, begun, late>>
      /\ call' \in [Threads -> Calls]
      /\ lock' = "free" \/ (lock' \in Threads /\ call'[lock'].at = "creating")
      /\ LockInv' /\ HeapInv'
  BY Zenon, <1>1, ReturnKeeps
<1> HIDE DEF q
<1>3. /\ unstamped' \in [QueueIds -> SUBSET Messages] /\ queued' \in [QueueIds -> SUBSET Messages]
      /\ \A r \in QueueIds : /\ unstamped'[r] = IF r = q THEN unstamped[r] \ due ELSE unstamped[r]
                             /\ queued'[r] = IF r = q THEN queued[r] \ due ELSE queued[r]
  BY Zenon, <1>type, <1>1, <1>2 DEF ManagerTypeOK
<1>4. due \subseteq enqueued /\ (\A x \in due : home[x] = q) /\ due \subseteq Messages
  BY Zenon, <1>pla, <1>type, <1>2 DEF PlaceInv, ManagerTypeOK
<1>5. ManagerTypeOK'
  BY Zenon, <1>type, <1>1, <1>2, <1>3, <1>4 DEF ManagerTypeOK
<1>6. CallInv'
  BY <1>cal, <1>1, <1>2 DEF CallInv, Busy
<1>7. \A r \in QueueIds : /\ unstamped'[r] = unstamped[r] \ due
                          /\ queued'[r] = queued[r] \ due
  BY <1>pla, <1>3, <1>4 DEF PlaceInv
<1>8. \A x \in Messages : home[x] \in QueueIds
  BY Zenon, <1>type DEF ManagerTypeOK
<1>9. PlaceInv'
  BY <1>pla, <1>type, <1>1, <1>2, <1>4, <1>7, <1>8 DEF PlaceInv, ManagerTypeOK
<1>10. LateStampQueues'
  BY <1>type, <1>1, <1>2, <1>7, <1>8 DEF ManagerInv, LateStampQueues, ManagerTypeOK
<1> QED
  BY Zenon, <1>2, <1>5, <1>6, <1>9, <1>10 DEF ManagerInv
-----------------------------------------------------------------------------
LEMMA ManagerStarts == ManagerInit => ManagerInv
<1> SUFFICES ASSUME ManagerInit PROVE ManagerInv
  BY Zenon
<1>1. ManagerTypeOK
  BY Zenon DEF ManagerInit, ManagerTypeOK, Calls
<1>2. \A t \in Threads : call[t] = NoCall /\ call[t].at = "idle"
  BY Zenon DEF ManagerInit, NoCall
<1>3. LockInv /\ CallInv
  BY Zenon, <1>2 DEF LockInv, CallInv, Busy
<1>4. HeapInv /\ PlaceInv /\ LateStampQueues
  BY Zenon DEF ManagerInit, HeapInv, PlaceInv, LateStampQueues
<1> QED
  BY Zenon, <1>1, <1>3, <1>4 DEF ManagerInv

LEMMA ManagerInductive == ManagerInv /\ [ManagerNext]_managerVars => ManagerInv'
<1> SUFFICES ASSUME ManagerInv, [ManagerNext]_managerVars PROVE ManagerInv'
  BY Zenon
<1>1. CASE UNCHANGED managerVars
  BY ZenonT(30), <1>1 DEF managerVars, contents, history, ManagerInv, ManagerTypeOK, LockInv,
    HeapInv, CallInv, Busy, PlaceInv, LateStampQueues
<1>2. ASSUME NEW t \in Threads, Step(t) PROVE ManagerInv'
  BY Zenon, <1>2, FindKeepsInv, CreateKeepsInv, EnqueueKeepsInv, StampKeepsInv, ExpireKeepsInv DEF Step
<1>3. ASSUME NEW t \in Threads, NEW o \in Ops, NEW q \in QueueIds, Call(t, o, q) PROVE ManagerInv'
  BY Zenon, <1>3, CallKeepsInv
<1> QED
  BY Zenon, <1>1, <1>2, <1>3 DEF ManagerNext

LEMMA ManagerKeepsInv == ManagerSpec => []ManagerInv
BY ManagerStarts, ManagerInductive, PTL DEF ManagerSpec

(***************************************************************************)
(* A stamp_message called after its message's enqueue_message returned     *)
(* finds the message, for any number of threads, queues and messages.      *)
(***************************************************************************)
THEOREM LateStampFinds == ManagerSpec => []LateStampQueues
BY ManagerKeepsInv, PTL DEF ManagerInv
-----------------------------------------------------------------------------
\* The step of the contract that each step of the manager is.
LEMMA EnqueueAccepts ==
  ASSUME ManagerInv, NEW t \in Threads, enqueue_message(t)
  PROVE  \E x \in QueueIds \X Messages : Contract!Accept(x)
<1> DEFINE m == call[t].o.msg
           q == call[t].queue
           x == <<q, m>>
<1>1. /\ Returns(t, "enqueue")
      /\ unstamped' = [unstamped EXCEPT ![q] = @ \cup {m}]
      /\ queued' = queued /\ dropped' = dropped
  BY Zenon DEF enqueue_message
<1>2. /\ Busy(t) /\ call[t].o.op = "enqueue" /\ call[t].o \in Ops /\ q \in QueueIds
      /\ home' = home
  BY Zenon, <1>1, ReturnKeeps
<1>3. m \in Messages /\ m \notin enqueued /\ home[m] = q
  BY Zenon, <1>2 DEF ManagerInv, CallInv, Ops
<1> HIDE DEF m, q
<1>4. x \in QueueIds \X Messages /\ x[1] = q /\ x[2] = m
  BY Zenon, <1>2, <1>3
<1>5. \A r \in QueueIds : unstamped'[r] = IF r = q THEN unstamped[r] \cup {m} ELSE unstamped[r]
  BY Zenon, <1>1, <1>2 DEF ManagerInv, ManagerTypeOK
<1>6. m \notin unstamped[q] \cup queued[q] /\ m \notin dropped
  BY Zenon, <1>2, <1>3 DEF ManagerInv, PlaceInv
<1>7. \A y \in QueueIds \X Messages : (y = x <=> y[1] = q /\ y[2] = m) /\ y[1] \in QueueIds
  BY <1>4
<1> HIDE DEF x
<1>8. In(unstamped)' = In(unstamped) \cup {x}
  <2>1. ASSUME NEW y \in QueueIds \X Messages
        PROVE  y[2] \in unstamped'[y[1]] <=> y[2] \in unstamped[y[1]] \/ y = x
    <3>1. CASE y[1] = q
      <4>1. unstamped'[q] = unstamped[q] \cup {m}
        BY Zenon, <1>2, <1>5
      <4>2. y = x <=> y[2] = m
        BY Zenon, <3>1, <1>7
      <4> QED
        BY Zenon, <3>1, <4>1, <4>2
    <3>2. CASE y[1] # q
      BY Zenon, <3>2, <1>5, <1>7
    <3> QED
      BY Zenon, <3>1, <3>2
  <2> QED
    BY Zenon, <2>1, <1>4 DEF In
<1>9. In(queued)' = In(queued)
  BY Zenon, <1>1 DEF In
<1>10. Contract!New(x)
  BY Zenon, <1>4, <1>6 DEF Contract!New, In
<1>11. UNCHANGED {y \in QueueIds \X Messages : y[2] \in dropped /\ home[y[2]] = y[1]}
  BY Zenon, <1>1, <1>2
<1>12. Contract!Accept(x)
  BY Zenon, <1>8, <1>9, <1>10, <1>11 DEF Contract!Accept
<1> QED
  BY Zenon, <1>4, <1>12

LEMMA StampOrders ==
  ASSUME ManagerInv, NEW t \in Threads, stamp_message(t)
  PROVE  (\E x \in QueueIds \X Messages : Contract!Order(x)) \/ UNCHANGED Contract!vars
<1> DEFINE m == call[t].o.msg
           q == call[t].queue
           x == <<q, m>>
           found == {m} \cap unstamped[q]
<1>1. /\ Returns(t, "stamp")
      /\ unstamped' = [unstamped EXCEPT ![q] = @ \ found]
      /\ queued' = [queued EXCEPT ![q] = @ \cup found]
      /\ dropped' = dropped
  BY Zenon DEF stamp_message
<1>2. /\ Busy(t) /\ call[t].o.op = "stamp" /\ call[t].o \in Ops /\ q \in QueueIds /\ home' = home
  BY Zenon, <1>1, ReturnKeeps
<1>3. m \in Messages
  BY Zenon, <1>2 DEF Ops
<1> HIDE DEF m, q
<1>4. x \in QueueIds \X Messages /\ x[1] = q /\ x[2] = m
  BY Zenon, <1>2, <1>3
<1>5. \A r \in QueueIds : /\ unstamped'[r] = IF r = q THEN unstamped[r] \ found ELSE unstamped[r]
                          /\ queued'[r] = IF r = q THEN queued[r] \cup found ELSE queued[r]
  BY Zenon, <1>1, <1>2 DEF ManagerInv, ManagerTypeOK
<1>6. UNCHANGED {y \in QueueIds \X Messages : y[2] \in dropped /\ home[y[2]] = y[1]}
  BY Zenon, <1>1, <1>2
<1>7. \A y \in QueueIds \X Messages : (y = x <=> y[1] = q /\ y[2] = m) /\ y[1] \in QueueIds
  BY <1>4
<1> HIDE DEF x
<1>8. CASE m \in unstamped[q]
  <2>1. In(unstamped)' = In(unstamped) \ {x}
    <3>1. ASSUME NEW y \in QueueIds \X Messages
          PROVE  y[2] \in unstamped'[y[1]] <=> y[2] \in unstamped[y[1]] /\ y # x
      BY ZenonT(30), <1>8, <1>5, <1>7
    <3> QED
      BY Zenon, <3>1, <1>4 DEF In
  <2>2. In(queued)' = In(queued) \cup {x}
    <3>1. ASSUME NEW y \in QueueIds \X Messages
          PROVE  y[2] \in queued'[y[1]] <=> y[2] \in queued[y[1]] \/ y = x
      BY ZenonT(30), <1>8, <1>5, <1>7
    <3> QED
      BY Zenon, <3>1, <1>4 DEF In
  <2>3. x \in In(unstamped)
    BY Zenon, <1>8, <1>4 DEF In
  <2>4. Contract!Order(x)
    BY Zenon, <1>6, <2>1, <2>2, <2>3 DEF Contract!Order
  <2> QED
    BY Zenon, <1>4, <2>4
<1>9. CASE m \notin unstamped[q]
  <2>1. In(unstamped)' = In(unstamped) /\ In(queued)' = In(queued)
    <3>1. ASSUME NEW y \in QueueIds \X Messages
          PROVE  unstamped'[y[1]] = unstamped[y[1]] /\ queued'[y[1]] = queued[y[1]]
      BY SMTT(30), <1>9, <1>5, <1>7
    <3> QED
      BY Zenon, <3>1 DEF In
  <2> QED
    BY Zenon, <1>6, <2>1 DEF Contract!vars
<1> QED
  BY Zenon, <1>8, <1>9

LEMMA ExpireExpires ==
  ASSUME ManagerInv, NEW t \in Threads, expire_messages(t)
  PROVE  \E d \in SUBSET (In(unstamped) \cup In(queued)) : Contract!Expire(d)
<1> DEFINE q == call[t].queue
<1>1. PICK due \in SUBSET (unstamped[q] \cup queued[q]) :
        /\ Returns(t, "expire")
        /\ unstamped' = [unstamped EXCEPT ![q] = @ \ due]
        /\ queued' = [queued EXCEPT ![q] = @ \ due]
        /\ dropped' = dropped \cup due
  BY Zenon DEF expire_messages
<1>2. q \in QueueIds /\ home' = home
  BY Zenon, <1>1, ReturnKeeps
<1> HIDE DEF q
<1>3. \A r \in QueueIds : /\ unstamped'[r] = IF r = q THEN unstamped[r] \ due ELSE unstamped[r]
                          /\ queued'[r] = IF r = q THEN queued[r] \ due ELSE queued[r]
  BY Zenon, <1>1, <1>2 DEF ManagerInv, ManagerTypeOK
<1>4. due \subseteq Messages /\ \A y \in due : home[y] = q
  BY Zenon, <1>2 DEF ManagerInv, ManagerTypeOK, PlaceInv
<1> DEFINE d == {y \in QueueIds \X Messages : y[1] = q /\ y[2] \in due}
<1>5. \A y \in QueueIds \X Messages : y[1] \in QueueIds /\ y[2] \in Messages
  BY Zenon
<1>6. d \subseteq In(unstamped) \cup In(queued)
  BY Zenon, <1>5 DEF In
<1>7. In(unstamped)' = In(unstamped) \ d
  BY Zenon, <1>3, <1>5 DEF In
<1>8. In(queued)' = In(queued) \ d
  BY Zenon, <1>3, <1>5 DEF In
<1>9. {y \in QueueIds \X Messages : y[2] \in dropped /\ home[y[2]] = y[1]}'
        = {y \in QueueIds \X Messages : y[2] \in dropped /\ home[y[2]] = y[1]} \cup d
  BY Zenon, <1>1, <1>2, <1>4, <1>5
<1> HIDE DEF d
<1>10. d \in SUBSET (In(unstamped) \cup In(queued))
  BY Zenon, <1>6
<1> QED
  BY Zenon, <1>7, <1>8, <1>9, <1>10 DEF Contract!Expire

(***************************************************************************)
(* queue_manager implements QueueContract for any threads, queues and      *)
(* messages: a call works on the queue of its own id, and no two calls     *)
(* together lose, duplicate or bring back a message.                       *)
(***************************************************************************)
THEOREM ManagerKeepsContract == ManagerSpec => ImplementsContract
<1>1. ManagerInit => Contract!Init
  <2> SUFFICES ASSUME ManagerInit PROVE Contract!Init
    BY Zenon
  <2>1. In(unstamped) = {} /\ In(queued) = {}
    BY Zenon DEF ManagerInit, In
  <2>2. {y \in QueueIds \X Messages : y[2] \in dropped /\ home[y[2]] = y[1]} = {}
    BY Zenon DEF ManagerInit
  <2> QED
    BY Zenon, <2>1, <2>2 DEF Contract!Init
<1>2. ManagerInv /\ [ManagerNext]_managerVars => [Contract!Next]_(Contract!vars)
  <2> SUFFICES ASSUME ManagerInv, [ManagerNext]_managerVars PROVE [Contract!Next]_(Contract!vars)
    BY Zenon
  <2>1. UNCHANGED <<unstamped, queued, dropped, home>> => UNCHANGED Contract!vars
    BY Zenon DEF Contract!vars, In
  <2>2. CASE UNCHANGED managerVars
    BY Zenon, <2>1, <2>2 DEF managerVars, contents, history
  <2>3. ASSUME NEW t \in Threads, NEW o \in Ops, NEW q \in QueueIds, Call(t, o, q)
        PROVE  UNCHANGED Contract!vars
    BY Zenon, <2>1, <2>3 DEF Call, contents
  <2>4. ASSUME NEW t \in Threads, Find(t) \/ Create(t) PROVE UNCHANGED Contract!vars
    BY Zenon, <2>1, <2>4 DEF Find, Create, contents, history
  <2>5. ASSUME NEW t \in Threads, enqueue_message(t) PROVE Contract!Next
    BY Zenon, <2>5, EnqueueAccepts DEF Contract!Next
  <2>6. ASSUME NEW t \in Threads, stamp_message(t) PROVE [Contract!Next]_(Contract!vars)
    BY Zenon, <2>6, StampOrders DEF Contract!Next
  <2>7. ASSUME NEW t \in Threads, expire_messages(t) PROVE Contract!Next
    BY Zenon, <2>7, ExpireExpires DEF Contract!Next
  <2> QED
    BY Zenon, <2>2, <2>3, <2>4, <2>5, <2>6, <2>7 DEF ManagerNext, Step
<1> QED
  BY <1>1, <1>2, ManagerKeepsInv, PTL DEF ManagerSpec, ImplementsContract, Contract!Spec
-----------------------------------------------------------------------------
(***************************************************************************)
(* The quorum.                                                             *)
(***************************************************************************)
\* The nodes that can still answer, against what has been counted.
FewLeft(o) ==
  \/ o.pending = {}
  \/ /\ \E x \in Remote : o.pending \subseteq {x}
     /\ o.failures + Len(o.clocks) <= 1
  \/ /\ \E x, y \in Remote : o.pending \subseteq {x, y}
     /\ o.failures = 0 /\ o.clocks = <<>>

\* A quorum_logic object once run() has returned.
Ran(o) ==
  /\ o \in Logic /\ o.nodes \in Quorums
  /\ o.lastNode >= 2
  /\ Len(o.called) = o.lastNode
  /\ \A i \in 1 .. o.lastNode : o.called[i] = o.nodes[i]
  /\ \A i \in 1 .. Len(o.success) : o.success[i] \notin o.pending
  /\ FewLeft(o)

StampIsLast(m) ==
  stamps[m] # <<>> =>
    /\ Len(stamps[m]) = 1
    /\ op[m].pending = {} /\ op[m].failures = 0
    /\ \E i, j \in 1 .. Len(op[m].success) : op[m].success[i] # op[m].success[j]

MsgInv(m) ==
  \/ op[m] = Idle /\ stamps[m] = <<>> /\ asked[m] = <<>>
  \/ /\ op[m] # Idle /\ Ran(op[m])
     /\ asked[m] = op[m].called /\ answers[m] = op[m].failures
     /\ StampIsLast(m)

\* The inductive invariant.
QuorumInv == TypeOK /\ \A m \in Msgs : MsgInv(m)
-----------------------------------------------------------------------------
LEMMA IdleIsNoLogic == ASSUME NEW o \in Logic PROVE o # Idle
<1>1. o.nodes \in [1 .. RF -> Nodes]
  BY Zenon DEF Logic
<1>2. 1 \in DOMAIN o.nodes
  BY <1>1 DEF RF
<1>3. Idle.nodes = <<>>
  BY Zenon DEF Idle
<1> QED
  BY <1>2, <1>3

LEMMA CallNextEffect ==
  ASSUME NEW o \in Logic, o.lastNode < RF, NEW n, n = o.nodes[o.lastNode + 1]
  PROVE  /\ n \in Nodes
         /\ CallNext(o) \in Logic
         /\ CallNext(o).nodes = o.nodes /\ CallNext(o).lastNode = o.lastNode + 1
         /\ CallNext(o).success = o.success /\ CallNext(o).failed = o.failed
         /\ CallNext(o).clocks = o.clocks /\ CallNext(o).failures = o.failures
         /\ CallNext(o).called = Append(o.called, n)
         /\ CallNext(o).pending = IF n \in Remote THEN o.pending \cup {n} ELSE o.pending
<1> DEFINE p == IF n \in Remote THEN o.pending \cup {n} ELSE o.pending
           c == Append(o.called, n)
           l == o.lastNode + 1
<1>1. o.lastNode + 1 \in 1 .. RF /\ o.nodes \in [1 .. RF -> Nodes]
  BY DEF Logic, RF
<1>2. n \in Nodes
  BY Zenon, <1>1
<1>3. p \in SUBSET Remote /\ c \in Seq(Nodes) /\ l \in 0 .. RF
  BY <1>2 DEF Logic, RF
<1>4. CallNext(o) = [o EXCEPT !.lastNode = l, !.called = c, !.pending = p]
  BY Zenon DEF CallNext
<1> HIDE DEF p, c, l
<1>5. CallNext(o) \in Logic
  BY Zenon, <1>3, <1>4 DEF Logic
<1>6. /\ CallNext(o).nodes = o.nodes /\ CallNext(o).lastNode = l
      /\ CallNext(o).success = o.success /\ CallNext(o).failed = o.failed
      /\ CallNext(o).clocks = o.clocks /\ CallNext(o).failures = o.failures
      /\ CallNext(o).called = c /\ CallNext(o).pending = p
  BY Zenon, <1>4 DEF Logic
<1> QED
  BY Zenon, <1>2, <1>5, <1>6 DEF p, c, l

LEMMA NodeFailedEffect ==
  ASSUME NEW o \in Logic, NEW n \in Remote \cup {Self}
  PROVE  LET f == [o EXCEPT !.failed = Append(@, n)]
         IN  /\ f \in Logic
             /\ f.nodes = o.nodes /\ f.lastNode = o.lastNode
             /\ f.success = o.success /\ f.clocks = o.clocks
             /\ f.called = o.called /\ f.pending = o.pending
             /\ f.failures = o.failures /\ f.failed = Append(o.failed, n)
             /\ can_continue(f) => node_failed(o, n) = CallNext(f)
             /\ ~can_continue(f) =>
                  LET r == node_failed(o, n)
                  IN  /\ r \in Logic
                      /\ r.nodes = o.nodes /\ r.lastNode = o.lastNode
                      /\ r.success = o.success /\ r.clocks = o.clocks
                      /\ r.called = o.called /\ r.pending = o.pending
                      /\ r.failures = o.failures + 1
<1> DEFINE x == Append(o.failed, n)
           f == [o EXCEPT !.failed = x]
           r == node_failed(o, n)
<1>1. x \in Seq(Remote \cup {Self})
  BY DEF Logic
<1>2. f = [o EXCEPT !.failed = Append(@, n)]
  BY Zenon
<1>3. /\ f \in Logic
      /\ f.nodes = o.nodes /\ f.lastNode = o.lastNode
      /\ f.success = o.success /\ f.clocks = o.clocks
      /\ f.called = o.called /\ f.pending = o.pending
      /\ f.failures = o.failures /\ f.failed = x
  BY Zenon, <1>1 DEF Logic
<1>4. can_continue(f) => r = CallNext(f)
  BY Zenon, <1>2 DEF node_failed
<1>5. ~can_continue(f) => r = [f EXCEPT !.failures = @ + 1]
  BY Zenon, <1>2 DEF node_failed
<1> HIDE DEF f, r
<1>6. ASSUME ~can_continue(f)
      PROVE  /\ r \in Logic
             /\ r.nodes = f.nodes /\ r.lastNode = f.lastNode
             /\ r.success = f.success /\ r.clocks = f.clocks
             /\ r.called = f.called /\ r.pending = f.pending
             /\ r.failures = f.failures + 1
  <2>1. f.failures + 1 \in Nat
    BY <1>3 DEF Logic
  <2> QED
    BY Zenon, <2>1, <1>3, <1>5, <1>6 DEF Logic
<1> QED
  BY Zenon, <1>2, <1>3, <1>4, <1>6 DEF r

\* An object whose first "last" nodes have been called and none has succeeded.
Called(o, last, pend, fails) ==
  /\ o \in Logic /\ o.nodes \in Quorums
  /\ o.lastNode = last /\ Len(o.called) = last
  /\ \A i \in 1 .. last : o.called[i] = o.nodes[i]
  /\ o.success = <<>> /\ o.clocks = <<>>
  /\ o.pending = pend /\ o.failures = fails

AsRemote(n) == IF n \in Remote THEN {n} ELSE {}

LEMMA CallNextCalled ==
  ASSUME NEW o, NEW last \in 0 .. 2, NEW pend, NEW fails, Called(o, last, pend, fails)
  PROVE  /\ Called(CallNext(o), last + 1, pend \cup AsRemote(o.nodes[last + 1]), fails)
         /\ CallNext(o).failed = o.failed /\ CallNext(o).nodes = o.nodes
<1> DEFINE n == o.nodes[last + 1]
           r == CallNext(o)
<1>1. /\ o \in Logic /\ o.nodes \in Quorums
      /\ o.lastNode = last /\ Len(o.called) = last
      /\ \A i \in 1 .. last : o.called[i] = o.nodes[i]
      /\ o.success = <<>> /\ o.clocks = <<>> /\ o.pending = pend /\ o.failures = fails
  BY Zenon DEF Called
<1>2. o.lastNode < RF
  BY <1>1 DEF RF
<1>3. /\ n \in Nodes /\ r \in Logic
      /\ r.nodes = o.nodes /\ r.lastNode = last + 1
      /\ r.success = o.success /\ r.failed = o.failed
      /\ r.clocks = o.clocks /\ r.failures = o.failures
      /\ r.called = Append(o.called, n)
      /\ r.pending = IF n \in Remote THEN o.pending \cup {n} ELSE o.pending
  BY Zenon, <1>1, <1>2, CallNextEffect
<1>4. o.called \in Seq(Nodes)
  BY Zenon, <1>1 DEF Logic
<1>5. Len(r.called) = last + 1 /\ \A i \in 1 .. last + 1 : r.called[i] = r.nodes[i]
  BY <1>1, <1>3, <1>4
<1>6. r.pending = pend \cup AsRemote(n)
  BY Zenon, <1>1, <1>3 DEF AsRemote
<1> QED
  BY Zenon, <1>1, <1>3, <1>5, <1>6 DEF Called

\* What run() leaves behind, by the place of the local node in the array.
LEMMA RunEffect ==
  ASSUME NEW q \in Quorums
  PROVE  Ran(run(NewLogic(q)))
<1> DEFINE new == NewLogic(q)
           one == CallNext(new)
           first == CallNode(new)
<1>1. /\ q \in [1 .. 3 -> Nodes] /\ Self # Nobody /\ Self \notin Remote
      /\ \A i, j \in 1 .. 3 : i # j /\ q[i] = q[j] => q[i] = Nobody
  BY Zenon, QuorumPublishAssumption DEF RF, Nodes
<1>2. new \in Logic /\ new.nodes = q /\ new.failed = <<>> /\ Called(new, 0, {}, 0)
  BY <1>1 DEF NewLogic, Logic, RF, Called
<1>3. run(new) = CallNode(first)
  BY Zenon DEF run
<1>4. new.lastNode = 0
  BY Zenon, <1>2 DEF Called
<1>5. first = IF q[1] = Self THEN node_failed(one, Self) ELSE one
  BY <1>2, <1>4 DEF CallNode
<1> HIDE DEF new
<1>6. Called(one, 1, AsRemote(q[1]), 0) /\ one.failed = <<>> /\ one.nodes = q
  <2>1. /\ Called(one, 0 + 1, {} \cup AsRemote(new.nodes[0 + 1]), 0)
        /\ one.failed = new.failed /\ one.nodes = new.nodes
    <3>1. Called(new, 0, {}, 0) /\ 0 \in 0 .. 2
      BY <1>2
    <3> QED
      BY Zenon, <3>1, CallNextCalled
  <2>2. 0 + 1 = 1 /\ {} \cup AsRemote(q[1]) = AsRemote(q[1])
    OBVIOUS
  <2> QED
    BY Zenon, <2>1, <2>2, <1>2
<1> HIDE DEF one, first
<1>7. ASSUME NEW o \in Logic, NEW last \in 2 .. 3, NEW x \in Remote \cup {Self, Nobody},
             NEW y \in Remote \cup {Self, Nobody},
             NEW fails \in Nat, Called(o, last, AsRemote(x) \cup AsRemote(y), fails),
             fails = 0 \/ (fails = 1 /\ AsRemote(y) = {})
      PROVE  Ran(o)
  <2>1. FewLeft(o)
    BY <1>7 DEF Called, AsRemote, FewLeft
  <2>2. Len(o.success) = 0
    BY <1>7 DEF Called
  <2> QED
    BY <2>1, <2>2, <1>7 DEF Called, Ran
<1>8. CASE q[1] = Self
  <2> DEFINE f == [one EXCEPT !.failed = Append(@, Self)]
  <2>1. one \in Logic /\ one.lastNode = 1
    BY Zenon, <1>6 DEF Called
  <2>2. /\ f \in Logic /\ f.nodes = one.nodes /\ f.lastNode = one.lastNode
        /\ f.success = one.success /\ f.clocks = one.clocks
        /\ f.called = one.called /\ f.pending = one.pending
        /\ f.failures = one.failures /\ f.failed = Append(one.failed, Self)
        /\ can_continue(f) => node_failed(one, Self) = CallNext(f)
    BY Zenon, <2>1, NodeFailedEffect
  <2>3. can_continue(f)
    <3>1. Len(f.failed) = 1
      BY <2>2, <1>6
    <3> QED
      BY <2>1, <2>2, <3>1 DEF can_continue, RF
  <2>4. first = CallNext(f)
    BY Zenon, <2>2, <2>3, <1>5, <1>8
  <2> HIDE DEF f
  <2>5. AsRemote(q[1]) = {}
    BY Zenon, <1>1, <1>8 DEF AsRemote
  <2>6. Called(f, 1, {}, 0)
    BY <2>2, <2>5, <1>6 DEF Called
  <2>7. Called(first, 2, AsRemote(q[2]), 0) /\ first.nodes = q
    <3>1. Called(first, 1 + 1, {} \cup AsRemote(f.nodes[1 + 1]), 0) /\ first.nodes = f.nodes
      BY <2>4, <2>6, CallNextCalled
    <3>2. 1 + 1 = 2 /\ {} \cup AsRemote(q[2]) = AsRemote(q[2])
      OBVIOUS
    <3> QED
      BY Zenon, <3>1, <3>2, <2>2, <1>6
  <2>8. q[3] # Self
    BY <1>1, <1>8
  <2>9. run(new) = CallNext(first)
    BY <2>7, <2>8, <1>3 DEF CallNode, Called
  <2>10. Called(run(new), 3, AsRemote(q[2]) \cup AsRemote(q[3]), 0)
    BY <2>7, <2>9, CallNextCalled
  <2>11. run(new) \in Logic /\ q[2] \in Nodes /\ q[3] \in Nodes
    BY <2>10, <1>1 DEF Called
  <2> QED
    BY <2>10, <2>11, <1>7 DEF new, Nodes
<1>9. CASE q[1] # Self
  <2> DEFINE two == CallNext(one)
  <2>1. run(new) = CallNode(one)
    BY Zenon, <1>3, <1>5, <1>9
  <2>2. one.lastNode = 1
    BY Zenon, <1>6 DEF Called
  <2>3. run(new) = IF q[2] = Self THEN node_failed(two, Self) ELSE two
    BY <2>1, <2>2, <1>6 DEF CallNode
  <2>4. Called(two, 2, AsRemote(q[1]) \cup AsRemote(q[2]), 0)
    BY <1>6, CallNextCalled
  <2>5. two \in Logic /\ q[1] \in Nodes /\ q[2] \in Nodes
    BY <2>4, <1>1 DEF Called
  <2> HIDE DEF two
  <2>6. CASE q[2] # Self
    BY <2>3, <2>4, <2>5, <2>6, <1>7 DEF new, Nodes
  <2>7. CASE q[2] = Self
    <3> DEFINE f == [two EXCEPT !.failed = Append(@, Self)]
               r == node_failed(two, Self)
    <3>1. /\ f \in Logic /\ f.lastNode = two.lastNode
          /\ ~can_continue(f) =>
               /\ r \in Logic /\ r.nodes = two.nodes /\ r.lastNode = two.lastNode
               /\ r.success = two.success /\ r.clocks = two.clocks
               /\ r.called = two.called /\ r.pending = two.pending
               /\ r.failures = two.failures + 1
      BY ZenonT(30), <2>5, NodeFailedEffect
    <3>2. ~can_continue(f)
      BY <3>1, <2>4 DEF can_continue, RF, Called
    <3> HIDE DEF f, r
    <3>3. Called(r, 2, AsRemote(q[1]) \cup AsRemote(q[2]), 1)
      BY <3>1, <3>2, <2>4 DEF Called
    <3>4. AsRemote(q[2]) = {} /\ r \in Logic
      BY <3>1, <3>2, <2>7, <1>1 DEF AsRemote
    <3>5. Ran(r)
      BY <3>3, <3>4, <2>5, <1>7 DEF Nodes
    <3> QED
      BY Zenon, <3>5, <2>3, <2>7 DEF new, r
  <2> QED
    BY Zenon, <2>6, <2>7
<1> QED
  BY Zenon, <1>8, <1>9
-----------------------------------------------------------------------------
\* Storing an object with what its handler sent and stamped.
LEMMA StoreKeepsInv ==
  ASSUME QuorumInv, NEW m \in Msgs, NEW o, Ran(o), Update(m, o),
         NEW s \in Seq(Layouts), stamps' = [stamps EXCEPT ![m] = s],
         s # <<>> => /\ Len(s) = 1 /\ o.pending = {} /\ o.failures = 0
                     /\ \E i, j \in 1 .. Len(o.success) : o.success[i] # o.success[j],
         crashed' \in BOOLEAN
  PROVE  QuorumInv'
<1>1. TypeOK /\ \A k \in Msgs : MsgInv(k)
  BY Zenon DEF QuorumInv
<1>2. /\ op' = [op EXCEPT ![m] = o]
      /\ asked' = [asked EXCEPT ![m] = o.called]
      /\ answers' = [answers EXCEPT ![m] = o.failures]
  BY Zenon DEF Update
<1>3. o \in Logic /\ o # Idle /\ o.called \in Seq(Nodes) /\ o.failures \in Nat
  <2>1. o \in Logic
    BY Zenon DEF Ran
  <2> QED
    BY Zenon, <2>1, IdleIsNoLogic DEF Logic
<1>4. TypeOK'
  BY <1>1, <1>2, <1>3 DEF TypeOK
<1>5. /\ op'[m] = o /\ asked'[m] = o.called /\ answers'[m] = o.failures /\ stamps'[m] = s
      /\ \A k \in Msgs : k # m => /\ op'[k] = op[k] /\ asked'[k] = asked[k]
                                  /\ answers'[k] = answers[k] /\ stamps'[k] = stamps[k]
  BY Zenon, <1>1, <1>2 DEF TypeOK
<1>6. MsgInv(m)'
  BY <1>3, <1>5 DEF MsgInv, StampIsLast
<1>7. ASSUME NEW k \in Msgs, k # m PROVE MsgInv(k)'
  BY <1>1, <1>5, <1>7 DEF MsgInv, StampIsLast
<1> QED
  BY Zenon, <1>4, <1>6, <1>7 DEF QuorumInv

LEMMA AnsweredEffect ==
  ASSUME NEW o \in Logic, NEW n \in Remote
  PROVE  /\ Answered(o, n) \in Logic
         /\ Answered(o, n).nodes = o.nodes /\ Answered(o, n).lastNode = o.lastNode
         /\ Answered(o, n).success = o.success /\ Answered(o, n).failed = o.failed
         /\ Answered(o, n).clocks = o.clocks /\ Answered(o, n).failures = o.failures
         /\ Answered(o, n).called = o.called
         /\ Answered(o, n).pending = o.pending \ {n}
<1> DEFINE p == o.pending \ {n}
<1>1. p \in SUBSET Remote
  BY Zenon DEF Logic
<1>2. Answered(o, n) = [o EXCEPT !.pending = p]
  BY Zenon DEF Answered
<1> HIDE DEF p
<1> QED
  BY Zenon, <1>1, <1>2 DEF Logic, p

\* An answer uses up one of the nodes that are left.
LEMMA AnswerKeepsRan ==
  ASSUME NEW o, Ran(o), NEW n \in o.pending, NEW r \in Logic,
         r.nodes = o.nodes, r.lastNode = o.lastNode, r.called = o.called,
         r.pending = o.pending \ {n},
         r.success = o.success \/ r.success = Append(o.success, n),
         \/ r.failures + Len(r.clocks) <= o.failures + Len(o.clocks) + 1
         \/ r.pending = {}
  PROVE  Ran(r)
<1>1. o \in Logic /\ FewLeft(o)
  BY Zenon DEF Ran
<1>2. /\ o.pending \subseteq Remote /\ o.success \in Seq(Remote)
      /\ o.failures \in Nat /\ Len(o.clocks) \in Nat /\ r.failures \in Nat /\ Len(r.clocks) \in Nat
  BY <1>1 DEF Logic
<1>3. FewLeft(r)
  <2>1. CASE r.pending = {}
    BY Zenon, <2>1 DEF FewLeft
  <2>2. CASE r.pending # {}
    <3>1. PICK x, y \in Remote : o.pending \subseteq {x, y} /\ o.failures = 0 /\ o.clocks = <<>>
      BY Zenon, <1>1, <2>2 DEF FewLeft
    <3>2. r.failures + Len(r.clocks) <= 1
      BY <1>2, <2>2, <3>1
    <3>3. \E z \in Remote : r.pending \subseteq {z}
      BY Zenon, <3>1
    <3> QED
      BY Zenon, <3>2, <3>3 DEF FewLeft
  <2> QED
    BY Zenon, <2>1, <2>2
<1>4. \A i \in 1 .. Len(r.success) : r.success[i] \notin r.pending
  <2>1. \A i \in 1 .. Len(o.success) : o.success[i] \notin o.pending
    BY Zenon DEF Ran
  <2>2. CASE r.success = o.success
    BY Zenon, <2>1, <2>2
  <2>3. CASE r.success = Append(o.success, n)
    BY <2>1, <2>3, <1>2
  <2> QED
    BY Zenon, <2>2, <2>3
<1> QED
  BY <1>3, <1>4 DEF Ran

\* What the invariant says of a publish with an answer outstanding.
LEMMA PendingMsg ==
  ASSUME QuorumInv, NEW m \in Msgs, op[m] # Idle, NEW n \in op[m].pending
  PROVE  /\ Ran(op[m]) /\ op[m] \in Logic /\ op[m].lastNode >= 2 /\ n \in Remote
         /\ stamps[m] = <<>> /\ stamps = [stamps EXCEPT ![m] = <<>>]
<1>1. Ran(op[m]) /\ StampIsLast(m)
  BY Zenon DEF QuorumInv, MsgInv
<1>2. op[m] \in Logic /\ op[m].lastNode >= 2
  BY Zenon, <1>1 DEF Ran
<1>3. n \in Remote
  BY Zenon, <1>2 DEF Logic
<1>4. stamps[m] = <<>>
  BY Zenon, <1>1 DEF StampIsLast
<1>5. stamps = [stamps EXCEPT ![m] = <<>>]
  BY Zenon, <1>4 DEF QuorumInv, TypeOK
<1> QED
  BY Zenon, <1>1, <1>2, <1>3, <1>4, <1>5

\* A failure once run() has returned is reported, and no node is called.
LEMMA LateFailure ==
  ASSUME NEW o \in Logic, NEW n \in Remote, o.lastNode >= 2
  PROVE  LET r == node_failed(o, n)
         IN  /\ r \in Logic
             /\ r.nodes = o.nodes /\ r.lastNode = o.lastNode
             /\ r.success = o.success /\ r.clocks = o.clocks
             /\ r.called = o.called /\ r.pending = o.pending
             /\ r.failures = o.failures + 1
<1> DEFINE f == [o EXCEPT !.failed = Append(@, n)]
<1>1. f \in Logic /\ f.lastNode = o.lastNode
  BY ZenonT(30), NodeFailedEffect
<1>2. ~can_continue(f)
  BY <1>1 DEF can_continue, RF, Logic
<1> QED
  BY <1>2, NodeFailedEffect

LEMMA HandlePostKeepsInv ==
  ASSUME QuorumInv, NEW m \in Msgs, NEW q \in Quorums, HandlePost(m, q)
  PROVE  QuorumInv'
<1> DEFINE o == run(NewLogic(q))
<1>1. Ran(o)
  BY Zenon, RunEffect
<1>2. op[m] = Idle /\ Update(m, o) /\ crashed' \in BOOLEAN /\ stamps' = stamps
  BY Zenon DEF HandlePost, NullCalled
<1> HIDE DEF o
<1>3. stamps[m] = <<>>
  BY Zenon, <1>2 DEF QuorumInv, MsgInv
<1>4. stamps' = [stamps EXCEPT ![m] = <<>>]
  BY Zenon, <1>2, <1>3 DEF QuorumInv, TypeOK
<1>5. <<>> \in Seq(Layouts)
  OBVIOUS
<1> QED
  BY Zenon, <1>1, <1>2, <1>4, <1>5, StoreKeepsInv

LEMMA UnavailableKeepsInv ==
  ASSUME QuorumInv, NEW m \in Msgs, HandlePostUnavailable(m)
  PROVE  QuorumInv'
<1>1. /\ op[m] = Idle /\ answers' = [answers EXCEPT ![m] = 1]
      /\ UNCHANGED <<op, stamps, asked, crashed>>
  BY Zenon DEF HandlePostUnavailable
<1>2. TypeOK'
  BY Zenon, <1>1 DEF QuorumInv, TypeOK
<1>3. \A k \in Msgs : k # m => answers'[k] = answers[k]
  BY Zenon, <1>1 DEF QuorumInv, TypeOK
<1>4. ASSUME NEW k \in Msgs PROVE MsgInv(k)'
  <2>1. MsgInv(k)
    BY Zenon DEF QuorumInv
  <2>2. CASE k = m
    BY <2>1, <2>2, <1>1 DEF MsgInv
  <2>3. CASE k # m
    BY <2>1, <2>3, <1>1, <1>3 DEF MsgInv, StampIsLast
  <2> QED
    BY Zenon, <2>2, <2>3
<1> QED
  BY Zenon, <1>2, <1>4 DEF QuorumInv

LEMMA RefusalKeepsInv ==
  ASSUME QuorumInv, NEW m \in Msgs, NEW n \in Remote, NEW a \in Answers, OnRefusal(m, n, a)
  PROVE  QuorumInv'
<1> DEFINE o == op[m]
           b == Answered(o, n)
           r == node_failed(b, n)
<1>1. /\ o # Idle /\ n \in o.pending /\ Update(m, r)
      /\ crashed' \in BOOLEAN /\ stamps' = stamps
  BY Zenon DEF OnRefusal, NullCalled
<1>2. Ran(o) /\ o \in Logic /\ o.lastNode >= 2 /\ stamps = [stamps EXCEPT ![m] = <<>>]
  BY Zenon, <1>1, PendingMsg
<1> HIDE DEF o
<1>3. /\ b \in Logic /\ b.nodes = o.nodes /\ b.lastNode = o.lastNode
      /\ b.success = o.success /\ b.clocks = o.clocks /\ b.failures = o.failures
      /\ b.called = o.called /\ b.pending = o.pending \ {n}
  BY <1>2, AnsweredEffect
<1> HIDE DEF b
<1>4. /\ r \in Logic /\ r.nodes = b.nodes /\ r.lastNode = b.lastNode
      /\ r.success = b.success /\ r.clocks = b.clocks
      /\ r.called = b.called /\ r.pending = b.pending /\ r.failures = b.failures + 1
  BY <1>2, <1>3, LateFailure
<1> HIDE DEF r
<1>5. o.failures \in Nat /\ Len(o.clocks) \in Nat
  BY <1>2 DEF Logic
<1>6. r.failures + Len(r.clocks) <= o.failures + Len(o.clocks) + 1
  BY <1>3, <1>4, <1>5
<1>7. Ran(r)
  BY <1>1, <1>2, <1>3, <1>4, <1>6, AnswerKeepsRan
<1>8. <<>> \in Seq(Layouts)
  OBVIOUS
<1> QED
  BY Zenon, <1>1, <1>2, <1>7, <1>8, StoreKeepsInv

LEMMA TooLongKeepsInv ==
  ASSUME QuorumInv, NEW m \in Msgs, NEW n \in Remote, NEW a \in Answers, OnClockTooLong(m, n, a)
  PROVE  QuorumInv'
<1> DEFINE o == op[m]
           b == Answered(o, n)
           x == Append(b.success, n)
           c == [b EXCEPT !.success = x]
           r == node_failed(c, n)
<1>1. /\ o # Idle /\ n \in o.pending /\ Update(m, r)
      /\ crashed' \in BOOLEAN /\ stamps' = stamps
  BY Zenon DEF OnClockTooLong, NullCalled
<1>2. Ran(o) /\ o \in Logic /\ o.lastNode >= 2 /\ stamps = [stamps EXCEPT ![m] = <<>>]
  BY <1>1, PendingMsg
<1> HIDE DEF o
<1>3. /\ b \in Logic /\ b.nodes = o.nodes /\ b.lastNode = o.lastNode
      /\ b.success = o.success /\ b.clocks = o.clocks /\ b.failures = o.failures
      /\ b.called = o.called /\ b.pending = o.pending \ {n}
  BY Zenon, <1>2, AnsweredEffect
<1> HIDE DEF b
<1>4. x \in Seq(Remote)
  BY <1>3 DEF Logic
<1> HIDE DEF x
<1>5. /\ c \in Logic /\ c.nodes = b.nodes /\ c.lastNode = b.lastNode
      /\ c.success = x /\ c.clocks = b.clocks /\ c.failures = b.failures
      /\ c.called = b.called /\ c.pending = b.pending
  BY Zenon, <1>3, <1>4 DEF Logic
<1> HIDE DEF c
<1>6. /\ r \in Logic /\ r.nodes = c.nodes /\ r.lastNode = c.lastNode
      /\ r.success = c.success /\ r.clocks = c.clocks
      /\ r.called = c.called /\ r.pending = c.pending /\ r.failures = c.failures + 1
  BY <1>2, <1>3, <1>5, LateFailure
<1> HIDE DEF r
<1>7. o.failures \in Nat /\ Len(o.clocks) \in Nat
  BY <1>2 DEF Logic
<1>8. r.failures + Len(r.clocks) <= o.failures + Len(o.clocks) + 1
  BY <1>3, <1>5, <1>6, <1>7
<1>9. r.success = Append(o.success, n)
  BY Zenon, <1>3, <1>5, <1>6 DEF x
<1>10. Ran(r)
  BY <1>1, <1>2, <1>3, <1>5, <1>6, <1>8, <1>9, AnswerKeepsRan
<1>11. <<>> \in Seq(Layouts)
  OBVIOUS
<1> QED
  BY Zenon, <1>1, <1>2, <1>10, <1>11, StoreKeepsInv

LEMMA QueuedKeepsInv ==
  ASSUME QuorumInv, NEW m \in Msgs, NEW n \in Remote, NEW a \in Answers, OnQueued(m, n, a)
  PROVE  QuorumInv'
<1> DEFINE o == op[m]
           b == Answered(o, n)
           x == Append(b.success, n)
           l == Append(b.clocks, a.layout)
           r == [b EXCEPT !.success = x, !.clocks = l]
           s == Append(stamps[m], r.clocks[1])
<1>1. /\ o # Idle /\ n \in o.pending /\ a.kind = "queued"
      /\ \/ Update(m, r) /\ stamps' = stamps /\ crashed' = crashed
         \/ Update(m, r) /\ crashed' = TRUE /\ stamps' = stamps
         \/ /\ operation_succeeded(r) /\ Len(r.clocks) >= 2
            /\ Update(m, r)
            /\ stamps' = [stamps EXCEPT ![m] = s] /\ crashed' = crashed
         \/ /\ Len(r.clocks) >= 2
            /\ Update(m, node_failed(r, n))
            /\ crashed' = NullCalled(op'[m])
            /\ stamps' = stamps
  BY Zenon DEF OnQueued
<1>2. /\ Ran(o) /\ o \in Logic /\ o.lastNode >= 2
      /\ stamps[m] = <<>> /\ stamps = [stamps EXCEPT ![m] = <<>>]
  BY <1>1, PendingMsg
<1> HIDE DEF o
<1>3. /\ b \in Logic /\ b.nodes = o.nodes /\ b.lastNode = o.lastNode
      /\ b.success = o.success /\ b.clocks = o.clocks /\ b.failures = o.failures
      /\ b.called = o.called /\ b.pending = o.pending \ {n}
  BY <1>2, AnsweredEffect
<1> HIDE DEF b
<1>4. x \in Seq(Remote) /\ l \in Seq(Layouts) /\ Len(l) = Len(o.clocks) + 1
  <2>1. a.layout \in Layouts
    BY <1>1 DEF Layouts
  <2> QED
    BY <2>1, <1>3 DEF Logic
<1> HIDE DEF x, l
<1>5. /\ r \in Logic /\ r.nodes = b.nodes /\ r.lastNode = b.lastNode
      /\ r.success = x /\ r.clocks = l /\ r.failures = b.failures
      /\ r.called = b.called /\ r.pending = b.pending
  BY Zenon, <1>3, <1>4 DEF Logic
<1> HIDE DEF r
<1>6. /\ o.failures \in Nat /\ Len(o.clocks) \in Nat /\ o.success \in Seq(Remote)
      /\ crashed \in BOOLEAN /\ <<>> \in Seq(Layouts)
  BY <1>2 DEF Logic, QuorumInv, TypeOK
<1>7. r.success = Append(o.success, n)
  BY Zenon, <1>3, <1>5 DEF x
<1>8. Ran(r)
  <2>1. r.failures + Len(r.clocks) <= o.failures + Len(o.clocks) + 1
    BY SMTT(30), <1>3, <1>4, <1>5, <1>6
  <2> QED
    BY <2>1, <1>1, <1>2, <1>3, <1>5, <1>7, AnswerKeepsRan
<1>9. Len(r.clocks) >= 2 => r.pending = {} /\ r.failures = 0
  <2> SUFFICES ASSUME Len(r.clocks) >= 2 PROVE r.pending = {} /\ r.failures = 0
    BY Zenon
  <2>1. Len(o.clocks) >= 1 /\ FewLeft(o)
    BY <1>2, <1>4, <1>5, <1>6 DEF Ran
  <2>2. PICK y \in Remote : o.pending \subseteq {y} /\ o.failures + Len(o.clocks) <= 1
    BY <2>1, <1>1 DEF FewLeft
  <2> QED
    BY <2>1, <2>2, <1>1, <1>3, <1>5, <1>6
<1>10. CASE Update(m, r) /\ stamps' = stamps /\ crashed' \in BOOLEAN
  BY Zenon, <1>2, <1>6, <1>8, <1>10, StoreKeepsInv
<1>11. CASE /\ operation_succeeded(r) /\ Len(r.clocks) >= 2
            /\ Update(m, r)
            /\ stamps' = [stamps EXCEPT ![m] = s] /\ crashed' = crashed
  <2>1. r.clocks[1] \in Layouts
    BY <1>4, <1>5, <1>11
  <2>2. s \in Seq(Layouts) /\ Len(s) = 1
    BY <2>1, <1>2
  <2>3. Len(r.success) >= 2
    BY <1>11, <1>6, <1>7 DEF operation_succeeded, RF
  <2>4. r.success[1] # r.success[Len(r.success)]
    <3>1. o.success[1] # n
      <4>1. 1 \in 1 .. Len(o.success)
        BY <2>3, <1>6, <1>7
      <4>2. \A i \in 1 .. Len(o.success) : o.success[i] \notin o.pending
        BY <1>2 DEF Ran
      <4> QED
        BY <4>1, <4>2, <1>1
    <3> QED
      BY <2>3, <3>1, <1>6, <1>7
  <2>5. 1 \in 1 .. Len(r.success) /\ Len(r.success) \in 1 .. Len(r.success)
    BY <2>3, <1>6, <1>7
  <2>6. \E i, j \in 1 .. Len(r.success) : r.success[i] # r.success[j]
    BY <2>4, <2>5
  <2> HIDE DEF s
  <2> QED
    BY Zenon, <2>2, <2>6, <1>6, <1>8, <1>9, <1>11, StoreKeepsInv
<1>12. CASE /\ Len(r.clocks) >= 2
            /\ Update(m, node_failed(r, n))
            /\ crashed' = NullCalled(op'[m])
            /\ stamps' = stamps
  <2> DEFINE t == node_failed(r, n)
  <2>1. /\ t \in Logic /\ t.nodes = r.nodes /\ t.lastNode = r.lastNode
        /\ t.success = r.success /\ t.clocks = r.clocks
        /\ t.called = r.called /\ t.pending = r.pending
    BY <1>2, <1>3, <1>5, LateFailure
  <2>2. crashed' \in BOOLEAN /\ Update(m, t)
    BY Zenon, <1>12 DEF NullCalled
  <2> HIDE DEF t
  <2>3. t.pending = {}
    BY Zenon, <2>1, <1>9, <1>12
  <2>4. Ran(t)
    BY Zenon, <2>1, <2>3, <1>1, <1>2, <1>3, <1>5, <1>7, AnswerKeepsRan
  <2> QED
    BY Zenon, <2>2, <2>4, <1>2, <1>6, <1>12, StoreKeepsInv
<1> QED
  BY Zenon, <1>1, <1>6, <1>10, <1>11, <1>12

LEMMA QuorumInvInductive == QuorumInv /\ [Next]_vars => QuorumInv'
<1> SUFFICES ASSUME QuorumInv, [Next]_vars PROVE QuorumInv'
  BY Zenon
<1>1. CASE UNCHANGED vars
  <2>1. op' = op /\ answers' = answers /\ stamps' = stamps /\ asked' = asked /\ crashed' = crashed
    BY Zenon, <1>1 DEF vars
  <2>2. TypeOK'
    BY <2>1 DEF QuorumInv, TypeOK
  <2>3. ASSUME NEW m \in Msgs PROVE MsgInv(m)'
    BY <2>1 DEF QuorumInv, MsgInv, StampIsLast
  <2> QED
    BY <2>2, <2>3 DEF QuorumInv
<1>2. ASSUME NEW m \in Msgs, HandlePostUnavailable(m) PROVE QuorumInv'
  BY Zenon, <1>2, UnavailableKeepsInv
<1>3. ASSUME NEW m \in Msgs, NEW q \in Quorums, HandlePost(m, q) PROVE QuorumInv'
  BY Zenon, <1>3, HandlePostKeepsInv
<1>4. ASSUME NEW m \in Msgs, NEW n \in Remote, NEW a \in Answers, Callback(m, n, a)
      PROVE  QuorumInv'
  BY Zenon, <1>4, RefusalKeepsInv, TooLongKeepsInv, QueuedKeepsInv DEF Callback
<1> QED
  BY <1>1, <1>2, <1>3, <1>4 DEF Next

LEMMA InitQuorumInv == Init => QuorumInv
<1> SUFFICES ASSUME Init PROVE QuorumInv
  BY Zenon
<1>1. TypeOK
  <2>1. op \in [Msgs -> Logic \cup {Idle}]
    BY Zenon DEF Init
  <2>2. stamps \in [Msgs -> Seq(Layouts)] /\ asked \in [Msgs -> Seq(Nodes)]
    BY DEF Init
  <2> QED
    BY Zenon, <2>1, <2>2 DEF Init, TypeOK
<1>2. \A m \in Msgs : MsgInv(m)
  BY Zenon DEF Init, MsgInv
<1> QED
  BY <1>1, <1>2 DEF QuorumInv
-----------------------------------------------------------------------------
(***************************************************************************)
(* The counters and lists of quorum_logic keep their types; _lastNode      *)
(* never leaves the array of nodes.                                        *)
(***************************************************************************)
THEOREM QuorumTypes == Spec => []TypeOK
<1>1. QuorumInv => TypeOK
  BY DEF QuorumInv
<1> QED
  BY <1>1, InitQuorumInv, QuorumInvInductive, PTL DEF Spec

(***************************************************************************)
(* do_stamp_message is called at most once for a publish, with the clocks  *)
(* of two different nodes, however answers and failures interleave.        *)
(***************************************************************************)
THEOREM StampedOnce == Spec => []StampedOnceByTwoNodes
<1>1. QuorumInv => StampedOnceByTwoNodes
  BY DEF QuorumInv, MsgInv, StampIsLast, StampedOnceByTwoNodes
<1> QED
  BY <1>1, InitQuorumInv, QuorumInvInductive, PTL DEF Spec

(***************************************************************************)
(* A publish the client was told is UNAVAILABLE is never stamped.          *)
(***************************************************************************)
THEOREM UnavailableIsFinal == Spec => []UnavailableNotStamped
<1>1. QuorumInv => UnavailableNotStamped
  BY DEF QuorumInv, MsgInv, StampIsLast, UnavailableNotStamped
<1> QED
  BY <1>1, InitQuorumInv, QuorumInvInductive, PTL DEF Spec

(***************************************************************************)
(* run() and node_failed() never send a message to the same node twice.    *)
(***************************************************************************)
THEOREM AskedOnce == Spec => []NoNodeAskedTwice
<1>1. QuorumInv => NoNodeAskedTwice
  <2> SUFFICES ASSUME QuorumInv, NEW m \in Msgs,
                      NEW i \in 1 .. Len(asked[m]), NEW j \in 1 .. Len(asked[m]),
                      i # j, asked[m][i] = asked[m][j]
               PROVE  asked[m][i] = Nobody
    BY Zenon DEF NoNodeAskedTwice
  <2>1. op[m] # Idle /\ Ran(op[m]) /\ asked[m] = op[m].called
    BY DEF QuorumInv, MsgInv
  <2>2. /\ op[m].nodes \in Quorums /\ op[m].lastNode \in 0 .. 3
        /\ i \in 1 .. op[m].lastNode /\ j \in 1 .. op[m].lastNode
        /\ asked[m][i] = op[m].nodes[i] /\ asked[m][j] = op[m].nodes[j]
    BY Zenon, <2>1 DEF Ran, Logic, RF
  <2>3. i \in 1 .. 3 /\ j \in 1 .. 3
    BY <2>2
  <2> QED
    BY Zenon, <2>2, <2>3, QuorumPublishAssumption DEF RF
<1> QED
  BY <1>1, InitQuorumInv, QuorumInvInductive, PTL DEF Spec
-----------------------------------------------------------------------------
INSTANCE FiniteSetTheorems

(***************************************************************************)
(* However many threads look for one queue at a time, get_queue creates it *)
(* once: the heap has one pointer to each queue of the list and no other.  *)
(***************************************************************************)
THEOREM QueueCreatedOnce == ManagerSpec => []HeapMatchesList
<1>1. ASSUME ManagerInv PROVE HeapMatchesList
  <2>1. \A q \in QueueIds : {q} \cap queues = IF q \in queues THEN {q} ELSE {}
    OBVIOUS
  <2>2. \A q \in QueueIds : Cardinality({q}) = 1
    BY Zenon, FS_Singleton
  <2>3. Cardinality({}) = 0
    BY FS_EmptySet
  <2> QED
    BY <1>1, <2>1, <2>2, <2>3 DEF ManagerInv, HeapInv, HeapMatchesList
<1> QED
  BY <1>1, ManagerKeepsInv, PTL
=============================================================================
