---------------------------- MODULE QueueManager ----------------------------
(***************************************************************************)
(* queue_manager (node/src/queue_manager.h): the queues of a node by id,   *)
(* and the heap of pointers to them.  Every operation gets its queue under *)
(* _list_lock and uses it after the lock is released.  MessageQueue has a  *)
(* queue in detail; here it is the two sets of messages it holds, and each *)
(* of its operations, which hold the queue's own lock, is one step.        *)
(***************************************************************************)
EXTENDS Naturals, FiniteSets

CONSTANTS
  Threads,    \* callers
  QueueIds,   \* hashes of queue names
  Messages,   \* each enqueued and stamped at most once
  MaxExpires  \* calls of expire_messages

ASSUME QueueManagerAssumption ==
  /\ "free" \notin Threads /\ MaxExpires \in Nat

VARIABLES
  lock,       \* the holder of _list_lock
  queues,     \* the ids in _queues
  heap,       \* heap[q]: how often _queues_by_expiration holds the queue of q
  unstamped,  \* unstamped[q]: its messages that have no clock
  queued,     \* queued[q]: its messages that have one
  call,       \* call[t]: the operation t is in, and how far it is
  home,       \* the queue each message was sent to
  begun,      \* the operations called
  enqueued,   \* messages whose enqueue_message has returned
  dropped,    \* messages that expired
  late,       \* messages whose stamp_message was called after that
  stamped     \* those of them whose stamp_message has returned

contents == <<unstamped, queued>>
history == <<begun, enqueued, dropped, late, stamped>>
managerVars == <<lock, queues, heap, contents, call, home, history>>

NoCall == [at |-> "idle"]
Ops == [op : {"enqueue", "stamp"}, msg : Messages]
         \cup [op : {"expire"}, n : 1 .. MaxExpires]

ManagerInit ==
  /\ lock = "free" /\ queues = {} /\ heap = [q \in QueueIds |-> 0]
  /\ unstamped = [q \in QueueIds |-> {}] /\ queued = [q \in QueueIds |-> {}]
  /\ call = [t \in Threads |-> NoCall]
  /\ home \in [Messages -> QueueIds]
  /\ begun = {} /\ enqueued = {} /\ dropped = {} /\ late = {} /\ stamped = {}
-----------------------------------------------------------------------------
\* enqueue_message, stamp_message, or get_queue with a call of expire_messages.
Call(t, o, q) ==
  /\ call[t] = NoCall /\ o \notin begun
  /\ o.op # "expire" => q = home[o.msg]
  /\ begun' = begun \cup {o}
  /\ call' = [call EXCEPT ![t] =
       [at |-> "called", o |-> o, queue |-> q]]
  /\ late' = IF o.op = "stamp" THEN late \cup ({o.msg} \cap enqueued) ELSE late
  /\ UNCHANGED <<lock, queues, heap, contents, home, enqueued, dropped, stamped>>

At(t, place) == call' = [call EXCEPT ![t].at = place]

\* Mutant: the list is searched without the lock.
FindUnlocked(t) ==
  /\ call[t].at = "called"
  /\ At(t, IF call[t].queue \in queues THEN "using" ELSE "creating")
  /\ lock' = IF call[t].queue \in queues THEN lock ELSE t
  /\ UNCHANGED <<queues, heap, contents, home, history>>

\* get_queue up to the test of qiter; a queue that exists is returned.
Find(t) ==
  /\ call[t].at = "called" /\ lock = "free"
  /\ At(t, IF call[t].queue \in queues THEN "using" ELSE "creating")
  /\ lock' = IF call[t].queue \in queues THEN lock ELSE t
  /\ UNCHANGED <<queues, heap, contents, home, history>>

\* The rest of get_queue: emplace leaves a queue that is there alone.
Create(t) ==
  /\ call[t].at = "creating"
  /\ At(t, "using")
  /\ queues' = queues \cup {call[t].queue}
  /\ heap' = [heap EXCEPT ![call[t].queue] = @ + 1]
  /\ lock' = "free"
  /\ UNCHANGED <<contents, home, history>>

Returns(t, op) ==
  /\ call[t].at = "using" /\ call[t].o.op = op
  /\ call' = [call EXCEPT ![t] = NoCall]
  /\ UNCHANGED <<lock, queues, heap, home, begun, late>>

enqueue_message(t) ==
  /\ Returns(t, "enqueue")
  /\ unstamped' = [unstamped EXCEPT ![call[t].queue] = @ \cup {call[t].o.msg}]
  /\ enqueued' = enqueued \cup {call[t].o.msg}
  /\ UNCHANGED <<queued, dropped, stamped>>

\* Mutant: a queue that has a stamped message takes no other.
stamp_first_only(t) ==
  LET q == call[t].queue
      found == IF queued[q] = {} THEN {call[t].o.msg} \cap unstamped[q] ELSE {} IN
  /\ Returns(t, "stamp")
  /\ unstamped' = [unstamped EXCEPT ![q] = @ \ found]
  /\ queued' = [queued EXCEPT ![q] = @ \cup found]
  /\ stamped' = stamped \cup ({call[t].o.msg} \cap late)
  /\ UNCHANGED <<enqueued, dropped>>

\* Mutant: a stamp waits for its message.
stamp_waits(t) ==
  LET q == call[t].queue
      found == {call[t].o.msg} \cap unstamped[q] IN
  /\ Returns(t, "stamp") /\ found # {}
  /\ unstamped' = [unstamped EXCEPT ![q] = @ \ found]
  /\ queued' = [queued EXCEPT ![q] = @ \cup found]
  /\ stamped' = stamped \cup ({call[t].o.msg} \cap late)
  /\ UNCHANGED <<enqueued, dropped>>

\* A message that is not there is not stamped, and nobody is told.
stamp_message(t) ==
  LET q == call[t].queue
      found == {call[t].o.msg} \cap unstamped[q] IN
  /\ Returns(t, "stamp")
  /\ unstamped' = [unstamped EXCEPT ![q] = @ \ found]
  /\ queued' = [queued EXCEPT ![q] = @ \cup found]
  /\ stamped' = stamped \cup ({call[t].o.msg} \cap late)
  /\ UNCHANGED <<enqueued, dropped>>

\* Mutant: the messages that have no clock are not erased.
expire_only_queued(t) ==
  /\ Returns(t, "expire")
  /\ \E due \in SUBSET (unstamped[call[t].queue] \cup queued[call[t].queue]) :
       /\ queued' = [queued EXCEPT ![call[t].queue] = @ \ due]
       /\ dropped' = dropped \cup due
  /\ UNCHANGED <<unstamped, enqueued, stamped>>

\* Which messages are due is in MessageQueue.
expire_messages(t) ==
  /\ Returns(t, "expire")
  /\ \E due \in SUBSET (unstamped[call[t].queue] \cup queued[call[t].queue]) :
       /\ unstamped' = [unstamped EXCEPT ![call[t].queue] = @ \ due]
       /\ queued' = [queued EXCEPT ![call[t].queue] = @ \ due]
       /\ dropped' = dropped \cup due
  /\ UNCHANGED <<enqueued, stamped>>

Step(t) ==
  Find(t) \/ Create(t) \/ enqueue_message(t) \/ stamp_message(t) \/ expire_messages(t)

ManagerNext ==
  \E t \in Threads : Step(t) \/ \E o \in Ops, q \in QueueIds : Call(t, o, q)

ManagerSpec == ManagerInit /\ [][ManagerNext]_managerVars

\* Every thread goes on, and gets the lock when it is free: no call holds it long.
ManagerFairSpec == ManagerSpec /\ \A t \in Threads : WF_managerVars(Step(t))
-----------------------------------------------------------------------------
Calls == {NoCall} \cup [at : {"called", "creating", "using"}, o : Ops, queue : QueueIds]

(***************************************************************************)
(* The types, and that _list_lock is held only by a thread that is         *)
(* creating a queue.                                                       *)
(***************************************************************************)
ManagerTypeOK ==
  /\ lock = "free" \/ (lock \in Threads /\ call[lock].at = "creating")
  /\ queues \subseteq QueueIds /\ heap \in [QueueIds -> Nat]
  /\ unstamped \in [QueueIds -> SUBSET Messages]
  /\ queued \in [QueueIds -> SUBSET Messages]
  /\ call \in [Threads -> Calls] /\ home \in [Messages -> QueueIds]
  /\ begun \subseteq Ops
  /\ enqueued \cup dropped \cup late \cup stamped \subseteq Messages

(***************************************************************************)
(* The heap has one pointer to each queue of the list and none to another, *)
(* although get_queue looks for the queue and creates it in two steps that *)
(* several threads may take for one id: the handle kept with a queue is    *)
(* the only one to it.                                                     *)
(***************************************************************************)
HeapMatchesList ==
  \A q \in QueueIds : heap[q] = Cardinality({q} \cap queues)

(***************************************************************************)
(* A stamp_message called after the enqueue_message of its message         *)
(* returned finds it, whichever threads the two ran on and whatever was    *)
(* created in between: the message is queued under its own id, unless it   *)
(* has expired.                                                            *)
(***************************************************************************)
LateStampQueues ==
  \A m \in stamped \ dropped : m \in queued[home[m]]

(***************************************************************************)
(* The queues of the node keep the contract of QueueContract, a message    *)
(* with its queue as an item, although calls look their queue up under one *)
(* lock and use it under another: no message is stamped, expired or kept   *)
(* by a queue other than its own, and no call brings back what expired.    *)
(***************************************************************************)
In(holdings) == {x \in QueueIds \X Messages : x[2] \in holdings[x[1]]}

Contract == INSTANCE QueueContract WITH
  Items <- QueueIds \X Messages,
  waiting <- In(unstamped),
  ordered <- In(queued),
  gone <- {x \in QueueIds \X Messages : x[2] \in dropped /\ home[x[2]] = x[1]}

ImplementsContract == Contract!Spec

(***************************************************************************)
(* Every call of the manager returns: no path through get_queue keeps the  *)
(* lock, and a stamp that comes before its message does not wait for it.   *)
(***************************************************************************)
CallsReturn == \A t \in Threads : call[t] # NoCall ~> call[t] = NoCall

(***************************************************************************)
(* "Handling nodes 1 and 2 delete message from queues and remove the       *)
(* queues if they're empty": a queue all of whose messages have been       *)
(* dropped is gone when nobody uses it.                                    *)
(* The code does not keep this statement (README, Deviations).             *)
(***************************************************************************)
EmptyQueuesRemoved ==
  \A q \in queues :
    \/ unstamped[q] \cup queued[q] # {}
    \/ \A m \in dropped : home[m] # q
    \/ \E t \in Threads : call[t] # NoCall
=============================================================================
