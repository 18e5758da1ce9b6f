---------------------------- MODULE MessageQueue ----------------------------
(***************************************************************************)
(* One queue of a node (node/src/message_queue.h, queued_message.h).       *)
(*                                                                         *)
(* A message waits in _unstamped_messages until it is stamped with its     *)
(* vector clock, and is then kept in clock order in _queued_messages with  *)
(* an entry in _message_index; expire_messages drops what is older than    *)
(* the TTL.  Every call of enqueue has a serial number, which stands for   *)
(* the message object: the index refers to a queue element by its serial,  *)
(* and _total_message_size is the set of the serials whose size has been   *)
(* added and not yet subtracted (uint32_t addition and subtraction undo    *)
(* each other, so the total is right when the set is).  Ages are counted   *)
(* in ticks up to AgeCap; local_time is now minus the age.                 *)
(*                                                                         *)
(* Several threads may use the queue: every operation runs under           *)
(* _queue_lock, except the part of enqueue that sets the TTL.  peek, claim *)
(* and next_expiry are left out: they do not compile when instantiated.    *)
(***************************************************************************)
EXTENDS VectorClock, Sequences, Functions

CONSTANTS
  Ids,         \* message ids, chosen by the producers
  Clocks,      \* vector clocks that stamps carry
  Ttls,        \* TTLs that producers ask for
  Threads,     \* threads that use the queue
  AgeCap,      \* ages are not told apart from here on
  MaxEnqueues, \* bound on the number of enqueue calls
  Resend       \* whether a producer may publish an id again

ASSUME MessageQueueAssumption ==
  /\ Ttls \subseteq Nat /\ AgeCap \in Nat /\ MaxEnqueues \in Nat
  /\ \A t \in Ttls : t < AgeCap
  /\ Resend \in BOOLEAN
  /\ Clocks \subseteq [Positions -> NodeClock(Nat, Nat, Nat)]

VARIABLES
  unstamped, \* _unstamped_messages
  queued,    \* _queued_messages, in the order of the multimap
  index,     \* _message_index: pairs of an id and the element it refers to
  charged,   \* _total_message_size
  ttlSet,    \* _ttl_set
  ttl,       \* _ttl
  calls,     \* calls[t]: where thread t is in enqueue, and its arguments
  serial,    \* number of enqueue calls so far
  asked      \* history: the ids and TTLs of the enqueue calls so far

vars == <<unstamped, queued, index, charged, ttlSet, ttl, calls, serial, asked>>

Unstamped == [id : Ids, serial : Nat, age : 0 .. AgeCap]
Queued == [id : Ids, serial : Nat, age : 0 .. AgeCap, clock : Clocks]
Idle == [at |-> "idle"]
Call == {Idle} \cup [at : {"unset", "ttl", "insert"}, id : Ids, ttl : Ttls, serial : Nat]

Init ==
  /\ unstamped = {} /\ queued = <<>> /\ index = {} /\ charged = {}
  /\ ttlSet = FALSE /\ ttl = 0
  /\ calls = [t \in Threads |-> Idle]
  /\ serial = 0
  /\ asked = {}
-----------------------------------------------------------------------------
(***************************************************************************)
(* enqueue.  The test of _ttl_set and the two assignments happen before    *)
(* the lock is taken.                                                      *)
(***************************************************************************)
EnqueueBegin(t, id, secs) ==
  /\ calls[t] = Idle /\ serial < MaxEnqueues
  /\ Resend \/ \A a \in asked : a.id # id
  /\ serial' = serial + 1
  /\ asked' = asked \cup {[id |-> id, ttl |-> secs]}
  /\ calls' = [calls EXCEPT ![t] = [at |-> IF ttlSet THEN "insert" ELSE "unset",
                                    id |-> id, ttl |-> secs, serial |-> serial']]
  /\ UNCHANGED <<unstamped, queued, index, charged, ttlSet, ttl>>

EnqueueSetFlag(t) ==
  /\ calls[t].at = "unset"
  /\ ttlSet' = TRUE
  /\ calls' = [calls EXCEPT ![t].at = "ttl"]
  /\ UNCHANGED <<unstamped, queued, index, charged, ttl, serial, asked>>

EnqueueSetTtl(t) ==
  /\ calls[t].at = "ttl"
  /\ ttl' = calls[t].ttl
  /\ calls' = [calls EXCEPT ![t].at = "insert"]
  /\ UNCHANGED <<unstamped, queued, index, charged, ttlSet, serial, asked>>

\* The size is added first; insert() does nothing if the id is already waiting.
EnqueueInsert(t) ==
  /\ calls[t].at = "insert"
  /\ charged' = charged \cup {calls[t].serial}
  /\ unstamped' = IF \E u \in unstamped : u.id = calls[t].id THEN unstamped
                  ELSE unstamped \cup {[id |-> calls[t].id, serial |-> calls[t].serial, age |-> 0]}
  /\ calls' = [calls EXCEPT ![t] = Idle]
  /\ UNCHANGED <<queued, index, ttlSet, ttl, serial, asked>>

\* Mutant: the hint is taken for the position.
IsInsertPositionLast(p, clock) == p = Len(queued) + 1

(***************************************************************************)
(* stamp.  The multimap puts the message between an element it is not less *)
(* than and one it is less than; with the hint end() it goes last whenever *)
(* it is not less than the last element.                                   *)
(***************************************************************************)
IsInsertPosition(p, clock) ==
  /\ p > 1 => ~VCLess(clock, queued[p - 1].clock)
  /\ p <= Len(queued) => /\ VCLess(clock, queued[p].clock)
                         /\ VCLess(clock, queued[Len(queued)].clock)

\* The elements from position p on move up by one.
InsertAt(s, p, e) == SubSeq(s, 1, p - 1) \o <<e>> \o SubSeq(s, p, Len(s))

\* Mutant: only the first message of an empty queue is indexed.
StampNoIndex(id, clock) ==
  \E u \in unstamped : \E p \in 1 .. Len(queued) + 1 :
    /\ u.id = id
    /\ IsInsertPosition(p, clock)
    /\ queued' = InsertAt(queued, p, [id |-> id, serial |-> u.serial, age |-> 0, clock |-> clock])
    /\ index' = IF queued # <<>> THEN index ELSE index \cup {[id |-> id, serial |-> u.serial]}
    /\ unstamped' = unstamped \ {u}
    /\ UNCHANGED <<charged, ttlSet, ttl, calls, serial, asked>>

\* Mutant: the message is not erased from _unstamped_messages.
StampKeeps(id, clock) ==
  \E u \in unstamped : \E p \in 1 .. Len(queued) + 1 :
    /\ u.id = id
    /\ IsInsertPosition(p, clock)
    /\ queued' = InsertAt(queued, p, [id |-> id, serial |-> u.serial, age |-> 0, clock |-> clock])
    /\ index' = IF \E e \in index : e.id = id THEN index
                ELSE index \cup {[id |-> id, serial |-> u.serial]}
    /\ UNCHANGED <<unstamped, charged, ttlSet, ttl, calls, serial, asked>>

Stamp(id, clock) ==
  \E u \in unstamped : \E p \in 1 .. Len(queued) + 1 :
    /\ u.id = id
    /\ IsInsertPosition(p, clock)
    /\ queued' = InsertAt(queued, p, [id |-> id, serial |-> u.serial, age |-> 0, clock |-> clock])
    /\ index' = IF \E e \in index : e.id = id THEN index
                ELSE index \cup {[id |-> id, serial |-> u.serial]}
    /\ unstamped' = unstamped \ {u}
    /\ UNCHANGED <<charged, ttlSet, ttl, calls, serial, asked>>

\* Mutant: a message of exactly the TTL's age is taken.
ExpiredAtTtl(m) == m.age >= ttl

(***************************************************************************)
(* expire_messages.  The scan of the queue stops at the first message that *)
(* is young enough; the index is not touched.                              *)
(***************************************************************************)
Expired(m) == m.age > ttl

ExpiredPrefix(k) ==
  /\ \A i \in 1 .. k : Expired(queued[i])
  /\ k < Len(queued) => ~Expired(queued[k + 1])

\* Mutant: the second loop does not subtract.
ExpireNoUncharge ==
  \E k \in 0 .. Len(queued) :
    /\ ExpiredPrefix(k)
    /\ queued' = SubSeq(queued, k + 1, Len(queued))
    /\ unstamped' = {u \in unstamped : ~Expired(u)}
    /\ charged' = charged \ {queued[i].serial : i \in 1 .. k}
    /\ UNCHANGED <<index, ttlSet, ttl, calls, serial, asked>>

ExpireMessages ==
  \E k \in 0 .. Len(queued) :
    /\ ExpiredPrefix(k)
    /\ queued' = SubSeq(queued, k + 1, Len(queued))
    /\ unstamped' = {u \in unstamped : ~Expired(u)}
    /\ charged' = charged \ ({queued[i].serial : i \in 1 .. k}
                             \cup {u.serial : u \in {v \in unstamped : Expired(v)}})
    /\ UNCHANGED <<index, ttlSet, ttl, calls, serial, asked>>

\* Time passes.
Older(m) == [m EXCEPT !.age = IF @ < AgeCap THEN @ + 1 ELSE @]

Tick ==
  /\ unstamped' = {Older(u) : u \in unstamped}
  /\ queued' = [i \in 1 .. Len(queued) |-> Older(queued[i])]
  /\ UNCHANGED <<index, charged, ttlSet, ttl, calls, serial, asked>>

Next ==
  \/ \E t \in Threads :
       \/ \E id \in Ids, secs \in Ttls : EnqueueBegin(t, id, secs)
       \/ EnqueueSetFlag(t)
       \/ EnqueueSetTtl(t)
       \/ EnqueueInsert(t)
  \/ \E id \in Ids, clock \in Clocks : Stamp(id, clock)
  \/ ExpireMessages
  \/ Tick

Spec == Init /\ [][Next]_vars
-----------------------------------------------------------------------------
Messages == unstamped \cup Range(queued)
HeldSerials == {m.serial : m \in Messages}

\* The types of the queue's collections, its counter and TTL, and the threads.
TypeOK ==
  /\ unstamped \subseteq Unstamped
  /\ queued \in Seq(Queued)
  /\ index \subseteq [id : Ids, serial : Nat]
  /\ charged \subseteq Nat
  /\ ttlSet \in BOOLEAN /\ ttl \in {0} \cup Ttls
  /\ calls \in [Threads -> Call]
  /\ serial \in Nat
  /\ asked \subseteq [id : Ids, ttl : Ttls]

(***************************************************************************)
(* "The total memory size of all messages in this queue in bytes":         *)
(* _total_message_size counts exactly the messages the queue holds, over   *)
(* any sequence of enqueue, stamp and expire_messages.                     *)
(***************************************************************************)
SizeExact == charged = HeldSerials

(***************************************************************************)
(* The counter never counts less than what is held, so the subtractions of *)
(* expire_messages never wrap it below zero, even when a producer          *)
(* publishes an id again while the first copy waits or is queued.          *)
(***************************************************************************)
SizeCoversHeld == HeldSerials \subseteq charged

(***************************************************************************)
(* _message_index finds every message of the queue by its id.              *)
(***************************************************************************)
IndexFindsQueued ==
  \A i \in 1 .. Len(queued) : [id |-> queued[i].id, serial |-> queued[i].serial] \in index

(***************************************************************************)
(* "Message index from UUID to handle that can be used to reference        *)
(* messages in _queued_messages": every handle of the index refers to an   *)
(* element of the queue.                                                   *)
(* The code does not keep this statement (README, Deviations).             *)
(***************************************************************************)
IndexRefersToQueued ==
  \A e \in index : \E i \in 1 .. Len(queued) : queued[i].serial = e.serial

(***************************************************************************)
(* The queue keeps the contract of QueueContract for every message object: *)
(* whatever the threads interleave and whatever ids repeat, the object     *)
(* goes from its enqueue call to _unstamped_messages or nowhere, from      *)
(* there to _queued_messages once, and from either to oblivion.            *)
(***************************************************************************)
Waiting == {u.serial : u \in unstamped}
Ordered == {m.serial : m \in Range(queued)}
InCall == {calls[t].serial : t \in {s \in Threads : calls[s] # Idle}}
Gone == (1 .. serial) \ (Waiting \cup Ordered \cup InCall)

Contract == INSTANCE QueueContract WITH
  Items <- 1 .. MaxEnqueues, waiting <- Waiting, ordered <- Ordered, gone <- Gone

ImplementsContract == Contract!Spec

\* _ttl_set is true and _ttl has not been given the TTL of a message yet.
TtlAsked == \E a \in asked : a.ttl = ttl
TtlPending == ~TtlAsked /\ \E t \in Threads : calls[t].at = "ttl"

(***************************************************************************)
(* A message leaves the queue only once it is older than a TTL that some   *)
(* producer asked for ("The TTL of all messages in this queue based on the *)
(* TTL of the first message received"): stamp moves it and loses nothing,  *)
(* and expire_messages takes only what is due.  The one exception is the   *)
(* window that enqueue leaves open before it takes the lock: between its   *)
(* two assignments, another thread can have a message expire by the        *)
(* initial _ttl of zero.                                                   *)
(***************************************************************************)
DroppedOnlyWhenDue ==
  [][\A m \in Messages :
       m.serial \notin HeldSerials' => TtlPending \/ \E a \in asked : m.age > a.ttl]_vars

(***************************************************************************)
(* "Expires messages that are beyond their TTL": after expire_messages no  *)
(* message beyond the TTL is left.                                         *)
(* The code does not keep this statement (README, Deviations).             *)
(***************************************************************************)
ExpireLeavesNoneDue ==
  [][ExpireMessages => \A i \in 1 .. Len(queued') : ~Expired(queued'[i])]_vars

(***************************************************************************)
(* "Priority queue for queued_message sorted by vclock": no message of the *)
(* queue has a clock less than that of a message before it, when operator< *)
(* orders the clocks that stamps carry.                                    *)
(***************************************************************************)
QueueSorted ==
  \A i, j \in 1 .. Len(queued) : i < j => ~VCLess(queued[j].clock, queued[i].clock)
=============================================================================
