--------------------------- MODULE QueueContract ----------------------------
(***************************************************************************)
(* What a queue promises, without threads, locks, ids, clocks or time:     *)
(* every item handed to it is accepted or turned away, waits for its       *)
(* stamp, is ordered by it, and goes.  No item goes back, none is in two   *)
(* places, and none is ordered before it waited.  When an item may go is   *)
(* not said here: it depends on time.                                      *)
(*                                                                         *)
(* MessageQueue (one queue in detail) and QueueManager (all queues of a    *)
(* node, each one as sets of messages) implement it.                       *)
(***************************************************************************)
CONSTANT Items   \* what producers hand to the queue

VARIABLES
  waiting,  \* accepted, without a stamp
  ordered,  \* stamped
  gone      \* expired or turned away

vars == <<waiting, ordered, gone>>

Init == waiting = {} /\ ordered = {} /\ gone = {}

New(x) == x \notin waiting \cup ordered \cup gone

Accept(x) ==
  /\ New(x)
  /\ waiting' = waiting \cup {x}
  /\ UNCHANGED <<ordered, gone>>

TurnAway(x) ==
  /\ New(x)
  /\ gone' = gone \cup {x}
  /\ UNCHANGED <<waiting, ordered>>

Order(x) ==
  /\ x \in waiting
  /\ waiting' = waiting \ {x}
  /\ ordered' = ordered \cup {x}
  /\ UNCHANGED gone

Expire(due) ==
  /\ waiting' = waiting \ due
  /\ ordered' = ordered \ due
  /\ gone' = gone \cup due

Next ==
  \/ \E x \in Items : Accept(x) \/ TurnAway(x) \/ Order(x)
  \/ \E due \in SUBSET (waiting \cup ordered) : Expire(due)

Spec == Init /\ [][Next]_vars
=============================================================================
