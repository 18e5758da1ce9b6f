--------------------------- MODULE QuorumPublish ---------------------------
(***************************************************************************)
(* The coordinator's side of PUBLISH: csauthenticated::handle_post_message *)
(* with quorum_logic<3, context> (node/src/quorum_logic.h).                *)
(*                                                                         *)
(* A publish asks the first two nodes of the array the ring returned, and  *)
(* counts the answers.  The io thread runs one handler at a time.  The     *)
(* local node answers inside the call (local_node_operations), so its      *)
(* answer is handled while run() or node_failed() is still going on; a     *)
(* remote node answers later, through the callback of inode_operations,    *)
(* whose remote implementation is not part of the source.                  *)
(***************************************************************************)
EXTENDS Integers, Sequences, FiniteSets

CONSTANTS
  Msgs,     \* messages published by clients
  Remote,   \* the other nodes
  Self,     \* the local node
  Nobody,   \* nullptr
  Quorums,  \* the arrays find_quorum_for_operation may return
  Answers   \* what a remote node may answer

RF == 3

(***************************************************************************)
(* An answer is QUEUED with a clock, of which only the node ids matter     *)
(* here (its layout); QUEUED with a clock of more than RF entries; another *)
(* status; or an error.                                                    *)
(***************************************************************************)
QueuedAnswer(layout) == [kind |-> "queued", layout |-> layout]
TooLong == [kind |-> "too long"]
Refused == [kind |-> "refused"]
Failure == [kind |-> "error"]

ASSUME QuorumPublishAssumption ==
  /\ Self \notin Remote /\ Nobody \notin Remote /\ Self # Nobody
  /\ Quorums \subseteq [1 .. RF -> Remote \cup {Self, Nobody}]
  /\ \A q \in Quorums : \A i, j \in 1 .. RF : i # j /\ q[i] = q[j] => q[i] = Nobody
  /\ \A q \in Quorums : q[1] # Nobody
  /\ \A a \in Answers : a.kind \in {"queued", "too long", "refused", "error"}

VARIABLES
  op,        \* op[m]: the quorum_logic object of the publish of m, or Idle
  answers,   \* answers[m]: the PublishResponse messages sent for m, all UNAVAILABLE
  stamps,    \* stamps[m]: the clocks do_stamp_message was called with for m
  asked,     \* history: the nodes the publish of m was sent to, in order
  crashed    \* the process ran into undefined behaviour

vars == <<op, answers, stamps, asked, crashed>>

Idle == [nodes |-> <<>>]

Init ==
  /\ op = [m \in Msgs |-> Idle]
  /\ answers = [m \in Msgs |-> 0]
  /\ stamps = [m \in Msgs |-> <<>>]
  /\ asked = [m \in Msgs |-> <<>>]
  /\ crashed = FALSE
-----------------------------------------------------------------------------
(***************************************************************************)
(* quorum_logic as operators on its object.  "failures" counts the calls   *)
(* of _fail_function, "called" the nodes _function was called with.        *)
(***************************************************************************)
NewLogic(q) ==
  [nodes |-> q, lastNode |-> 0, success |-> <<>>, failed |-> <<>>, clocks |-> <<>>,
   pending |-> {}, failures |-> 0, called |-> <<>>]

can_continue(o) ==
  /\ RF - Len(o.failed) > RF \div 2
  /\ o.lastNode + 1 < RF

operation_succeeded(o) == Len(o.success) > RF \div 2

\* Mutant: _lastNode is not incremented.
CallNextSame(o) ==
  LET n == o.nodes[o.lastNode + 1] IN
  [o EXCEPT !.called = Append(@, n), !.pending = IF n \in Remote THEN @ \cup {n} ELSE @]

\* _function(_all_nodes[_lastNode++]): the call on its own.
CallNext(o) ==
  LET n == o.nodes[o.lastNode + 1] IN
  [o EXCEPT !.lastNode = @ + 1, !.called = Append(@, n),
            !.pending = IF n \in Remote THEN @ \cup {n} ELSE @]

node_failed(o, n) ==
  LET f == [o EXCEPT !.failed = Append(@, n)] IN
  IF can_continue(f) THEN CallNext(f) ELSE [f EXCEPT !.failures = @ + 1]

(***************************************************************************)
(* The call with what happens inside it: the local node enqueues and       *)
(* answers at once.  It leaves the status of its response unset, which     *)
(* reads as NOTAUTH, so the callback counts it as failed.                  *)
(***************************************************************************)
CallNode(o) ==
  LET c == CallNext(o) IN
  IF o.nodes[o.lastNode + 1] = Self THEN node_failed(c, Self) ELSE c

\* Mutant: all three nodes are asked at once.
runAll(o) ==
  LET two == CallNode(CallNode(o)) IN
  IF two.lastNode < RF THEN CallNode(two) ELSE two

run(o) == CallNode(CallNode(o))

\* _function(nullptr) dereferences the null node.  Whatever the handler would
\* have done after that no longer counts: crashed disables every action.
NullCalled(o) == \E i \in 1 .. Len(o.called) : o.called[i] = Nobody

\* Store the object and what its handlers sent.
Update(m, o) ==
  /\ op' = [op EXCEPT ![m] = o]
  /\ asked' = [asked EXCEPT ![m] = o.called]
  /\ answers' = [answers EXCEPT ![m] = o.failures]
-----------------------------------------------------------------------------
(***************************************************************************)
(* handle_post_message.                                                    *)
(***************************************************************************)
HandlePost(m, q) ==
  /\ ~crashed /\ op[m] = Idle /\ answers[m] = 0
  /\ Update(m, run(NewLogic(q)))
  /\ crashed' = NullCalled(run(NewLogic(q)))
  /\ UNCHANGED stamps

\* find_quorum_for_operation threw unavailable_error.
HandlePostUnavailable(m) ==
  /\ ~crashed /\ op[m] = Idle /\ answers[m] = 0
  /\ answers' = [answers EXCEPT ![m] = 1]
  /\ UNCHANGED <<op, stamps, asked, crashed>>

\* Mutant: an answer may be delivered again.
AnsweredKept(o, n) == [o EXCEPT !.pending = @ \cup {n}]

Answered(o, n) == [o EXCEPT !.pending = @ \ {n}]

\* A status other than QUEUED, or an error that rethrow_error throws.
OnRefusal(m, n, a) ==
  /\ ~crashed /\ op[m] # Idle /\ n \in op[m].pending
  /\ a.kind \in {"refused", "error"}
  /\ Update(m, node_failed(Answered(op[m], n), n))
  /\ crashed' = NullCalled(op'[m])
  /\ UNCHANGED stamps

\* QUEUED, but the conversion of the clock throws comparison_error: the node
\* has been counted as a success and is now counted as failed as well.
OnClockTooLong(m, n, a) ==
  /\ ~crashed /\ op[m] # Idle /\ n \in op[m].pending
  /\ a.kind = "too long"
  /\ Update(m, node_failed([Answered(op[m], n) EXCEPT !.success = Append(@, n)], n))
  /\ crashed' = NullCalled(op'[m])
  /\ UNCHANGED stamps

\* QUEUED: with a majority the first two clocks are combined.  max() throws
\* comparison_error if they name different nodes; reading clocks[1] when there
\* is one clock only is undefined.
OnQueued(m, n, a) ==
  /\ ~crashed /\ op[m] # Idle /\ n \in op[m].pending
  /\ a.kind = "queued"
  /\ LET o == [Answered(op[m], n) EXCEPT !.success = Append(@, n),
                                         !.clocks = Append(@, a.layout)]
     IN  \/ /\ ~operation_succeeded(o)
            /\ Update(m, o)
            /\ UNCHANGED <<stamps, crashed>>
         \/ /\ operation_succeeded(o) /\ Len(o.clocks) < 2
            /\ Update(m, o)
            /\ crashed' = TRUE /\ UNCHANGED stamps
         \/ /\ operation_succeeded(o) /\ Len(o.clocks) >= 2
            /\ o.clocks[1] = o.clocks[2]
            /\ Update(m, o)
            /\ stamps' = [stamps EXCEPT ![m] = Append(@, o.clocks[1])]
            /\ UNCHANGED crashed
         \/ /\ operation_succeeded(o) /\ Len(o.clocks) >= 2
            /\ o.clocks[1] # o.clocks[2]
            /\ Update(m, node_failed(o, n))
            /\ crashed' = NullCalled(op'[m])
            /\ UNCHANGED stamps

Callback(m, n, a) == OnRefusal(m, n, a) \/ OnClockTooLong(m, n, a) \/ OnQueued(m, n, a)

Next ==
  \/ \E m \in Msgs : HandlePostUnavailable(m) \/ \E q \in Quorums : HandlePost(m, q)
  \/ \E m \in Msgs, n \in Remote, a \in Answers : Callback(m, n, a)

Spec == Init /\ [][Next]_vars

\* Every remote node that was asked answers in the end.
FairSpec == Spec /\ \A m \in Msgs, n \in Remote :
                      WF_vars(\E a \in Answers : Callback(m, n, a))
-----------------------------------------------------------------------------
Nodes == Remote \cup {Self, Nobody}
Layouts == {a.layout : a \in {b \in Answers : b.kind = "queued"}}

Logic ==
  [nodes : [1 .. RF -> Nodes], lastNode : 0 .. RF, success : Seq(Remote),
   failed : Seq(Remote \cup {Self}), clocks : Seq(Layouts),
   pending : SUBSET Remote, failures : Nat, called : Seq(Nodes)]

\* The types of the counters and node lists of the quorum logic, and the answers.
TypeOK ==
  /\ op \in [Msgs -> Logic \cup {Idle}]
  /\ answers \in [Msgs -> Nat]
  /\ stamps \in [Msgs -> Seq(Layouts)]
  /\ asked \in [Msgs -> Seq(Nodes)]
  /\ crashed \in BOOLEAN

(***************************************************************************)
(* do_stamp_message is called at most once for a publish, and only when    *)
(* two different nodes have queued the message, however the answers of the *)
(* nodes interleave and whatever fails.                                    *)
(***************************************************************************)
StampedOnceByTwoNodes ==
  \A m \in Msgs : stamps[m] # <<>> =>
    /\ Len(stamps[m]) = 1
    /\ \E i, j \in 1 .. Len(op[m].success) : op[m].success[i] # op[m].success[j]

(***************************************************************************)
(* A message its client was told is UNAVAILABLE is not stamped, before or  *)
(* after: the failure path of quorum_logic and its success path exclude    *)
(* each other, although nothing stops late answers from being counted.     *)
(***************************************************************************)
UnavailableNotStamped == \A m \in Msgs : answers[m] > 0 => stamps[m] = <<>>

(***************************************************************************)
(* No node is sent the same message twice: run() and node_failed(), which  *)
(* may run inside run(), share _lastNode without asking a node again.      *)
(***************************************************************************)
NoNodeAskedTwice ==
  \A m \in Msgs : \A i, j \in 1 .. Len(asked[m]) :
    i # j /\ asked[m][i] = asked[m][j] => asked[m][i] = Nobody

(***************************************************************************)
(* "A function to be called when a quorum can not be reached": the client  *)
(* is told UNAVAILABLE only if the nodes that succeeded, have not answered *)
(* or have not been asked are fewer than two.                              *)
(* The code does not keep this statement (README, Deviations).             *)
(***************************************************************************)
FailsOnlyWithoutQuorum ==
  \A m \in Msgs : op[m] # Idle /\ answers[m] > 0 =>
    LET o == op[m]
        untried == {o.nodes[i] : i \in o.lastNode + 1 .. RF} \ {Nobody}
    IN  Len(o.success) + Cardinality(o.pending \cup untried) < 2

(***************************************************************************)
(* "for testing purposes, we allow the quorum to be just a single node":   *)
(* with the array such a ring returns, run() calls no null node.           *)
(* The code does not keep this statement (README, Deviations).             *)
(***************************************************************************)
NullNeverCalled ==
  \A m \in Msgs : \A i \in 1 .. Len(asked[m]) : asked[m][i] # Nobody

(***************************************************************************)
(* "we have the result from all nodes, combine and send the message        *)
(* stamp": where the handler combines, there is a clock of every node that *)
(* was counted as a success.                                               *)
(* The code does not keep this statement (README, Deviations).             *)
(***************************************************************************)
CombinesClockOfEverySuccess ==
  [][\A m \in Msgs, n \in Remote, a \in Answers :
       OnQueued(m, n, a) /\ operation_succeeded(op'[m])
         => Len(op'[m].clocks) = Len(op'[m].success)]_vars

(***************************************************************************)
(* docs/Basic Operations.txt, PublishMessage: "Returns:                    *)
(* PublishResponseMessage".  Every publish is answered in the end, if the  *)
(* remote nodes answer.                                                    *)
(* The code does not keep this statement (README, Deviations).             *)
(***************************************************************************)
EveryPublishAnswered == \A m \in Msgs : op[m] # Idle ~> answers[m] > 0

(***************************************************************************)
(* docs/Basic Operations.txt, PublishMessage: "Returns:                    *)
(* PublishResponseMessage".  A publish gets one response: the function for *)
(* a quorum that cannot be reached is called once.                         *)
(* The code does not keep this statement (README, Deviations).             *)
(***************************************************************************)
AnsweredAtMostOnce == \A m \in Msgs : answers[m] <= 1
=============================================================================
