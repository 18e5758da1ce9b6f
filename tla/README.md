# TLA+ specifications of SOPMQ

SOPMQ is a distributed message queue: clients publish messages to named queues,
a ring of nodes keeps each queue on three replicas, and a publish is complete
when two of them have taken the message. This directory models the program as it
is written in `node/`, `shared/` and `client/cpp/`, checks the models with TLC,
and proves the main safety properties with TLAPS.

`PROJECT.json` lists every run, the source lines each definition stands for, the
findings, the hazards and the theorems.

## The system

| Part | State | Operations | Meets |
|---|---|---|---|
| client `cluster` | live and dead endpoints, backoff | connect, kill, return after backoff | clock, connects under way |
| client `session` | session state, handlers by message id | authenticate, publish_message, callbacks | lost connections, late or repeated answers |
| framing (`messageutil`) | bytes in the socket, read phase | write_message, the chain of reads | overlapping writes, broken streams |
| `server`, `connection_in` | accepts, connections, connection state | accept loop, handshake, publish | failing accepts, disconnects, the database driver's thread |
| publish handler, `quorum_logic` | nodes asked, succeeded, failed, clocks | run, node_failed, callbacks | answers inside a call or much later, refusals |
| `ring`, `node` | ranges, nodes, who is alive | add_node, find_quorum_for_operation | joins and failures over time, small rings |
| `failure_detector` | samples, time since the last heartbeat | heartbeat, interpret | silence, overflow |
| clocks (`vector_clock`, `node_clock`, `local_node_operations`) | a clock per node | advance, combine, compare | different quorums, restarts, unset values |
| `message_queue`, `queue_manager` | messages with and without a clock, index, size, TTL | enqueue, stamp, expire, get_queue | several threads, repeated ids, time |

A publish goes through them from top to bottom: the session writes a message,
the node's connection dispatches it, the handler asks the ring for three nodes
and runs the quorum logic on them, each node enqueues the message and answers
with its clocks, and the coordinator combines two answers into the clock the
message is to be stamped with. The last step, sending that stamp to the nodes, is
an empty function in the source; operations on remote nodes are an interface
with no implementation. Both are modelled from how they are called.

## Modules

| Module | Models | Correspondence |
|---|---|---|
| `VectorClock` | comparison and maximum of clocks | pure operators: `VCLess` is `operator<`, with its count of components; `VCMax` is `max` with the exception as `SameQuorum` |
| `PublishOrder` | clocks from publish to stamp | `view[n]` is what process n holds in its node objects, `InitViews[n]` what it may find there when it starts; `TakeMessage` is `send_proxy_publish`; `Combine` and `NotQueued` the callback of `handle_post_message`; `Restart` a new process |
| `QueueContract` | what a queue promises | abstract: an item is accepted or turned away, waits, is ordered, goes; no threads, locks, ids, clocks or time |
| `MessageQueue` | one queue | the collections as sets and a sequence; `enqueue` in four steps, as its TTL test is outside the lock; the other operations hold the lock and are one step |
| `QueueManager` | the queues of a node | `get_queue` in two steps under `_list_lock`, then the operation on the queue |
| `QuorumPublish` | one coordinator | `quorum_logic` as operators on a record; the local node answers inside the call, remote ones in `Callback` |
| `Ring` | the ring over time | the two maps, aliveness, the last quorum found |
| `FailureDetector` | one observed node | samples and elapsed time in ticks, the int of `std::accumulate` with its width |
| `MessageChannel` | what a connection promises its ends | abstract: messages are sent, and received whole, in order, each once; no bytes, reads or failures |
| `MessageStream` | one direction of a connection | units for type, size and pieces of a body; `async_write` in any number of parts |
| `ClientSession` | one client | handlers as sets of ids, one pending read, pending writes; the node is the environment |
| `ServerSession` | one connection of a node | the two connection states, the posts from the driver's thread, the life of the query state |
| `Session` | a client and the node's side of its connection | `ClientSession` with `ServerSession` in the place of the node it assumes; the order of the node's writes, and their callbacks, which run later |
| `Server` | the accept loop | pending and completed accepts, peers that come and go |
| `Cluster` | the client's endpoints | live list, dead set, backoff, connects under way |
| `Connecting` | a client that connects to a node | `Cluster` and `Server` with the resolve and connect of `connection_base` between them |

`MC*` modules give the constants that are not simple sets their values. Operators
marked "Mutant" are plausible mistakes, each used to see that a property can
fail: replacing the definition they follow by them makes TLC report a violation.

`MessageQueue` and `QueueManager` each have an `INSTANCE` of `QueueContract` with a
refinement mapping. In `MessageQueue` an item is a copy of a message (its serial
number), as ids may repeat: `Waiting` and `Ordered` are the copies in the two
collections, `Gone` those that left them or were refused; a copy inside `enqueue`
counts as new until the step that decides. In `QueueManager` an item is a message
together with its queue, and the sets of all queues are taken together.
The contract lets items go at any time. When they may is said elsewhere: by
`DroppedOnlyWhenDue` in `MessageQueue`, where `Gone` is whatever is in no other
place, and in `QueueManager` by the mapping itself, where `gone` is what the queues
recorded as dropped, so that a message lost in any other way breaks the refinement.

`MessageStream` has an `INSTANCE` of `MessageChannel` in which the bytes and the phases of
the read are hidden. The inboxes of `ClientSession`, `ServerSession` and `Session`, from
which whole messages are taken in order, rest on this refinement.

Each `*Proofs` module extends the module or modules it is about: `ClientProofs` is
about `ClientSession` and `Connecting`, `NodeProofs` about `PublishOrder` and
`FailureDetector`, `PublishProofs` about `QuorumPublish` and `QueueManager`. Modules
that are extended together have names of their own for the initial state, the
next-state relation and so on (`DetectorInit`, `ManagerNext`, `StreamSpec`).

## Runs

`TypeOK` (`DetectorTypeOK`, `ManagerTypeOK`...) documents the variables of a module. It
holds when it is added to the cfg of any run. It is a theorem for `PublishOrder`,
`QuorumPublish` and `MessageQueue`, and part of the inductive invariants of
`QueueManager`, `FailureDetector` and `MessageStream`.

Deadlock checking is on for `message_queue` and `connecting`, where some operation
is always possible. The other systems end when their bounded inputs are used up, or
may rest, and their cfg files switch it off.

* `publish_order`: a message published after another was stamped gets a greater
  clock (`RealTimeOrder`), over all pairs of replicas, with clocks advanced by
  other queues, answers that are not `QUEUED` and a restart; it is claimed for
  messages none of whose nodes has restarted. No line of the source sets the fields
  of a `node_clock`, so what a process starts with is a constant, `InitViews`. The
  run has values that satisfy `IdsAssigned` (a clock tells its three nodes apart) and
  `NoneAhead` (no process starts with a clock for another node that is ahead of the one
  that node starts with), among them processes that start with different clocks of
  their own and one that lacks the id of a node, whose answer does not combine with
  the others. Without either hypothesis the order is lost (see the deviations). It
  is a matter of two messages; clocks up to 3 let each pair of quorums occur in
  each order, with ticks for other queues where the quorums differ and after the
  restart.
* `publish_order_cycle`: the one run that is expected to fail. Three publishes
  that overlap get clocks on which `operator<` is not transitive, although
  `_queued_messages` is sorted by it.
* `message_queue`: two threads, ids used once. The size counter is exact, the index
  finds what is queued, the queue is sorted when the clocks can be, and nothing is
  dropped before a TTL that was asked for, except in the window before the first
  TTL is assigned (`TtlPending`), which the code leaves open. Three ids, three
  clocks of which two are equal in the order, two TTLs and ages to 3 give messages
  before, at and after their TTL in each position. The queue implements its
  contract: no copy is kept twice, ordered again, ordered before it waited or brought
  back. That none is lost is `DroppedOnlyWhenDue`.
* `queue_manager`: two threads, two queues, two messages, two rounds of expiry. The
  heap has one pointer for each queue, a stamp that was called after its message was
  enqueued finds it, every call returns, and the queues together implement the
  contract although each call looks its queue up under one lock and uses it under
  another. Two threads can race for a queue or a message; with the second message
  and queue they also race for different ones, and the second expiry meets what the
  first has left.
* `quorum_publish`: two publishes with every shape of quorum and answer. A
  message is stamped at most once and by two nodes; one refused for want of nodes
  is not stamped; no node is asked twice.
* `ring`: rings of up to five nodes on five keys. The two maps agree, the replicas
  of a key are the next nodes on the ring, a quorum has two distinct live nodes
  where the ring has three or more, a join moves at most one replica of a key, and
  quorums between two joins meet. With four nodes any two sets of replicas share
  two nodes, so it takes the fifth for a join to be able to move more; fewer nodes
  than keys leave gaps, and every position wraps around.
* `failure_detector`: three samples. A node that keeps its pace is up, only a
  heartbeat revives a node that was judged down, a silent one goes down.
* `message_stream`: messages of no, the largest and too large a size, from a
  sender that waits for each write. What is received is a prefix of what was sent,
  all of it arrives if the connection holds, and `on_read_error` is called only when
  the connection was lost or the next message is above `max_message_size`, which is then
  not dispatched (`ErrorsHaveCause`).
* `client_session`: three publishes, a node that may answer twice or stray, a
  connection that may be lost. A publish callback runs at most once, success is not
  followed or preceded by failure, and an answer always finds its handler.
* `server_session`: a client that sends any four messages. At most one read is
  pending per connection, a connection is never left open with nothing to wait
  for, the query's state is deleted exactly once and in the end, and a refused
  connection is closed.
* `session`: a client and the node's side of its connection, with every outcome of
  the lookup, two publishes and a connection that may be lost. Neither side takes the
  other to violate the protocol (`NoViolation`); a session is authenticated only if
  the node's one verdict was positive, and the node then reads what it publishes
  (`VerdictsAgree`: of the two verdicts the lookup of a missing or disabled user
  gives, the client acts on the first); authenticate calls back (`HandshakeEnds`). The
  stray and repeated messages of `client_session` and `server_session` do not occur
  here: the peer is the real one. Two publishes are enough for one to be written
  while the answer to the other is on its way.
* `connecting`: two connects through a cluster of two endpoints, of which one has a
  node. Endpoints are in exactly one collection and return only after their backoff,
  which doubles with each failure since they were last up (`fails` counts them); one
  accept is under way at any time; a connect ends with a session or an error,
  and a session is served, in whichever order the two sides learn of the connection,
  unless the client goes away or the server stops or ends. Two connects meet in the
  lists and in the accept loop; two failures, of one endpoint or of
  both, and one failing accept, let each fall before, between and after them, and make
  a backoff of two ticks, the largest time told apart. `kill_endpoint` has no caller in
  the source yet; here it may be called at any time.

### Deviations

Some comments and documents say more than the code keeps. Besides
`publish_order_cycle`, these statements are defined in the modules next to the
properties that hold, and no run lists them. Adding one to the cfg named, with the
change named, makes TLC show a behaviour of the code that breaks it.

| Definition | cfg | What happens |
|---|---|---|
| `RealTimeOrder` | `PublishOrder.cfg`, `InitViews <- MCUnset` | without ids (`node_clock.h`: "The node's unique identifier", which nothing assigns) `operator<` compares the wrong components |
| `RealTimeOrder` | `PublishOrder.cfg`, `InitViews <- MCAhead` | a process starts with a clock for another node that is ahead of it, and the later message gets the smaller clock |
| `OrderKeptAcrossRestart` | `PublishOrder.cfg` | no generation is kept, so a restart reverses the order of messages |
| `SizeExact` | `MessageQueue.cfg`, `Resend = TRUE` | a repeated id is counted twice (`SizeCoversHeld` still holds) |
| `IndexRefersToQueued` | `MessageQueue.cfg` | expired messages stay in the index |
| `ExpireLeavesNoneDue` | `MessageQueue.cfg` | messages past their TTL stay behind a younger one |
| `EmptyQueuesRemoved` | `QueueManager.cfg` | empty queues are not removed |
| `FailsOnlyWithoutQuorum` | `QuorumPublish.cfg` | the third node is never asked |
| `AnsweredAtMostOnce` | `QuorumPublish.cfg` | two refusals send two responses |
| `NullNeverCalled` | `QuorumPublish.cfg` | with one node, the function is called with a null node |
| `CombinesClockOfEverySuccess` | `QuorumPublish.cfg` | a node with an unusable clock counts as a success |
| `EveryPublishAnswered` | `QuorumPublish.cfg`, `FairSpec`, one message, no symmetry | a successful publish is never answered |
| `FirstTwoPresent` | `Ring.cfg` | in a ring of two nodes a null entry is among the first two |
| `SilentNodeGoesDown` | `FailureDetector.cfg`, `IntHalf = 8` | a silent node stays up when the sum overflows |
| `AliveAfterHeartbeat` | `FailureDetector.cfg` | a heartbeat does not end a forced failure |
| `ReceivedAsSent` | `MessageStream.cfg`, `OneAtATime = FALSE` | overlapping writes mix their bytes |
| `PublishCompletes` | `ClientSession.cfg`, `FairSpec`, `MayBreak` and `MayStray` `FALSE` | the callback of a second publish never runs |
| `ChallengeHandlerCleared` | `ClientSession.cfg` | the handler to be cleared stays |
| `AcknowledgedOnce` | `ServerSession.cfg` | an answer is acknowledged twice |
| `ClosedIsUnregistered` | `ServerSession.cfg` | a closed connection stays registered |
| `BackoffCapped` | `Connecting.cfg`, `MaxKills = 4` | the backoff passes its maximum |
| `ToleratesFaults` | `Connecting.cfg` | connect fails although another endpoint is reachable |

### Fairness

Only what the scheduling provides: a running io service runs its handlers
(`ServerSession`, `MessageStream`, `Session`, `Connecting`), the futures of the
database driver complete (`ServerSession`, `Session`), time passes
(`FailureDetector`), threads go on (`QueueManager`), the network carries what was
written and tells a side that waits when the connection is down (`Session`), the
system resolves, connects and accepts (`Connecting`). Where a statement needs a peer
that is not in the model, the assumption is that it answers what it was asked
(`FairSpec` of `ClientSession` and `QuorumPublish`, for two of the deviations);
`Session` assumes nothing of the kind, since the node's answers are its own steps.
All of it is weak fairness. Breaking connections, resets, failing accepts and
`expire_messages`, which nothing in the program calls, are never fair.

## Proofs

All for every value of the constants, under the assumptions in the modules.

* `NodeProofs`, of `PublishOrder`: `PublishOrderTypes` for whatever a process starts
  with, and `PublishedInOrder` under `IdsAssigned` and `NoneAhead`. Two quorums of
  three share a node. The invariant says what a node's reply was relative to the
  clock it holds now: a stamp's component at the shared node is below every reply
  that node gives later. The components that a process holds for other nodes are never
  written, so a reply has them as the process started (`View`, `Answer`), and by
  `NoneAhead` they are not ahead of those nodes (`OwnIsAhead`): they do not
  count against the order. Distinct ids are needed because `operator<` finds the
  component to compare with by its id; a stamp has those of its answers. The code
  provides neither hypothesis, and the theorem is false without either.
* `NodeProofs`, of `VectorClock`: `AnswersCombineInAnyOrder`, `CombinedIsNotBehind` and
  `ClocksCompareOneWay`, for clocks of the same three distinct nodes. The maximum of two answers
  does not depend on which came first, and is behind neither; `operator<` never holds
  both ways. Where the nodes are distinct `operator<` counts, for each side, the places
  at which it is the smaller, so that the two counts of `a < b` are those of `b < a`
  exchanged. It is not transitive (`publish_order_cycle`), so that no more of a strict
  weak order can be proved.
* `PublishProofs`, of `QuorumPublish`: `QuorumTypes`, `StampedOnce`,
  `UnavailableIsFinal`, `AskedOnce`. The invariant relates the counters of each publish: nodes asked are
  a prefix of the array, successes and failures are among them, and a stamp exists
  just when two successes do.
* `MessageQueueProofs`: `QueueTypes` and `SizeNeverShort` for any use by any number
  of threads; `SizeIsExact` and `IndexComplete` when ids are used once (`~Resend`).
  The invariant `QueueInv` gives each copy of a message a serial number and says
  that no two places hold the same one; from that the counter is the set of held
  serials, or of those and the repeated ones. `NothingDroppedEarly` is for any number
  of threads, and `QueueIsSorted` when `operator<` is a strict weak order on the clocks
  in use (`ClocksOrdered`). `TtlInv` says that a message is in the queue only once
  `_ttl_set` is true, and that `_ttl` is then the TTL of a message or is about to
  be. `QueueKeepsContract` is the refinement of `QueueContract`, for repeated ids too:
  by the serial numbers of `QueueInv` each step moves the copies it should and no
  other. The hypotheses of these theorems are needed: the deviations above show what
  happens with repeated ids, and `publish_order_cycle` that clocks may not be
  ordered.
* `PublishProofs`, of `QueueManager`: `QueueCreatedOnce`, `LateStampFinds` and
  `ManagerKeepsContract` for any threads, queues and messages. The invariant says
  that only the holder of `_list_lock` is between the two steps of `get_queue`, and that
  its queue is still missing then (`LockInv`), that calls under way are for different
  operations (`CallInv`), and that a message which was enqueued and not dropped is in
  the queue it is meant for, in one place of it (`PlaceInv`).
* `NodeProofs`, of `FailureDetector`: `PaceIsKept` and `HeartbeatRevives`. What
  `accumulate` computes is described by the sums of the prefixes of the window
  (`Sums`), which exist by induction on their length. If `e < t * x` for each of `n`
  samples `x` then `e * n < t * sum`, by the same induction, so silence that is short
  against each interval is short against their average. `PaceIsKept` assumes that
  `SampleSize * MaxInterval` fits an int: beyond that the sum may be negative. A node
  stays down while time passes or a failure is forced because the window, and with it
  the sum, whatever it is, stays the same; `HeartbeatRevives` needs no such hypothesis.
* `MessageStreamProofs`: `MessagesArriveAsSent`, for a sender that waits for each write
  (`OneAtATime`; without it the statement is false, as the deviations show). The units the reader has of its message, those in the
  socket and those still to be written are taken as one sequence, `Flow`: a write or a
  read moves units within it, a dispatch takes a message off its front, and a lost
  connection cuts its end. In `Flow` the units of a message follow one another, then
  come those of the next message sent (`Runs`); while the connection holds it ends
  with the last unit of the last message (`Whole`); and it begins with the first unit
  of the message that is to be dispatched next (`NextToArrive`). So the reader finds a
  type where it expects one, and the size it reads is that of the message. Three more
  results follow from `Flow`. `StreamIsChannel` is the refinement of `MessageChannel`: a
  step gives the sender's end a message, hands the next one to the reader's end, or is
  invisible. `ReadsStopForCause` (`ErrorsHaveCause`): the reader gives up only after the connection was
  lost or at a message above `max_message_size`, never because it took a piece of one
  message for a part of another, and it does not dispatch what it found too large. `QuietMeansDelivered`: while the connection is up, what is not being
  written, in the socket or half read has been dispatched; it is the safety half of
  `EveryMessageArrives`.
* `ClientProofs`, of `ClientSession`: `CallbackOnce`, `AuthenticatedIsFinal` and
  `AnswersHaveHandlers`, for any publishes and any number of responses. The handshake
  is a single token: a request being written, one the node has, or a reply on its way
  back (`TokenInv`). What the application was told follows from where the token is
  (`AuthInv`), and the handler for a reply is there as long as the token
  (`HandlerInv`); a publish callback has run only when nothing reads any more
  (`PublishInv`).
* `ClientProofs`, of `Connecting`: `EndpointsArePartitioned`, `BackoffIsKept` and
  `AcceptsOneByOne`, for any finite set of endpoints and any number of connects,
  failures and failing accepts. `ClusterInv` adds to the partition that every dead
  endpoint has a backoff, which is what `ready_for_retry` compares with, and `FailsInv`
  that after n failures it is 2^(n-1). The provers know nothing of powers:
  `DoubledAssumption` states the two facts about them that the proof uses, and TLC
  evaluates it; `AcceptInv`
  that a server that is not started has no accept to complete. `ConnectingKeepsServer` is
  the refinement of `Server` by the composition: what clients do to the node that they
  connect to are steps of `Server`'s peers.
* `ServerSessionProofs`: `OneReadAtATime`, `OpenIsServed` and `QueryStateFreedOnce`,
  for any number of messages. The right to read passes from the pending read to the
  lookup and, with its last verdict, back (`ReadInv`): only the last of the verdicts
  can be positive (`VerdictInv`), so that only it starts a read. The second verdict of a
  lookup that found no user, or failed, may be positive too, as in the code, which
  compares with an empty hash then.
* `SessionProofs`: `SidesExpectEachOther` and `SidesAgreeOnVerdict`, for any publishes
  and a connection that is lost at any time or not. Neither side is assumed to behave:
  each is its own module. How far the handshake is, each side knows from the ids it
  has given and the messages it has sent, and `HandshakeInv` says for each of these
  points what may be on its way: `NodeStage` and `InboxStage` for what the node writes
  and what it has still to read, `ClientStage` and `ClientInbox` for the client. The
  ids of the handshake are the same in every behaviour, so its messages are constants
  (`Challenge`, `AckYes`, `AckNo`), and the client acts on the verdict with id 2.
  `VerdictsLeft` bounds the verdicts that the driver's thread still owes: after a
  positive first verdict there is none. What the node keeps by itself is taken from
  `ServerSessionProofs`, whose invariant is instantiated for the node's half of the
  state. The promises of each side are then proved again in the composition, where the
  other side is no longer assumed: `SuccessIsFinalWithNode` and
  `PublishCallbackOnceWithNode` for the application, `NodeKeepsInSession` for the
  connection of the node. `Session` refines neither `ClientSession` nor `ServerSession` (a
  node may send two verdicts, which the node assumed by the one does not, and a client may
  answer before the callback of the node's write, which the client assumed by the other
  does not), so these do not follow from the theorems about the two alone; `Told` relates
  what the application was told to the handlers that are left and to the verdict on its
  way. `PositiveVerdictIsFinal` bounds the verdicts: at most two, and one if the first is
  positive.
* `RingProofs`: `MapsStayInverse`, from the checks of `add_node` for conflicts of
  id and range. `KeysArePlaced`: what `find_nodes_for_key` returns is expressed by
  least elements of sets of starts, which exist by well-founded induction, and then
  compared with the distance around the ring. `QuorumsAreUsable`: with three nodes or
  more the three replicas differ, and the loop of `find_quorum_for_operation` runs over
  three places, so that its result is given by cases. `JoinsMoveOneReplica`: a new
  start between two neighbours pushes one replica out. `QuorumsMeet`: what was granted
  to a key since the last join is among its three replicas.

Many leaves that need no arithmetic name the prover that proves them (`Zenon`, with more
time `ZenonT`): the other one first infers the types of everything in sight, which slows
down the rest of the module. For the same reason the long modules bring in a library of
theorems only just before the results that use it.

The inductive invariants of the message queue, the queue manager, the message stream
and the sessions were checked with TLC before they were proved.

Every safety invariant and action property that a passing run checks is proved, with the
hypotheses named above. Out of the prover's reach, and only model-checked, are the
liveness properties (`EveryMessageArrives`, `SilentNodeGoesDown`, `CallsReturn` and
the other properties with `~>` and `<>`), and anything about `ENABLED`.

## Bounds

Constants named `Max...` and `...Cap` bound counters; ages and times saturate at
their caps, which are above every threshold they are compared with. The widths of
the failure detector's int (`IntHalf`) and of the backoff (`MaxBackoff`, 60 in the
source) are scaled with the values they are compared with. Symmetry is used only
on runs of safety properties, over sets whose members nothing tells apart.

## Not modelled

* Contents of messages, challenges and hashes; wording of errors; logging.
* `peek`, `claim` and `next_expiry` of `message_queue`, which do not compile when
  they are instantiated.
* Gossip (an empty class), consuming from queues and remote node operations
  (declared, not implemented), settings, command lines, endpoint parsing,
  `create_user` and the set-up of the database driver.
* The lifetime of the connection state captured by the callbacks of a publish: only a
  remote node answers after the handler has returned, and there is no code for one.
* Writes of the node that overlap on one socket reach the client whole and in order in
  `Session`; what else they can do is in `MessageStream` (`OneAtATime = FALSE`).
* A peer that resets its connection between accept and handler makes
  `remote_endpoint()` throw; `Server` ends the process there, and the properties of
  `Connecting` speak of a process that runs.
* The copy of Google Test in the source tree, which is not part of the program, and
  the tests.

## Plan

Built so far: the modules above, in the order clocks, queue, quorum, ring, detector,
stream, sessions, cluster, manager, server, the contract of the queue and its two
refinements, the channel that the stream refines, and the compositions `Session` and
`Connecting`. What the code allows beyond that:

1. a composition of `Ring` and `PublishOrder`: the order of messages while nodes join,
   which `docs/Add Node.txt` sketches;
2. stamping at the nodes, once `do_stamp_message` has a body: then `PublishOrder` and
   `MessageQueue` can be composed, and the responses to a publish followed from the
   quorum to the client.
