--------------------------- MODULE MessageStream ----------------------------
(***************************************************************************)
(* Messages over one direction of a TCP connection: write_message and      *)
(* read_message (shared/src/messageutil.cpp) on asio's async_write and     *)
(* async_read, with the reads of netutil.cpp.                              *)
(*                                                                         *)
(* A message is its type, its size and its body; the socket carries units: *)
(* unit <<m, 0>> is the type of m, <<m, 1>> its size, <<m, 1 + k>> the     *)
(* k-th piece of its body.  async_write hands a message to the socket in   *)
(* as many calls of async_write_some as the socket makes it; each of them  *)
(* waits its turn behind those that were started before it.                *)
(***************************************************************************)
EXTENDS Integers, Sequences, FiniteSets, Functions

CONSTANTS
  Msgs,        \* messages, each sent at most once
  BodySize,    \* BodySize[m]: pieces of the body of m
  MaxSize,     \* max_message_size
  OneAtATime,  \* whether the sender waits for a write to complete before the next
  Garbage      \* what is dispatched when the units of no message were read

ASSUME MessageStreamAssumption ==
  /\ BodySize \in [Msgs -> Nat] /\ MaxSize \in Nat
  /\ OneAtATime \in BOOLEAN
  /\ Garbage \notin Msgs

VARIABLES
  sent,        \* messages given to write_message, in order
  writes,      \* the queue of async_write_some calls: the units left of each message
  stream,      \* units in the socket
  written,     \* messages whose status callback reported success
  phase,       \* what the reader waits for
  taken,       \* units of the message being read
  need,        \* pieces of its body
  received,    \* what was dispatched, in order
  statuses,    \* calls of the status callbacks of the reads, in order
  broken       \* the connection was lost

streamVars == <<sent, writes, stream, written, phase, taken, need, received, statuses, broken>>
writer == <<sent, writes, written>>
reader == <<phase, taken, need, received, statuses>>

Units(m) == [i \in 1 .. BodySize[m] + 2 |-> <<m, i - 1>>]

StreamInit ==
  /\ sent = <<>> /\ writes = <<>> /\ stream = <<>> /\ written = {}
  /\ phase = "idle" /\ taken = <<>> /\ need = 0
  /\ received = <<>> /\ statuses = <<>>
  /\ broken = FALSE
-----------------------------------------------------------------------------
(***************************************************************************)
(* The writer.                                                             *)
(***************************************************************************)
write_message(m) ==
  /\ m \notin Range(sent)
  /\ OneAtATime => writes = <<>>
  /\ sent' = Append(sent, m)
  /\ writes' = Append(writes, Units(m))
  /\ UNCHANGED <<stream, written, broken>> /\ UNCHANGED reader

\* Mutant: async_write_some in place of async_write.
WriteSomeOnly ==
  /\ writes # <<>> /\ ~broken
  /\ \E n \in 1 .. Len(Head(writes)) : stream' = stream \o SubSeq(Head(writes), 1, n)
  /\ writes' = Tail(writes)
  /\ written' = written \cup {Head(Head(writes))[1]}
  /\ UNCHANGED <<sent, broken>> /\ UNCHANGED reader

\* The first async_write_some takes n units.  What is left is written by another
\* one, which goes to the end of the queue; after the last, after_write_message.
WriteSome ==
  /\ writes # <<>> /\ ~broken
  /\ \E n \in 1 .. Len(Head(writes)) :
       LET left == SubSeq(Head(writes), n + 1, Len(Head(writes))) IN
       /\ stream' = stream \o SubSeq(Head(writes), 1, n)
       /\ writes' = IF left = <<>> THEN Tail(writes) ELSE Append(Tail(writes), left)
       /\ written' = IF left = <<>> THEN written \cup {Head(Head(writes))[1]} ELSE written
  /\ UNCHANGED <<sent, broken>> /\ UNCHANGED reader

\* after_write_message with an error.
WriteFails ==
  /\ writes # <<>> /\ broken
  /\ writes' = Tail(writes)
  /\ UNCHANGED <<sent, written, stream, broken>> /\ UNCHANGED reader

(***************************************************************************)
(* The reader.  A unit that is not the one expected decodes to anything.   *)
(***************************************************************************)
read_message ==
  /\ phase = "idle"
  /\ phase' = "type" /\ taken' = <<>>
  /\ UNCHANGED <<need, received, statuses, stream, broken>> /\ UNCHANGED writer

\* on_read_error; the caller reads no more.
ReadError ==
  /\ phase' = "stopped"
  /\ statuses' = Append(statuses, "error")

after_read_message_type(valid) ==
  /\ phase = "type" /\ stream # <<>>
  /\ Head(stream)[2] = 0 => valid
  /\ stream' = Tail(stream) /\ taken' = <<Head(stream)>>
  /\ IF valid THEN phase' = "size" /\ UNCHANGED statuses ELSE ReadError
  /\ UNCHANGED <<need, received, broken>> /\ UNCHANGED writer

\* Mutant: a message of exactly max_message_size is refused.
SizeBelowMax(size) ==
  /\ phase = "size" /\ stream # <<>>
  /\ Head(stream)[2] = 1 => size = BodySize[Head(stream)[1]]
  /\ stream' = Tail(stream) /\ taken' = Append(taken, Head(stream))
  /\ need' = size
  /\ IF size >= MaxSize THEN ReadError ELSE phase' = "content" /\ UNCHANGED statuses
  /\ UNCHANGED <<received, broken>> /\ UNCHANGED writer

\* Mutant: no return after on_read_error.
SizeNoReturn(size) ==
  /\ phase = "size" /\ stream # <<>>
  /\ Head(stream)[2] = 1 => size = BodySize[Head(stream)[1]]
  /\ stream' = Tail(stream) /\ taken' = Append(taken, Head(stream))
  /\ need' = size /\ phase' = "content"
  /\ statuses' = IF size > MaxSize THEN Append(statuses, "error") ELSE statuses
  /\ UNCHANGED <<received, broken>> /\ UNCHANGED writer

after_read_message_size(size) ==
  /\ phase = "size" /\ stream # <<>>
  /\ Head(stream)[2] = 1 => size = BodySize[Head(stream)[1]]
  /\ stream' = Tail(stream) /\ taken' = Append(taken, Head(stream))
  /\ need' = size
  /\ IF size > MaxSize THEN ReadError ELSE phase' = "content" /\ UNCHANGED statuses
  /\ UNCHANGED <<received, broken>> /\ UNCHANGED writer

\* switch_dispatch and template_dispatch.
after_read_message_content(parses) ==
  /\ phase = "content" /\ Len(stream) >= need
  /\ LET all == taken \o SubSeq(stream, 1, need)
         m == Head(all)[1]
     IN  /\ all = Units(m) => parses
         /\ IF parses
            THEN /\ received' = Append(received, IF all = Units(m) THEN m ELSE Garbage)
                 /\ statuses' = Append(statuses, "success")
                 /\ phase' = "idle"
            ELSE ReadError /\ UNCHANGED received
  /\ stream' = SubSeq(stream, need + 1, Len(stream))
  /\ UNCHANGED <<taken, need, broken>> /\ UNCHANGED writer

ReadFails ==
  /\ phase \in {"type", "size", "content"} /\ broken
  /\ ReadError
  /\ UNCHANGED <<taken, need, received, stream, broken>> /\ UNCHANGED writer

\* The connection is lost, with what is in it.
Disconnected ==
  /\ ~broken
  /\ broken' = TRUE
  /\ \E n \in 0 .. Len(stream) : stream' = SubSeq(stream, 1, n)
  /\ UNCHANGED writer /\ UNCHANGED reader

Sizes == 0 .. MaxSize + 1 \cup {BodySize[m] : m \in Msgs}

Write == WriteSome \/ WriteFails

Read ==
  \/ read_message
  \/ ReadFails
  \/ \E ok \in BOOLEAN : after_read_message_type(ok) \/ after_read_message_content(ok)
  \/ \E size \in Sizes : after_read_message_size(size)

StreamNext == (\E m \in Msgs : write_message(m)) \/ Write \/ Read \/ Disconnected

StreamSpec == StreamInit /\ [][StreamNext]_streamVars

\* The io services of both ends keep running.
StreamFairSpec == StreamSpec /\ WF_streamVars(Write) /\ WF_streamVars(Read)
-----------------------------------------------------------------------------
\* The bytes in the socket, and what is left of a write and a read, are hidden.
Channel == INSTANCE MessageChannel

(***************************************************************************)
(* With a sender that waits for each write, the framing of messages is     *)
(* invisible: the ends of the connection see a channel of whole messages.  *)
(***************************************************************************)
ImplementsChannel == Channel!Spec

\* The types of the bytes under way, the read phase and what was reported.
StreamTypeOK ==
  /\ sent \in Seq(Msgs) /\ written \subseteq Msgs
  /\ writes \in Seq(Seq(Msgs \X Nat)) /\ stream \in Seq(Msgs \X Nat)
  /\ phase \in {"idle", "type", "size", "content", "stopped"}
  /\ taken \in Seq(Msgs \X Nat) /\ need \in Nat
  /\ received \in Seq(Msgs \cup {Garbage})
  /\ statuses \in Seq({"success", "error"})
  /\ broken \in BOOLEAN

(***************************************************************************)
(* "Writes a message to the wire" / "Reads an unknown message type from    *)
(* the wire": what is dispatched is a prefix of what was written, whole    *)
(* messages in the order of the calls of write_message.                    *)
(***************************************************************************)
ReceivedAsSent ==
  Len(received) <= Len(sent) /\ \A i \in 1 .. Len(received) : received[i] = sent[i]

\* The message that is next to be dispatched is larger than max_message_size.
NextTooLarge ==
  /\ Len(received) + 1 \in 1 .. Len(sent)
  /\ BodySize[sent[Len(received) + 1]] > MaxSize

(***************************************************************************)
(* With a sender that waits for each write, on_read_error is called only   *)
(* after the connection was lost or for a message larger than              *)
(* max_message_size, which is then not dispatched: however the messages    *)
(* were cut, no piece of one is taken for the type, the size or the body   *)
(* of another, and no read goes on with a size that it refused.            *)
(***************************************************************************)
ErrorsHaveCause == "error" \in Range(statuses) => broken \/ NextTooLarge

(***************************************************************************)
(* A message that is not larger than max_message_size, nor behind one that *)
(* is, is dispatched in the end unless the connection is lost.             *)
(***************************************************************************)
EveryMessageArrives ==
  \A i \in 1 .. Cardinality(Msgs) :
    (/\ Len(sent) >= i
     /\ \A j \in 1 .. i : BodySize[sent[j]] <= MaxSize)
      ~> (Len(received) >= i \/ broken)
=============================================================================
