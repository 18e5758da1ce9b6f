--------------------------- MODULE MessageChannel ---------------------------
(***************************************************************************)
(* What write_message and read_message promise to the two ends of a        *)
(* connection: the messages given to the one are handed out by the other,  *)
(* whole, in order and each once.  How many of them arrive before the      *)
(* connection is lost, or a message is refused, is not said here.          *)
(*                                                                         *)
(* MessageStream implements it; ClientSession, ServerSession and Session   *)
(* rely on it for their inboxes.                                           *)
(***************************************************************************)
EXTENDS Naturals, Sequences

CONSTANT Msgs   \* messages

VARIABLES
  sent,      \* messages given to write_message, in order
  received   \* messages handed out, in order

vars == <<sent, received>>

Init == sent = <<>> /\ received = <<>>

Send(m) ==
  /\ sent' = Append(sent, m)
  /\ UNCHANGED received

Receive ==
  /\ Len(received) < Len(sent)
  /\ received' = Append(received, sent[Len(received) + 1])
  /\ UNCHANGED sent

Next == Receive \/ \E m \in Msgs : Send(m)

Spec == Init /\ [][Next]_vars
=============================================================================
