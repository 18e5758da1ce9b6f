-------------------------- MODULE MCMessageStream ---------------------------
(***************************************************************************)
(* Instances of MessageStream for TLC: a message without a body, one of    *)
(* the largest size allowed, and one that is larger.                       *)
(***************************************************************************)
EXTENDS MessageStream, TLC

CONSTANTS empty, full, large

MCSizes == empty :> 0 @@ full :> 2 @@ large :> 3
=============================================================================
