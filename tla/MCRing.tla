------------------------------- MODULE MCRing -------------------------------
(***************************************************************************)
(* Instances of Ring for TLC.  Nothing tells apart the nodes other than    *)
(* SelfId.                                                                 *)
(***************************************************************************)
EXTENDS Ring, TLC

Symmetry == Permutations(NodeIds \ {SelfId})
=============================================================================
