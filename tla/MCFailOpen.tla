----------------------------- MODULE MCFailOpen -----------------------------
(***************************************************************************)
(* Instances of FailOpen for TLC.  Dials of one kind are interchangeable;  *)
(* symmetry is used by the safety runs only.                               *)
(***************************************************************************)
EXTENDS FailOpen, TLC

Symmetry == Permutations(Streams) \cup Permutations(Packets)
=============================================================================
