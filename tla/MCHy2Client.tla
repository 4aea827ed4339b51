---------------------------- MODULE MCHy2Client -----------------------------
(* Instances of Hy2Client for TLC. *)
EXTENDS Hy2Client, TLC

Symmetry == Permutations(Ops)
=============================================================================
