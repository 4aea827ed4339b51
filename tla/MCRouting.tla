----------------------------- MODULE MCRouting -----------------------------
(* Instances of Routing for TLC; labels are interchangeable. *)
EXTENDS Routing, TLC

Symmetry == Permutations(Labels)
=============================================================================
