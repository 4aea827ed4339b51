----------------------------- MODULE MCLanding -----------------------------
(* Instances of Landing for TLC. *)
EXTENDS Landing
=============================================================================
