--------------------------- MODULE MCUdpSessions ----------------------------
(* Instances of UdpSessions for TLC. *)
EXTENDS UdpSessions, TLC

Symmetry == Permutations(Flows) \cup Permutations(Ids)
=============================================================================
