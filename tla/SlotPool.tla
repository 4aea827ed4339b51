------------------------------ MODULE SlotPool ------------------------------
(***************************************************************************)
(* What a buffered channel used as a semaphore promises: at most Size      *)
(* users hold a slot, a user takes one when there is one, and each slot is *)
(* given back by the user who holds it, once.  TcpRelay (the channel       *)
(* active) and Hy2Client (client.sem) are shown to implement it; their     *)
(* state is a count of slots, and they say nothing of who holds one.       *)
(***************************************************************************)
EXTENDS Naturals, FiniteSets

CONSTANTS Users, Size

VARIABLE holders

Init == holders = {}

Acquire(u) ==
    /\ u \notin holders /\ Cardinality(holders) < Size
    /\ holders' = holders \cup {u}

Release(u) == u \in holders /\ holders' = holders \ {u}

Next == \E u \in Users : Acquire(u) \/ Release(u)

Spec == Init /\ [][Next]_holders
=============================================================================
