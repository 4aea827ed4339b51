------------------------------- MODULE MCDns -------------------------------
(* Instances of Dns for TLC. *)
EXTENDS Dns, TLC

CONSTANTS u, f, c

\* A name without a rule, one with a rule for the proxy, a Chinese one.
ThreeNames == (u :> "default" @@ f :> "proxy" @@ c :> "direct")

\* No address; addresses in China, for longer than MaxTTL; one abroad, for no time.
SomeAnswers ==
    {[addresses |-> "none", ttl |-> 0], [addresses |-> "china", ttl |-> 4],
     [addresses |-> "abroad", ttl |-> 0]}

Symmetry == Permutations(Queries)
=============================================================================
