----------------------------- MODULE MCFirewall -----------------------------
(* Instances of Firewall for TLC. *)
EXTENDS Firewall, TLC

CONSTANTS a, b, cn, cdn, w1, w2

Answer(d, act, S) == [domain |-> d, action |-> act, ips |-> S]

\* A domestic domain and a proxied one that share an address; the first answers
\* with two, so that one batch moves both.
Shared == {Answer(cn, "direct", {a, b}), Answer(cdn, "proxy", {a})}

\* Workers are alike.
Alike == Permutations(Workers)

=============================================================================
