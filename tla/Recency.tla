------------------------------ MODULE Recency ------------------------------
(***************************************************************************)
(* Recency lists: the container/list beside the map of the DNS cache, of   *)
(* the learning table and of the UDP session table.  A list is a sequence  *)
(* of keys, least recently used first; its element of a key is found       *)
(* through the map, so a key has at most one.                              *)
(***************************************************************************)
EXTENDS Integers, Sequences

\* The list without the elements of the keys in S: list.Remove for each of them.
Unlinked(list, S) ==
    LET kept[n \in 0..Len(list)] ==
            IF n = 0 THEN <<>>
            ELSE IF list[n] \in S THEN kept[n - 1]
            ELSE Append(kept[n - 1], list[n])
    IN  kept[Len(list)]

\* The key is the most recently used: list.MoveToBack, or list.PushBack if it has
\* no element yet.
MovedToBack(list, x) == Append(Unlinked(list, {x}), x)

\* The list has exactly one element for every key in S and no other.
OnceEach(list, S) ==
    /\ list \in Seq(S)
    /\ \A x \in S : \E n \in 1..Len(list) : list[n] = x
    /\ \A m, n \in 1..Len(list) : list[m] = list[n] => m = n
=============================================================================
