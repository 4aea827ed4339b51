--------------------------- MODULE LearningTable ---------------------------
(***************************************************************************)
(* The table of learned relations (internal/policy/learning.go): which      *)
(* IPv4 address was answered for which domain, and whether that domain      *)
(* goes direct or through the proxy.  The module holds the table's state    *)
(* and its operations; Firewall.tla gives them callers.                     *)
(*                                                                          *)
(* An expiry is kept as the time left, never below 0 (an expired item is    *)
(* not distinguished from one that expired earlier: both are due).  The     *)
(* expiry heap is a set of <<key, time left>>: its order decides only       *)
(* which due item is popped first, and a second equal item finds its entry  *)
(* gone.  byIP is the entries grouped by address and is not kept apart.     *)
(***************************************************************************)
EXTENDS Recency, FiniteSets

CONSTANTS
    Domains,    \* normalised domain names
    IPs,        \* IPv4 addresses
    Capacity,   \* capacity of the table
    TTLs        \* times to live a DNS answer may carry, in ticks

ASSUME LearningAssumption ==
    /\ Capacity \in Nat \ {0}
    /\ TTLs \subseteq Nat \ {0}

VARIABLES
    entries,    \* keys in the table
    left,       \* left[k]: time left of entry k; 0 for a key not in the table
    heap,       \* the expiry heap: <<key, time left>>
    lru         \* keys, least recently observed first

tableVars == <<entries, left, heap, lru>>

Actions == {"direct", "proxy"}
Keys == [domain : Domains, action : Actions, ip : IPs]

TableTypeOK ==
    /\ entries \subseteq Keys
    /\ left \in [Keys -> Nat]
    /\ heap \subseteq Keys \X Nat
    /\ lru \in Seq(Keys)

TableInit ==
    /\ entries = {}
    /\ left = [k \in Keys |-> 0]
    /\ heap = {}
    /\ lru = <<>>

-----------------------------------------------------------------------------

Less(n) == IF n = 0 THEN 0 ELSE n - 1

\* One unit of time passes for every expiry in the table.
TableElapse ==
    /\ left' = [k \in Keys |-> Less(left[k])]
    /\ heap' = {<<x[1], Less(x[2])>> : x \in heap}
    /\ UNCHANGED <<entries, lru>>

\* A variant of Evicted: the victim stays when the table holds exactly its capacity.
EvictedLate ==
    IF Cardinality(entries) > Capacity THEN {Head(lru)} ELSE {}

\* The entry that makes room for a new key: the least recently observed.
Evicted ==
    IF Cardinality(entries) >= Capacity THEN {Head(lru)} ELSE {}

\* A variant of Pushed: a refreshed entry gets no heap item of its own.
PushedOnInsert(k, ttl) == IF k \in entries THEN {} ELSE {<<k, ttl>>}

\* The heap item for an observation: pushed for a new entry and for a refreshed one.
Pushed(k, ttl) == {<<k, ttl>>}

\* One iteration of Observe's loop over the addresses of an answer.
ObserveIP(k, ttl) ==
    LET gone == IF k \in entries THEN {} ELSE Evicted
    IN /\ entries' = (entries \ gone) \cup {k}
       /\ left' = [x \in Keys |-> IF x = k THEN ttl
                                  ELSE IF x \in gone THEN 0 ELSE left[x]]
       /\ lru' = MovedToBack(Unlinked(lru, gone), k)
       /\ heap' = heap \cup Pushed(k, ttl)

\* The entries expireLocked removes: those a due item of the heap still speaks for.
Due == {k \in entries : <<k, 0>> \in heap /\ left[k] = 0}

\* expireLocked: pops every due item and removes the entries that are really due.
ExpireLocked ==
    /\ entries' = entries \ Due
    /\ lru' = Unlinked(lru, Due)
    /\ heap' = {x \in heap : x[2] # 0}
    /\ UNCHANGED left

\* lookupLocked over a set of entries: the relations that exist for an address.
Related(table, ip, action) == \E k \in table : k.ip = ip /\ k.action = action

=============================================================================
