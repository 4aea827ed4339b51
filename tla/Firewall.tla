------------------------------ MODULE Firewall ------------------------------
(***************************************************************************)
(* Learning from DNS answers and steering the kernel with what was learned: *)
(* firewall.Learner (internal/firewall/learner.go) called by the DNS        *)
(* server's concurrent queries, over the learning table and over            *)
(* NftSetClient.Replace (internal/firewall/nft_linux.go), which moves       *)
(* addresses between the nftables sets direct4 and inspect4.                *)
(*                                                                          *)
(* A worker is a goroutine in Learner.Observe.  table.Observe holds the     *)
(* table's mutex over its loop, each Lookup takes it again, and Replace     *)
(* runs under the client's own mutex: three separate critical sections.     *)
(* The kernel (external) applies a batch as a whole or not at all: it       *)
(* refuses one that deletes an element the set does not hold.  Its elements *)
(* are permanent: the client's sets lack HasTimeout, so the library does    *)
(* not send the Timeout that Replace gives an element.                      *)
(*                                                                          *)
(* The process may end and start again.  procd starts a crashed core over   *)
(* the table the last one left; start and reload make the table anew.       *)
(***************************************************************************)
EXTENDS LearningTable

CONSTANTS
    Workers,        \* concurrent calls of Learner.Observe
    Observations,   \* what DNS may answer: [domain, action, ips]
    TimePasses,     \* whether time passes during the run
    NetlinkFails,   \* whether the kernel may refuse a batch for its own reasons
    Restarts        \* whether the process may end and start again

ASSUME FirewallAssumption ==
    /\ Observations # {}
    /\ Observations \subseteq [domain : Domains, action : Actions, ips : (SUBSET IPs) \ {{}}]
    /\ TimePasses \in BOOLEAN
    /\ NetlinkFails \in BOOLEAN
    /\ Restarts \in BOOLEAN

VARIABLES
    stage,      \* stage[w]: where worker w is
    obs,        \* obs[w]: the observation it carries
    ttl,        \* ttl[w]: the life of what it observes
    todo,       \* todo[w]: addresses its current loop has still to visit
    updates,    \* updates[w]: the updates reconcile has collected
    states,     \* NftSetClient.states: the set the client believes an address is in
    direct4,    \* the addresses in the kernel's set direct4
    inspect4,   \* the addresses in the kernel's set inspect4
    refused,    \* history: the addresses of the batches this process had refused
    inherited   \* history: the addresses it found in the sets when it started

workerVars == <<stage, obs, ttl, todo, updates>>
nftVars == <<states, direct4, inspect4, refused, inherited>>
vars == <<tableVars, workerVars, nftVars>>

SetStates == {"none", "direct", "inspect"}

\* Every variable holds a value of its type.
TypeOK ==
    /\ TableTypeOK
    /\ stage \in [Workers -> {"idle", "observe", "lookup", "replace"}]
    /\ obs \in [Workers -> Observations]
    /\ ttl \in [Workers -> Nat]
    /\ todo \in [Workers -> SUBSET IPs]
    /\ updates \in [Workers -> SUBSET (IPs \X SetStates)]
    /\ states \in [IPs -> SetStates]
    /\ direct4 \subseteq IPs
    /\ inspect4 \subseteq IPs
    /\ refused \subseteq IPs
    /\ inherited \subseteq IPs

\* What obs holds of a worker that carries nothing.
AnyObservation == CHOOSE o \in Observations : TRUE

Init ==
    /\ TableInit
    /\ stage = [w \in Workers |-> "idle"]
    /\ obs = [w \in Workers |-> AnyObservation]
    /\ ttl = [w \in Workers |-> 0]
    /\ todo = [w \in Workers |-> {}]
    /\ updates = [w \in Workers |-> {}]
    /\ states = [ip \in IPs |-> "none"]
    /\ direct4 = {} /\ inspect4 = {}
    /\ refused = {} /\ inherited = {}

-----------------------------------------------------------------------------
(* Learner.Observe *)

\* The table's mutex is free: no worker is inside table.Observe's loop.
TableUnlocked == \A w \in Workers : stage[w] # "observe"

\* A worker enters table.Observe with a DNS answer and takes the mutex.
Observe(w, o, t) ==
    /\ stage[w] = "idle" /\ TableUnlocked
    /\ stage' = [stage EXCEPT ![w] = "observe"]
    /\ obs' = [obs EXCEPT ![w] = o]
    /\ ttl' = [ttl EXCEPT ![w] = t]
    /\ todo' = [todo EXCEPT ![w] = o.ips]
    /\ UNCHANGED <<tableVars, updates, nftVars>>

\* The loop visits one address; after the last one the mutex is released and
\* reconcile starts over the same addresses.
ObserveStep(w, ip) ==
    /\ stage[w] = "observe" /\ ip \in todo[w]
    /\ ObserveIP([domain |-> obs[w].domain, action |-> obs[w].action, ip |-> ip], ttl[w])
    /\ LET last == todo[w] = {ip}
       IN /\ todo' = [todo EXCEPT ![w] = IF last THEN obs[w].ips ELSE @ \ {ip}]
          /\ stage' = [stage EXCEPT ![w] = IF last THEN "lookup" ELSE @]
    /\ UNCHANGED <<obs, ttl, updates, nftVars>>

\* The set reconcile wants an address in, from the relations the table has for it.
Wanted(table, ip) ==
    CASE Related(table, ip, "direct") /\ Related(table, ip, "proxy") -> "inspect"
      [] Related(table, ip, "direct") /\ ~Related(table, ip, "proxy") -> "direct"
      [] OTHER -> "none"

\* reconcile looks one address up (which expires what is due) and notes its update.
Lookup(w, ip) ==
    /\ stage[w] = "lookup" /\ ip \in todo[w] /\ TableUnlocked
    /\ ExpireLocked
    /\ updates' = [updates EXCEPT ![w] = @ \cup {<<ip, Wanted(entries', ip)>>}]
    /\ todo' = [todo EXCEPT ![w] = @ \ {ip}]
    /\ stage' = [stage EXCEPT ![w] = IF todo[w] = {ip} THEN "replace" ELSE @]
    /\ UNCHANGED <<obs, ttl, nftVars>>

-----------------------------------------------------------------------------
(* NftSetClient.Replace *)

Touched(w) == {u[1] : u \in updates[w]}
To(w, set) == {u[1] : u \in {v \in updates[w] : v[2] = set}}

\* The kernel accepts a batch only if every element it deletes is in its set.
BatchAccepted(w) ==
    \A ip \in Touched(w) : /\ states[ip] = "direct" => ip \in direct4
                           /\ states[ip] = "inspect" => ip \in inspect4

\* A variant of Deleted: an address is added to its new set and stays in the old one.
DeletedNever(w, set) == {}

\* The addresses whose element the batch deletes from a set, by the client's states.
Deleted(w, set) == {ip \in Touched(w) : states[ip] = set}

\* A set after the batch: deletions first, then additions.
AfterBatch(w, set, elements) == (elements \ Deleted(w, set)) \cup To(w, set)

\* The call returns, with or without an error: learn drops the error.
Return(w) ==
    /\ stage' = [stage EXCEPT ![w] = "idle"]
    /\ todo' = [todo EXCEPT ![w] = {}]
    /\ updates' = [updates EXCEPT ![w] = {}]
    /\ obs' = [obs EXCEPT ![w] = AnyObservation]
    /\ ttl' = [ttl EXCEPT ![w] = 0]
    /\ UNCHANGED tableVars

\* The client's states take every update of the batch before the batch is sent.
NoteStates(w) ==
    states' = [ip \in IPs |-> IF ip \in To(w, "direct") THEN "direct"
                              ELSE IF ip \in To(w, "inspect") THEN "inspect"
                              ELSE IF ip \in To(w, "none") THEN "none" ELSE states[ip]]

\* Flush sends the batch and the kernel applies it.
Replace(w) ==
    /\ stage[w] = "replace" /\ BatchAccepted(w)
    /\ direct4' = AfterBatch(w, "direct", direct4)
    /\ inspect4' = AfterBatch(w, "inspect", inspect4)
    /\ NoteStates(w) /\ Return(w)
    /\ UNCHANGED <<refused, inherited>>

\* Flush reports the batch refused; the sets are as before, the states are not.
ReplaceRefused(w) ==
    /\ stage[w] = "replace" /\ (~BatchAccepted(w) \/ NetlinkFails)
    /\ refused' = refused \cup Touched(w)
    /\ NoteStates(w) /\ Return(w)
    /\ UNCHANGED <<direct4, inspect4, inherited>>

\* There is no netlink socket: Replace returns before it touches anything.  (Its
\* context is never over: the resolver's adapter passes one without an end.)
NoSocket(w) ==
    /\ stage[w] = "replace" /\ NetlinkFails
    /\ Return(w)
    /\ UNCHANGED nftVars

-----------------------------------------------------------------------------

\* A lookup of the data plane or a status snapshot expires what is due, and tells nobody.
LookupElsewhere ==
    /\ TableUnlocked
    /\ ExpireLocked
    /\ UNCHANGED <<workerVars, nftVars>>

\* A unit of time: expiries come closer.  The kernel's elements stay.
Tick ==
    /\ TimePasses
    /\ TableElapse
    /\ UNCHANGED <<workerVars, nftVars>>

\* The process ends, with whatever calls are under way, and the next one starts:
\* without a relation or a known element, over the sets as they are or over new ones.
Restart(kept) ==
    /\ Restarts
    /\ entries' = {} /\ left' = [k \in Keys |-> 0] /\ heap' = {} /\ lru' = <<>>
    /\ stage' = [w \in Workers |-> "idle"]
    /\ obs' = [w \in Workers |-> AnyObservation]
    /\ ttl' = [w \in Workers |-> 0]
    /\ todo' = [w \in Workers |-> {}]
    /\ updates' = [w \in Workers |-> {}]
    /\ states' = [ip \in IPs |-> "none"]
    /\ refused' = {}
    /\ direct4' = IF kept THEN direct4 ELSE {}
    /\ inspect4' = IF kept THEN inspect4 ELSE {}
    /\ inherited' = direct4' \cup inspect4'

Work(w) ==
    \/ \E ip \in IPs : ObserveStep(w, ip) \/ Lookup(w, ip)
    \/ Replace(w)
    \/ ReplaceRefused(w)
    \/ NoSocket(w)

Next ==
    \/ \E w \in Workers : Work(w) \/ \E o \in Observations, t \in TTLs : Observe(w, o, t)
    \/ LookupElsewhere
    \/ Tick
    \/ \E kept \in BOOLEAN : Restart(kept)

Spec == Init /\ [][Next]_vars

\* A goroutine that can go on does, and time passes.
FairSpec == Spec /\ WF_vars(Tick) /\ \A w \in Workers : WF_vars(Work(w))

-----------------------------------------------------------------------------
(* Properties *)

\* The table never outgrows its capacity and its recency list names each entry
\* exactly once, so that the victim of an eviction is always an entry
\* (LearningTable.Observe evicts lru.Front without checking it).
TableConsistent ==
    /\ TypeOK
    /\ Cardinality(entries) <= Capacity
    /\ OnceEach(lru, entries)

\* Every entry, however often it was refreshed, has in the expiry heap an item
\* with its own expiry: without it expireLocked would skip the older items as
\* stale and the relation would steer traffic for ever.
EveryEntryExpires == \A k \in entries : <<k, left[k]>> \in heap

\* What the client believes of an address is what the kernel holds, for every
\* address no refused batch of this process named: such an address is in the set
\* its state says, so no batch is refused because of it, and it is in no other set
\* unless the process found it there when it started.
KnownUntilRefused ==
    \A ip \in IPs \ refused :
        /\ states[ip] = "direct" => ip \in direct4
        /\ states[ip] = "inspect" => ip \in inspect4
        /\ ip \in direct4 \ inherited => states[ip] = "direct"
        /\ ip \in inspect4 \ inherited => states[ip] = "inspect"

\* An address whose direct relation has expired leaves direct4 in the end, or gets
\* a direct relation again (the core design: expiry updates the sets, so that an
\* old address does not steer traffic for ever).
StaleDirectVanishes ==
    \A ip \in IPs :
        (ip \in direct4 /\ ~Related(entries, ip, "direct"))
            ~> (ip \notin direct4 \/ Related(entries, ip, "direct"))

=============================================================================
