--------------------------- MODULE FirewallProofs ---------------------------
(***************************************************************************)
(* Proofs about Firewall for any domains, addresses, workers, observations  *)
(* and times to live.                                                       *)
(***************************************************************************)
EXTENDS Firewall, RecencyProofs

\* The part of the type invariant the proofs use.
Types ==
    /\ entries \subseteq Keys
    /\ left \in [Keys -> Nat]
    /\ heap \subseteq Keys \X Nat
    /\ obs \in [Workers -> Observations]
    /\ ttl \in [Workers -> Nat]

\* A key built from an observation of an address is a key.
LEMMA KeyOfObservation ==
    ASSUME Types, NEW w \in Workers, NEW ip \in IPs
    PROVE  [domain |-> obs[w].domain, action |-> obs[w].action, ip |-> ip] \in Keys
  <1>1. obs[w] \in [domain : Domains, action : Actions, ips : (SUBSET IPs) \ {{}}]
    BY FirewallAssumption DEF Types
  <1> QED BY <1>1 DEF Keys

\* An iteration of Observe keeps every entry covered by a heap item.
LEMMA ObserveIPCovers ==
    ASSUME Types, EveryEntryExpires, NEW k \in Keys, NEW t \in Nat, ObserveIP(k, t)
    PROVE  /\ entries' \subseteq Keys
           /\ left' \in [Keys -> Nat]
           /\ heap' \subseteq Keys \X Nat
           /\ EveryEntryExpires'
  <1> DEFINE gone == IF k \in entries THEN {} ELSE Evicted
  <1>1. /\ entries' = (entries \ gone) \cup {k}
        /\ left' = [x \in Keys |-> IF x = k THEN t ELSE IF x \in gone THEN 0 ELSE left[x]]
        /\ heap' = heap \cup {<<k, t>>}
    BY DEF ObserveIP, Pushed
  <1> HIDE DEF gone
  <1>2. entries' \subseteq Keys /\ left' \in [Keys -> Nat] /\ heap' \subseteq Keys \X Nat
    BY <1>1 DEF Types
  <1>3. ASSUME NEW x \in entries' PROVE <<x, left'[x]>> \in heap'
    <2>1. CASE x = k
      BY <2>1, <1>1
    <2>2. CASE x # k
      <3>1. x \in entries /\ x \notin gone /\ left'[x] = left[x]
        BY <2>2, <1>1 DEF Types
      <3> QED BY <3>1, <1>1 DEF EveryEntryExpires
    <2> QED BY <2>1, <2>2
  <1> QED BY <1>2, <1>3 DEF EveryEntryExpires

\* Popping the due items keeps every remaining entry covered: an entry whose own
\* item is popped is due itself.
LEMMA ExpireLockedCovers ==
    ASSUME Types, EveryEntryExpires, ExpireLocked
    PROVE  /\ entries' \subseteq Keys
           /\ left' \in [Keys -> Nat]
           /\ heap' \subseteq Keys \X Nat
           /\ EveryEntryExpires'
  <1>1. /\ entries' = entries \ Due
        /\ heap' = {x \in heap : x[2] # 0}
        /\ left' = left
    BY DEF ExpireLocked
  <1>2. ASSUME NEW k \in entries' PROVE <<k, left'[k]>> \in heap'
    <2>1. k \in entries /\ k \notin Due
      BY <1>1
    <2>2. <<k, left[k]>> \in heap
      BY <2>1 DEF EveryEntryExpires
    <2>3. left[k] # 0
      BY <2>1, <2>2 DEF Due
    <2> QED BY <2>2, <2>3, <1>1
  <1> QED BY <1>1, <1>2 DEF Types, EveryEntryExpires

\* Time passes for an entry and for its heap item alike.
LEMMA TableElapseCovers ==
    ASSUME Types, EveryEntryExpires, TableElapse
    PROVE  /\ entries' \subseteq Keys
           /\ left' \in [Keys -> Nat]
           /\ heap' \subseteq Keys \X Nat
           /\ EveryEntryExpires'
  <1>1. /\ entries' = entries
        /\ left' = [k \in Keys |-> Less(left[k])]
        /\ heap' = {<<x[1], Less(x[2])>> : x \in heap}
    BY DEF TableElapse
  <1>2. \A n \in Nat : Less(n) \in Nat
    BY DEF Less
  <1>3. left' \in [Keys -> Nat]
    BY <1>1, <1>2 DEF Types
  <1>4. heap' \subseteq Keys \X Nat
    BY <1>1, <1>2 DEF Types
  <1>5. ASSUME NEW k \in entries' PROVE <<k, left'[k]>> \in heap'
    <2>1. k \in Keys /\ <<k, left[k]>> \in heap
      BY <1>1 DEF Types, EveryEntryExpires
    <2>2. left'[k] = Less(left[k])
      BY <2>1, <1>1
    <2>3. <<k, Less(left[k])>> \in heap'
      BY <2>1, <1>1
    <2> QED BY <2>2, <2>3
  <1> QED BY <1>1, <1>3, <1>4, <1>5 DEF Types, EveryEntryExpires

\* The types and the heap items are kept together.
LEMMA ExpiryInv == Spec => [](Types /\ EveryEntryExpires)
  <1> DEFINE Inv == Types /\ EveryEntryExpires
  <1>1. Init => Inv
    <2> SUFFICES ASSUME Init PROVE Inv
      OBVIOUS
    <2>1. AnyObservation \in Observations
      BY FirewallAssumption DEF AnyObservation
    <2> QED BY <2>1 DEF Init, TableInit, Types, EveryEntryExpires
  <1>2. Inv /\ [Next]_vars => Inv'
    <2> SUFFICES ASSUME Types, EveryEntryExpires, [Next]_vars
                 PROVE  Types' /\ EveryEntryExpires'
      OBVIOUS
    <2>0. AnyObservation \in Observations
      BY FirewallAssumption DEF AnyObservation
    <2>1. ASSUME NEW w \in Workers, NEW o \in Observations, NEW t \in TTLs, Observe(w, o, t)
          PROVE  Types' /\ EveryEntryExpires'
      <3>1. t \in Nat
        BY LearningAssumption
      <3> QED BY <2>1, <3>1 DEF Observe, tableVars, Types, EveryEntryExpires
    <2>2. ASSUME NEW w \in Workers, NEW ip \in IPs, ObserveStep(w, ip)
          PROVE  Types' /\ EveryEntryExpires'
      <3> DEFINE k == [domain |-> obs[w].domain, action |-> obs[w].action, ip |-> ip]
      <3>1. k \in Keys /\ ttl[w] \in Nat
        BY KeyOfObservation DEF Types
      <3>2. ObserveIP(k, ttl[w]) /\ obs' = obs /\ ttl' = ttl
        BY <2>2 DEF ObserveStep
      <3> HIDE DEF k
      <3> QED BY <3>1, <3>2, ObserveIPCovers DEF Types
    <2>3. ASSUME NEW w \in Workers, NEW ip \in IPs, Lookup(w, ip)
          PROVE  Types' /\ EveryEntryExpires'
      <3>1. ExpireLocked /\ obs' = obs /\ ttl' = ttl
        BY <2>3 DEF Lookup
      <3> QED BY <3>1, ExpireLockedCovers DEF Types
    <2>4. ASSUME NEW w \in Workers, Return(w)
          PROVE  Types' /\ EveryEntryExpires'
      BY <2>4, <2>0 DEF Return, tableVars, Types, EveryEntryExpires
    <2>5. CASE LookupElsewhere
      <3>1. ExpireLocked /\ obs' = obs /\ ttl' = ttl
        BY <2>5 DEF LookupElsewhere, workerVars
      <3> QED BY <3>1, ExpireLockedCovers DEF Types
    <2>6. CASE Tick
      <3>1. TableElapse /\ obs' = obs /\ ttl' = ttl
        BY <2>6 DEF Tick, workerVars
      <3> QED BY <3>1, TableElapseCovers DEF Types
    <2>7. ASSUME NEW kept \in BOOLEAN, Restart(kept)
          PROVE  Types' /\ EveryEntryExpires'
      BY <2>7, <2>0 DEF Restart, Types, EveryEntryExpires
    <2>8. CASE UNCHANGED vars
      BY <2>8 DEF vars, tableVars, workerVars, Types, EveryEntryExpires
    <2> QED
      BY <2>1, <2>2, <2>3, <2>4, <2>5, <2>6, <2>7, <2>8
      DEF Next, Work, Replace, ReplaceRefused, NoSocket
  <1> QED BY <1>1, <1>2, PTL DEF Spec

\* No step of the system leaves an entry of the table without the heap item that
\* will expire it.
THEOREM ExpiryCorrect == Spec => []EveryEntryExpires
  BY ExpiryInv, PTL

-----------------------------------------------------------------------------

\* What a worker has collected names each address once, and none that its loop
\* has still to look up.
UpdatesOnce ==
    \A w \in Workers :
        /\ todo[w] \subseteq IPs
        /\ stage[w] \in {"idle", "observe"} => updates[w] = {}
        /\ \A u \in updates[w] : u \in IPs \X SetStates /\ u[1] \notin todo[w]
        /\ \A u, v \in updates[w] : u[1] = v[1] => u = v

\* Functions over the workers and the addresses.
WorkerTypes ==
    /\ stage \in [Workers -> {"idle", "observe", "lookup", "replace"}]
    /\ obs \in [Workers -> Observations]
    /\ todo \in [Workers -> SUBSET IPs]
    /\ updates \in [Workers -> SUBSET (IPs \X SetStates)]

NftTypes ==
    /\ states \in [IPs -> SetStates]
    /\ direct4 \subseteq IPs
    /\ inspect4 \subseteq IPs
    /\ refused \subseteq IPs
    /\ inherited \subseteq IPs

\* The batches a worker collects are well formed in every reachable state.
LEMMA UpdatesInit == Init => WorkerTypes /\ UpdatesOnce
  <1> SUFFICES ASSUME Init PROVE WorkerTypes /\ UpdatesOnce
    OBVIOUS
  <1>1. AnyObservation \in Observations
    BY FirewallAssumption DEF AnyObservation
  <1> QED BY <1>1 DEF Init, WorkerTypes, UpdatesOnce

LEMMA UpdatesStep ==
    ASSUME WorkerTypes, UpdatesOnce, [Next]_vars
    PROVE  WorkerTypes' /\ UpdatesOnce'
  <1>0. AnyObservation \in Observations /\ \A o \in Observations : o.ips \subseteq IPs
    BY FirewallAssumption DEF AnyObservation
  <1>1. ASSUME NEW w \in Workers, NEW o \in Observations, NEW t \in TTLs, Observe(w, o, t)
        PROVE  WorkerTypes' /\ UpdatesOnce'
    <2>1. WorkerTypes'
      BY <1>0, <1>1 DEF Observe, WorkerTypes
    <2> QED BY <1>0, <1>1, <2>1 DEF Observe, WorkerTypes, UpdatesOnce
  <1>2. ASSUME NEW w \in Workers, NEW ip \in IPs, ObserveStep(w, ip)
        PROVE  WorkerTypes' /\ UpdatesOnce'
    <2>1. /\ stage[w] = "observe" /\ updates' = updates /\ obs' = obs
          /\ todo' = [todo EXCEPT ![w] = IF todo[w] = {ip} THEN obs[w].ips ELSE @ \ {ip}]
          /\ stage' = [stage EXCEPT ![w] = IF todo[w] = {ip} THEN "lookup" ELSE @]
      BY <1>2 DEF ObserveStep
    <2>2. updates[w] = {} /\ obs[w].ips \subseteq IPs
      BY <1>0, <2>1 DEF UpdatesOnce, WorkerTypes
    <2>3. WorkerTypes'
      BY <2>1, <2>2 DEF WorkerTypes
    <2> QED BY <2>1, <2>2, <2>3 DEF WorkerTypes, UpdatesOnce
  <1>3. ASSUME NEW w \in Workers, NEW ip \in IPs, Lookup(w, ip)
        PROVE  WorkerTypes' /\ UpdatesOnce'
    <2> DEFINE new == Wanted(entries', ip)
    <2>1. new \in SetStates
      BY DEF Wanted, SetStates
    <2>2. /\ stage[w] = "lookup" /\ ip \in todo[w] /\ obs' = obs
          /\ updates' = [updates EXCEPT ![w] = @ \cup {<<ip, new>>}]
          /\ todo' = [todo EXCEPT ![w] = @ \ {ip}]
          /\ stage' = [stage EXCEPT ![w] = IF todo[w] = {ip} THEN "replace" ELSE @]
      BY <1>3 DEF Lookup
    <2> HIDE DEF new
    <2>3. WorkerTypes'
      BY <2>1, <2>2 DEF WorkerTypes
    <2>4. ASSUME NEW x \in Workers
          PROVE  /\ todo'[x] \subseteq IPs
                 /\ stage'[x] \in {"idle", "observe"} => updates'[x] = {}
                 /\ \A u \in updates'[x] : u \in IPs \X SetStates /\ u[1] \notin todo'[x]
                 /\ \A u, v \in updates'[x] : u[1] = v[1] => u = v
      <3>1. CASE x = w
        BY <3>1, <2>1, <2>2 DEF WorkerTypes, UpdatesOnce
      <3>2. CASE x # w
        BY <3>2, <2>2 DEF WorkerTypes, UpdatesOnce
      <3> QED BY <3>1, <3>2
    <2> QED BY <2>3, <2>4 DEF UpdatesOnce
  <1>4. ASSUME NEW w \in Workers, Return(w)
        PROVE  WorkerTypes' /\ UpdatesOnce'
    <2>1. WorkerTypes'
      BY <1>0, <1>4 DEF Return, WorkerTypes
    <2> QED BY <1>4, <2>1 DEF Return, WorkerTypes, UpdatesOnce
  <1>5. CASE LookupElsewhere \/ Tick \/ UNCHANGED vars
    BY <1>5 DEF LookupElsewhere, Tick, vars, workerVars, WorkerTypes, UpdatesOnce
  <1>6. ASSUME NEW kept \in BOOLEAN, Restart(kept)
        PROVE  WorkerTypes' /\ UpdatesOnce'
    BY <1>0, <1>6 DEF Restart, WorkerTypes, UpdatesOnce
  <1> QED
    BY <1>1, <1>2, <1>3, <1>4, <1>5, <1>6 DEF Next, Work, Replace, ReplaceRefused, NoSocket

\* The sets of a batch: every address it touches goes to exactly one state.
LEMMA BatchSets ==
    ASSUME UpdatesOnce, NEW w \in Workers
    PROVE  /\ \A ip \in Touched(w) : \/ ip \in To(w, "direct")
                                     \/ ip \in To(w, "inspect")
                                     \/ ip \in To(w, "none")
           /\ \A ip : ~(ip \in To(w, "direct") /\ ip \in To(w, "inspect"))
           /\ \A ip : ~(ip \in To(w, "direct") /\ ip \in To(w, "none"))
           /\ \A ip : ~(ip \in To(w, "inspect") /\ ip \in To(w, "none"))
           /\ \A ip, s : ip \in To(w, s) => ip \in Touched(w)
           /\ Touched(w) \subseteq IPs
  BY DEF Touched, To, UpdatesOnce, SetStates

\* An accepted batch leaves the sets as the client's states say they are.
LEMMA ReplaceKnown ==
    ASSUME UpdatesOnce, NftTypes, KnownUntilRefused,
           NEW w \in Workers, Replace(w)
    PROVE  NftTypes' /\ KnownUntilRefused'
  <1>1. /\ direct4' = (direct4 \ Deleted(w, "direct")) \cup To(w, "direct")
        /\ inspect4' = (inspect4 \ Deleted(w, "inspect")) \cup To(w, "inspect")
        /\ NoteStates(w)
        /\ refused' = refused /\ inherited' = inherited
    BY DEF Replace, AfterBatch
  <1>2. NftTypes'
    BY <1>1, BatchSets DEF NoteStates, NftTypes, SetStates
  <1>3. ASSUME NEW ip \in IPs, ip \notin refused
        PROVE  /\ states'[ip] = "direct" => ip \in direct4'
               /\ states'[ip] = "inspect" => ip \in inspect4'
               /\ ip \in direct4' \ inherited => states'[ip] = "direct"
               /\ ip \in inspect4' \ inherited => states'[ip] = "inspect"
    <2>1. /\ states[ip] = "direct" => ip \in direct4
          /\ states[ip] = "inspect" => ip \in inspect4
          /\ ip \in direct4 \ inherited => states[ip] = "direct"
          /\ ip \in inspect4 \ inherited => states[ip] = "inspect"
      BY <1>3 DEF KnownUntilRefused
    <2>2. CASE ip \notin Touched(w)
      <3>1. states'[ip] = states[ip] /\ (ip \in direct4' <=> ip \in direct4)
            /\ (ip \in inspect4' <=> ip \in inspect4)
        BY <2>2, <1>1, BatchSets DEF NoteStates, Deleted
      <3> QED BY <2>1, <3>1
    <2>3. CASE ip \in Touched(w)
      <3>1. /\ ip \in Deleted(w, "direct") <=> states[ip] = "direct"
            /\ ip \in Deleted(w, "inspect") <=> states[ip] = "inspect"
        BY <2>3 DEF Deleted
      <3>2. /\ states'[ip] = "direct" <=> ip \in To(w, "direct")
            /\ states'[ip] = "inspect" <=> ip \in To(w, "inspect")
        BY <2>3, <1>1, BatchSets DEF NoteStates
      <3> QED BY <2>1, <3>1, <3>2, <1>1
    <2> QED BY <2>2, <2>3
  <1> QED BY <1>1, <1>2, <1>3 DEF KnownUntilRefused

\* The batches, the kernel's sets and the client's states are kept together.
LEMMA KnownInv == Spec => [](WorkerTypes /\ UpdatesOnce /\ NftTypes /\ KnownUntilRefused)
  <1> DEFINE Inv == WorkerTypes /\ UpdatesOnce /\ NftTypes /\ KnownUntilRefused
  <1>1. Init => Inv
    <2> SUFFICES ASSUME Init PROVE NftTypes /\ KnownUntilRefused
      BY UpdatesInit
    <2> QED BY DEF Init, NftTypes, SetStates, KnownUntilRefused
  <1>2. Inv /\ [Next]_vars => Inv'
    <2> SUFFICES ASSUME WorkerTypes, UpdatesOnce, NftTypes, KnownUntilRefused, [Next]_vars
                 PROVE  NftTypes' /\ KnownUntilRefused'
      BY UpdatesStep
    <2>1. ASSUME NEW w \in Workers, Replace(w)
          PROVE  NftTypes' /\ KnownUntilRefused'
      BY <2>1, ReplaceKnown
    <2>2. ASSUME NEW w \in Workers, ReplaceRefused(w)
          PROVE  NftTypes' /\ KnownUntilRefused'
      <3>1. states' \in [IPs -> SetStates]
        BY <2>2 DEF ReplaceRefused, NoteStates, NftTypes, SetStates
      <3>2. /\ refused' = refused \cup Touched(w) /\ inherited' = inherited
            /\ direct4' = direct4 /\ inspect4' = inspect4
        BY <2>2 DEF ReplaceRefused
      <3>3. \A ip \in IPs : ip \notin Touched(w) => states'[ip] = states[ip]
        BY <2>2, BatchSets DEF ReplaceRefused, NoteStates
      <3> QED BY <3>1, <3>2, <3>3, BatchSets DEF NftTypes, KnownUntilRefused
    <2>3. ASSUME NEW kept \in BOOLEAN, Restart(kept)
          PROVE  NftTypes' /\ KnownUntilRefused'
      BY <2>3 DEF Restart, NftTypes, KnownUntilRefused, SetStates
    <2>4. CASE UNCHANGED nftVars
      BY <2>4 DEF nftVars, NftTypes, KnownUntilRefused
    <2> QED
      BY <2>1, <2>2, <2>3, <2>4, Zenon
      DEF Next, Work, NoSocket, Observe, ObserveStep, Lookup, LookupElsewhere, Tick, vars
  <1> QED BY <1>1, <1>2, PTL DEF Spec

\* The client's states and the kernel's sets agree on every address that no refused
\* batch named and that the process did not find in the sets when it started
\* (nft_linux.go, NftSetClient.Replace).
THEOREM KnownCorrect == Spec => []KnownUntilRefused
  BY KnownInv, PTL

-----------------------------------------------------------------------------
\* The recency list and the capacity of the table.
ListInv == OnceEach(lru, entries) /\ Cardinality(entries) <= Capacity

\* An observation refreshes an entry, or puts one in the place of the least
\* recently observed when the table is full.
LEMMA ObserveIPListed ==
    ASSUME ListInv, NEW k, NEW t, ObserveIP(k, t)
    PROVE  ListInv'
  <1> DEFINE gone == IF k \in entries THEN {} ELSE Evicted
             C == entries \ gone
  <1>1. entries' = C \cup {k} /\ lru' = MovedToBack(Unlinked(lru, gone), k)
    BY DEF ObserveIP
  <1>2. OnceEach(lru, entries) /\ Cardinality(entries) <= Capacity
    BY DEF ListInv
  <1>3. IsFiniteSet(entries) /\ Cardinality(entries) \in Nat
    BY <1>2, OnceLength, FS_CardinalityType
  <1>4. OnceEach(lru', entries')
    <2> HIDE DEF gone
    <2>1. OnceEach(Unlinked(lru, gone), C)
      BY <1>2, UnlinkedOnce
    <2> HIDE DEF C
    <2> QED BY <1>1, <2>1, MovedOnce
  <1>5. IsFiniteSet(C) /\ Cardinality(C) \in Nat /\ Cardinality(C) <= Capacity
        /\ (k \notin C => Cardinality(C) + 1 <= Capacity)
    <2>1. CASE k \in entries \/ Evicted = {}
      <3>1. C = entries
        BY <2>1
      <3>2. k \notin entries => Cardinality(entries) < Capacity
        BY <1>3, <2>1, LearningAssumption DEF Evicted
      <3> HIDE DEF C
      <3> QED BY <1>2, <1>3, <3>1, <3>2, LearningAssumption
    <2>2. CASE k \notin entries /\ Evicted # {}
      <3>1. gone = {Head(lru)} /\ Cardinality(entries) >= Capacity
        BY <2>2 DEF Evicted
      <3>2. entries # {}
        BY <1>3, <3>1, LearningAssumption, FS_EmptySet
      <3>3. Head(lru) \in entries
        BY <1>2, <3>2, TailOnce
      <3>4. C = entries \ {Head(lru)}
        BY <3>1
      <3> HIDE DEF C
      <3>5. IsFiniteSet(C) /\ Cardinality(C) = Cardinality(entries) - 1 /\ Cardinality(C) \in Nat
        BY <1>3, <3>3, <3>4, FS_RemoveElement, FS_CardinalityType
      <3> QED BY <1>2, <1>3, <3>5, LearningAssumption
    <2> QED BY <2>1, <2>2
  <1> HIDE DEF C
  <1>6. Cardinality(C \cup {k}) <= Capacity
    BY <1>5, FS_AddElement
  <1> QED BY <1>1, <1>4, <1>6 DEF ListInv

\* Expiry unlinks what it removes.
LEMMA ExpireLockedListed ==
    ASSUME ListInv, ExpireLocked
    PROVE  ListInv'
  <1>1. entries' = entries \ Due /\ lru' = Unlinked(lru, Due)
    BY DEF ExpireLocked
  <1>2. OnceEach(lru, entries) /\ Cardinality(entries) <= Capacity
    BY DEF ListInv
  <1>3. OnceEach(lru', entries')
    BY <1>1, <1>2, UnlinkedOnce
  <1>4. IsFiniteSet(entries) /\ entries' \subseteq entries
    BY <1>1, <1>2, OnceLength
  <1>5. Cardinality(entries') <= Cardinality(entries) /\ Cardinality(entries) \in Nat
        /\ Cardinality(entries') \in Nat
    BY <1>4, FS_Subset, FS_CardinalityType
  <1>6. Cardinality(entries') <= Capacity
    BY <1>2, <1>5, LearningAssumption
  <1> QED BY <1>3, <1>6 DEF ListInv

LEMMA ListedStep == ListInv /\ [Next]_vars => ListInv'
  <1> SUFFICES ASSUME ListInv, [Next]_vars PROVE ListInv'
    OBVIOUS
  <1>1. CASE UNCHANGED <<entries, lru>>
    BY <1>1 DEF ListInv
  <1>2. CASE \E k, t : ObserveIP(k, t)
    BY <1>2, ObserveIPListed
  <1>3. CASE ExpireLocked
    BY <1>3, ExpireLockedListed
  <1>4. ASSUME NEW kept \in BOOLEAN, Restart(kept)
        PROVE  ListInv'
    <2>1. entries' = {} /\ lru' = <<>>
      BY <1>4 DEF Restart
    <2>2. OnceEach(<<>>, {})
      BY DEF OnceEach
    <2>3. Cardinality({}) <= Capacity
      BY FS_EmptySet, LearningAssumption
    <2> QED BY <2>1, <2>2, <2>3 DEF ListInv
  <1> QED
    BY <1>1, <1>2, <1>3, <1>4, Zenon
    DEF Next, Work, Observe, ObserveStep, Lookup, Replace, ReplaceRefused, NoSocket, Return,
        LookupElsewhere, Tick, TableElapse, vars, tableVars

\* The table keeps its types, stays within its capacity, and its list has one
\* element for every entry: the victim of an eviction is always an entry
\* (learning.go, LearningTable.Observe).
THEOREM TableCorrect == Spec => []TableConsistent
  <1>1. Init => ListInv
    <2> SUFFICES ASSUME Init PROVE ListInv
      OBVIOUS
    <2>1. entries = {} /\ lru = <<>>
      BY DEF Init, TableInit
    <2>2. OnceEach(lru, {})
      BY <2>1 DEF OnceEach
    <2> QED BY <2>1, <2>2, FS_EmptySet, LearningAssumption DEF ListInv
  <1>2. Types /\ WorkerTypes /\ NftTypes /\ ListInv => TableConsistent
    <2> SUFFICES ASSUME Types, WorkerTypes, NftTypes, ListInv PROVE TableConsistent
      OBVIOUS
    <2>1. lru \in Seq(Keys)
      BY DEF Types, ListInv, OnceEach
    <2> QED
      BY <2>1 DEF Types, WorkerTypes, NftTypes, ListInv, TableConsistent, TypeOK, TableTypeOK
  <1> QED BY <1>1, <1>2, ListedStep, ExpiryInv, KnownInv, PTL DEF Spec
=============================================================================
