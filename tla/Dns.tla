-------------------------------- MODULE Dns --------------------------------
(***************************************************************************)
(* The DNS resolver (internal/dnsproxy) with its cache, and the chain of    *)
(* exchangers application.go builds for it: the domestic server over UDP,   *)
(* the trusted one over a dialled stream, and behind that, when failing     *)
(* open, the domestic server again (internal/transport/dnsfallback.go).     *)
(*                                                                          *)
(* Each question is resolved by a goroutine of its own.  One question has   *)
(* up to two legs, which run concurrently; a leg is the exchange with one   *)
(* upstream.  Time is relative: elapsed counts from the start of a question *)
(* (all its contexts start there), left is what remains of a wait or of a   *)
(* cache entry.  Upstreams (external) answer with any answer, fail, or keep *)
(* silent.  Questions that are not for an A record change no state.         *)
(***************************************************************************)
EXTENDS Recency, FiniteSets

CONSTANTS
    Queries,        \* bound: questions in progress at once
    Kind,           \* Kind[n]: "direct", "proxy" or "default", by Classifier.Domain
    Answers,        \* answers: records of addresses and ttl
    Capacity,       \* entries of the cache
    Timeout,        \* resolver.timeout
    NetTimeout,     \* read timeout of the DNS client
    StreamTimeout,  \* timeout of dnsOverStream
    MinTTL, NegativeTTL, MaxTTL,
    FailOpen        \* the trusted exchanger has the domestic one behind it

Names == DOMAIN Kind

ASSUME DnsAssumption ==
    /\ Names # {}
    /\ \A n \in Names : Kind[n] \in {"direct", "proxy", "default"}
    /\ \A a \in Answers : a.addresses \in {"none", "china", "abroad"} /\ a.ttl \in Nat
    /\ {Capacity, Timeout, NetTimeout, StreamTimeout, MinTTL, NegativeTTL, MaxTTL} \subseteq Nat \ {0}
    /\ MinTTL <= MaxTTL
    /\ FailOpen \in BOOLEAN

VARIABLES
    query,      \* query[q]: the question q is working on
    cache,      \* entries of the cache, by name
    lru         \* its names, least recently used first

vars == <<query, cache, lru>>

Failure == [addresses |-> "failure", ttl |-> 0]
Expired == [addresses |-> "expired", ttl |-> 0]    \* failed for lack of time
Results == Answers \cup {Failure, Expired}
Failed(r) == r \in {Failure, Expired}

\* told is history: the learner was told of the answer.
Off == [at |-> "off", left |-> 0, result |-> Failure]
Idle == [stage |-> "idle", name |-> CHOOSE n \in Names : TRUE, elapsed |-> 0,
         domestic |-> Off, trusted |-> Off, result |-> Failure, action |-> "none",
         told |-> FALSE]

MaxElapsed == Timeout + StreamTimeout
MaxLife == IF NegativeTTL > MaxTTL THEN NegativeTTL ELSE MaxTTL

Leg == [at : {"off", "net", "dial", "stream", "done"}, left : 0..(NetTimeout + StreamTimeout),
        result : Results]
Entry == [answer : Answers, told : BOOLEAN, left : 0..MaxLife]
Question ==
    [stage : {"idle", "resolve", "learn", "cache", "reply"}, name : Names,
     elapsed : Nat, domestic : Leg, trusted : Leg, result : Results,
     action : {"none", "direct", "proxy"}, told : BOOLEAN]

\* Every variable holds a value of its type; no wait and no entry lasts longer
\* than its timer allows (resolver.go, cache.go, dnstcp.go).
TypeOK ==
    /\ query \in [Queries -> Question]
    /\ DOMAIN cache \subseteq Names
    /\ \A n \in DOMAIN cache : cache[n] \in Entry
    /\ lru \in Seq(Names)

Init ==
    /\ query = [q \in Queries |-> Idle]
    /\ cache = [n \in {} |-> Failure]
    /\ lru = <<>>

Becomes(q, r) == query' = [query EXCEPT ![q] = r]

-----------------------------------------------------------------------------
(* Cache *)

Without(f, n) == [m \in DOMAIN f \ {n} |-> f[m]]
With(f, n, v) == [m \in DOMAIN f \cup {n} |-> IF m = n THEN v ELSE f[m]]

\* Get finds the entry and expires is after now.
Fresh(n) == n \in DOMAIN cache /\ cache[n].left > 0

\* A variant of Full: one entry more than the capacity is kept.
FullLate == Cardinality(DOMAIN cache) > Capacity

Full == Cardinality(DOMAIN cache) >= Capacity

\* A name that has an entry keeps its place in the map; else the least recently
\* used entry makes room.  Either way it becomes the most recently used.
Put(n, entry) ==
    LET evicts == n \notin DOMAIN cache /\ Full
    IN /\ cache' = With(IF evicts THEN Without(cache, Head(lru)) ELSE cache, n, entry)
       /\ lru' = MovedToBack(IF evicts THEN Tail(lru) ELSE lru, n)

\* clampDuration.
Clamped(ttl) == IF ttl < MinTTL THEN MinTTL ELSE IF ttl > MaxTTL THEN MaxTTL ELSE ttl

\* cacheResponse: without addresses responseARecords returns 0.
Lifetime(answer) ==
    IF answer.addresses = "none" \/ answer.ttl = 0 THEN NegativeTTL ELSE Clamped(answer.ttl)

-----------------------------------------------------------------------------
(* Resolver *)

\* A leg starts on its way to a server.
ViaNet == [at |-> "net", left |-> NetTimeout, result |-> Failure]
ViaStream == [at |-> "dial", left |-> 0, result |-> Failure]

\* Resolve: an answer of the cache is the reply.
Hit(q, n) ==
    /\ query[q].stage = "idle" /\ Fresh(n)
    /\ lru' = MovedToBack(lru, n)
    /\ Becomes(q, [Idle EXCEPT !.stage = "reply", !.name = n, !.result = cache[n].answer,
                               !.told = cache[n].told])
    /\ UNCHANGED cache

\* Otherwise an expired entry is dropped and the exchanges start: with one
\* upstream if the name has a rule, with both if it has none.
Miss(q, n) ==
    /\ query[q].stage = "idle" /\ ~Fresh(n)
    /\ cache' = Without(cache, n)
    /\ lru' = Unlinked(lru, {n})
    /\ Becomes(q, [Idle EXCEPT !.stage = "resolve", !.name = n,
                               !.domestic = IF Kind[n] = "proxy" THEN Off ELSE ViaNet,
                               !.trusted = IF Kind[n] = "direct" THEN Off ELSE ViaStream])

\* A variant of Waits: the first of the two exchanges decides.
WaitsForOne(q) == \A leg \in {query[q].domestic, query[q].trusted} : leg.at \notin {"off", "done"}

\* resolveUnknown receives from both channels, exchange returns only then.
Waits(q) == \E leg \in {query[q].domestic, query[q].trusted} : leg.at \notin {"off", "done"}

\* The answer and the action: by rule, or by whether the domestic answer has
\* addresses and all of them are in China (domesticAnswerIsChina).
Decide(q) ==
    /\ query[q].stage = "resolve" /\ ~Waits(q)
    /\ LET direct == \/ Kind[query[q].name] = "direct"
                     \/ Kind[query[q].name] = "default" /\ query[q].domestic.result.addresses = "china"
           result == IF direct THEN query[q].domestic.result ELSE query[q].trusted.result
       IN Becomes(q, [query[q] EXCEPT !.stage = IF Failed(result) THEN "reply" ELSE "learn",
                                      !.result = result, !.trusted = Off,
                                      !.action = IF direct THEN "direct" ELSE "proxy"])
    /\ UNCHANGED <<cache, lru>>

\* A variant of Observed: answers with no lifetime are not learned.
ObservedIfLasting(answer) == answer.addresses # "none" /\ answer.ttl > 0

\* learn tells the learner of every answer with addresses.
Observed(answer) == answer.addresses # "none"

Learn(q) ==
    /\ query[q].stage = "learn"
    /\ Becomes(q, [query[q] EXCEPT !.stage = "cache", !.told = Observed(query[q].result)])
    /\ UNCHANGED <<cache, lru>>

\* cacheResponse; what the reply does not need is forgotten.
CacheResponse(q) ==
    /\ query[q].stage = "cache"
    /\ Put(query[q].name, [answer |-> query[q].result, told |-> query[q].told,
                           left |-> Lifetime(query[q].result)])
    /\ Becomes(q, [query[q] EXCEPT !.stage = "reply", !.domestic = Off, !.elapsed = 0])

\* serveDNS writes the answer, or SERVFAIL.
Reply(q) ==
    /\ query[q].stage = "reply"
    /\ Becomes(q, Idle)
    /\ UNCHANGED <<cache, lru>>

-----------------------------------------------------------------------------
(* Exchangers *)

OutOfTime(q) == query[q].elapsed >= Timeout

Done(result) == [at |-> "done", left |-> 0, result |-> result]

\* dnsFallback asks the domestic server, under the same context.
Fallback(q) ==
    IF ~FailOpen THEN Done(Failure)
    ELSE IF OutOfTime(q) THEN Done(Expired)
    ELSE ViaNet

\* NetworkExchanger returns an answer or an error; at the end of its read
\* timeout or of the context it returns an error.
NetReturns(q, leg) ==
    /\ query[q].stage = "resolve" /\ query[q][leg].at = "net"
    /\ \E r \in Answers \cup {Failure} : Becomes(q, [query[q] EXCEPT ![leg] = Done(r)])
    /\ UNCHANGED <<cache, lru>>

\* A variant of Deadline: it is set once for the question and anew for the reply.
DeadlinePerPhase == 2 * StreamTimeout

\* SetDeadline of dnsOverStream counts from the end of the dial.
Deadline == StreamTimeout

\* The stream is dialled within the context.
Dialed(q) ==
    /\ query[q].stage = "resolve" /\ query[q].trusted.at = "dial" /\ ~OutOfTime(q)
    /\ Becomes(q, [query[q] EXCEPT !.trusted.at = "stream", !.trusted.left = Deadline])
    /\ UNCHANGED <<cache, lru>>

\* dnsOverStream fails: dialling, or by an error or the deadline of the stream.
StreamFails(q) ==
    /\ query[q].stage = "resolve" /\ query[q].trusted.at \in {"dial", "stream"}
    /\ Becomes(q, [query[q] EXCEPT !.trusted = Fallback(q)])
    /\ UNCHANGED <<cache, lru>>

\* The reply comes over the stream, which does not know of the context.
StreamAnswers(q) ==
    /\ query[q].stage = "resolve" /\ query[q].trusted.at = "stream"
    /\ \E a \in Answers : Becomes(q, [query[q] EXCEPT !.trusted = Done(a)])
    /\ UNCHANGED <<cache, lru>>

\* What must return before time goes on.
Overdue(q, leg) ==
    \/ query[q][leg].at \in {"net", "dial"} /\ OutOfTime(q)
    \/ query[q][leg].at \in {"net", "stream"} /\ query[q][leg].left = 0

Less(t) == IF t = 0 THEN 0 ELSE t - 1

\* One unit of time; steps that wait for nobody take none of it.
Tick ==
    /\ \A q \in Queries :
         /\ query[q].stage \in {"idle", "resolve"}
         /\ query[q].stage = "resolve" =>
              Waits(q) /\ \A leg \in {"domestic", "trusted"} : ~Overdue(q, leg)
    /\ query' = [q \in Queries |->
           IF query[q].stage = "idle" THEN query[q]
           ELSE [query[q] EXCEPT !.elapsed = @ + 1, !.domestic.left = Less(@),
                                 !.trusted.left = Less(@)]]
    /\ cache' = [n \in DOMAIN cache |-> [cache[n] EXCEPT !.left = Less(@)]]
    /\ UNCHANGED lru

-----------------------------------------------------------------------------
Next ==
    \/ Tick
    \/ \E q \in Queries :
         \/ \E n \in Names : Hit(q, n) \/ Miss(q, n)
         \/ Decide(q) \/ Learn(q) \/ CacheResponse(q) \/ Reply(q)
         \/ Dialed(q) \/ StreamFails(q) \/ StreamAnswers(q)
         \/ \E leg \in {"domestic", "trusted"} : NetReturns(q, leg)

Spec == Init /\ [][Next]_vars

-----------------------------------------------------------------------------
(* Properties *)

\* The cache never exceeds its capacity and its LRU list names exactly its
\* entries, once each, through concurrent questions, evictions and expiry
\* (cache.go:37-81).
CacheConsistent ==
    /\ TypeOK
    /\ Cardinality(DOMAIN cache) <= Capacity
    /\ OnceEach(lru, DOMAIN cache)

\* A client never holds addresses whose route was not learned first, be they
\* from an upstream or from the cache entry of another client's question
\* (resolver.go:85-86).
RepliesLearned ==
    \A q \in Queries :
        query[q].stage = "reply" /\ query[q].result.addresses \in {"china", "abroad"}
            => query[q].told

\* An unclassified name is resolved by the answers and not by their order: it
\* goes direct only with addresses all in China, and to the proxy only when the
\* domestic server has had its time (resolver.go:107-114).
UnknownByAnswers ==
    \A q \in Queries :
        /\ query[q].stage \in {"learn", "cache"} /\ Kind[query[q].name] = "default"
        => IF query[q].action = "direct" THEN query[q].result.addresses = "china"
           ELSE query[q].domestic.at = "done" /\ query[q].domestic.result.addresses # "china"

\* The resolver's timeout does not bound a question, since the stream has a
\* deadline of its own; the two together do (resolver.go:121-124,
\* dnstcp.go:26-31, dnsfallback.go:27-31).
AnsweredInTime == \A q \in Queries : query[q].elapsed <= MaxElapsed
=============================================================================
