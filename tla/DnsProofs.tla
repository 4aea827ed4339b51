----------------------------- MODULE DnsProofs -----------------------------
(***************************************************************************)
(* Proofs about Dns for any questions, names, answers, timeouts, lifetimes *)
(* and capacity.                                                           *)
(***************************************************************************)
EXTENDS Dns, RecencyProofs

HasAddresses(answer) == answer.addresses \in {"china", "abroad"}

\* What holds of a question besides its type.  Time: a stream is entered with time
\* left of the context and its deadline runs from there.  The domestic exchange of
\* an unclassified name has been started while it is resolved, and what it came to
\* is kept until the answer is cached.  An answer with addresses is cached only
\* after it has been learned.
QuestionOK(r) ==
    /\ r.domestic.at \in {"off", "net", "done"}
    /\ r.elapsed <= MaxElapsed
    /\ r.trusted.at = "stream" => r.elapsed + r.trusted.left <= MaxElapsed
    /\ r.stage = "resolve" /\ Kind[r.name] = "default" => r.domestic.at # "off"
    /\ r.stage \in {"learn", "cache"} => r.result \in Answers
    /\ r.stage \in {"learn", "cache"} /\ Kind[r.name] = "default" =>
         IF r.action = "direct" THEN r.result.addresses = "china"
         ELSE r.domestic.at = "done" /\ r.domestic.result.addresses # "china"
    /\ r.stage \in {"cache", "reply"} /\ HasAddresses(r.result) => r.told

\* The invariant of the questions and of what the entries of the cache hold.
QuestionsInv ==
    /\ query \in [Queries -> Question]
    /\ \A q \in Queries : QuestionOK(query[q])

EntriesInv ==
    /\ DOMAIN cache \subseteq Names
    /\ \A n \in DOMAIN cache : cache[n] \in Entry
    /\ \A n \in DOMAIN cache : HasAddresses(cache[n].answer) => cache[n].told

\* The invariant of the list.
ListInv ==
    /\ OnceEach(lru, DOMAIN cache)
    /\ Cardinality(DOMAIN cache) <= Capacity

DnsInv == QuestionsInv /\ EntriesInv /\ ListInv

-----------------------------------------------------------------------------
\* The constants, in the form the steps use.
LEMMA Constants ==
    /\ Capacity \in Nat \ {0} /\ Timeout \in Nat \ {0}
    /\ NetTimeout \in Nat \ {0} /\ StreamTimeout \in Nat \ {0}
    /\ MinTTL \in Nat \ {0} /\ NegativeTTL \in Nat \ {0} /\ MaxTTL \in Nat \ {0}
    /\ MinTTL <= MaxTTL
    /\ MaxElapsed \in Nat /\ MaxElapsed = Timeout + StreamTimeout
  BY DnsAssumption DEF MaxElapsed

\* The legs the steps put in place.
LEMMA LegsOK ==
    /\ Off \in Leg /\ ViaNet \in Leg /\ ViaStream \in Leg
    /\ \A r \in Results : Done(r) \in Leg
  BY Constants DEF Off, ViaNet, ViaStream, Done, Leg, Results

\* An answer is not a failure.
LEMMA AnswersOK ==
    /\ \A r \in Results : ~Failed(r) => r \in Answers
    /\ \A r \in Results : Failed(r) => ~HasAddresses(r)
    /\ Failure \in Results /\ Expired \in Results /\ Failed(Failure)
    /\ Answers \subseteq Results
  BY DnsAssumption DEF Results, Failed, Failure, Expired, HasAddresses

LEMMA IdleOK == Idle \in Question /\ QuestionOK(Idle)
  <1>1. (CHOOSE n \in Names : TRUE) \in Names
    BY DnsAssumption
  <1>2. Idle \in Question
    BY <1>1, LegsOK, AnswersOK DEF Idle, Question
  <1>3. ~HasAddresses(Failure)
    BY AnswersOK
  <1> QED BY <1>2, <1>3, Constants DEF Idle, QuestionOK, Off

\* A question that changes alone.
LEMMA QuestionMoves ==
    ASSUME QuestionsInv, NEW q \in Queries, NEW r \in Question, QuestionOK(r),
           Becomes(q, r)
    PROVE  QuestionsInv'
  <1>1. query' = [query EXCEPT ![q] = r]
    BY DEF Becomes
  <1>2. query' \in [Queries -> Question]
    BY <1>1 DEF QuestionsInv
  <1>3. \A p \in Queries : query'[p] = IF p = q THEN r ELSE query[p]
    BY <1>1 DEF QuestionsInv
  <1> QED BY <1>2, <1>3 DEF QuestionsInv

\* The fields of a question.
LEMMA Fields ==
    ASSUME NEW r \in Question
    PROVE  /\ r.stage \in {"idle", "resolve", "learn", "cache", "reply"} /\ r.name \in Names
           /\ r.elapsed \in Nat /\ r.domestic \in Leg /\ r.trusted \in Leg
           /\ r.result \in Results /\ r.action \in {"none", "direct", "proxy"}
           /\ r.told \in BOOLEAN
           /\ \A leg \in {r.domestic, r.trusted} :
                /\ leg.at \in {"off", "net", "dial", "stream", "done"}
                /\ leg.left \in 0..(NetTimeout + StreamTimeout) /\ leg.result \in Results
  BY DEF Question, Leg

-----------------------------------------------------------------------------
\* A step of the resolver.
LEMMA HitKeeps ==
    ASSUME QuestionsInv, EntriesInv, NEW q \in Queries, NEW n \in Names, Hit(q, n)
    PROVE  QuestionsInv'
  <1> DEFINE r == [Idle EXCEPT !.stage = "reply", !.name = n, !.result = cache[n].answer,
                               !.told = cache[n].told]
  <1>1. n \in DOMAIN cache /\ cache[n] \in Entry
        /\ (HasAddresses(cache[n].answer) => cache[n].told)
    BY DEF Hit, Fresh, EntriesInv
  <1>2. cache[n].answer \in Results /\ cache[n].told \in BOOLEAN
    BY <1>1, AnswersOK DEF Entry
  <1>3. r \in Question
    BY <1>2, IdleOK DEF Question
  <1>4. QuestionOK(r)
    BY <1>1, Constants DEF QuestionOK, Idle, Off
  <1>5. Becomes(q, r)
    BY DEF Hit
  <1> QED BY <1>3, <1>4, <1>5, QuestionMoves

LEMMA MissKeeps ==
    ASSUME QuestionsInv, NEW q \in Queries, NEW n \in Names, Miss(q, n)
    PROVE  QuestionsInv'
  <1> DEFINE d == IF Kind[n] = "proxy" THEN Off ELSE ViaNet
             t == IF Kind[n] = "direct" THEN Off ELSE ViaStream
             r == [Idle EXCEPT !.stage = "resolve", !.name = n, !.domestic = d, !.trusted = t]
  <1>1. d \in Leg /\ t \in Leg
    BY LegsOK
  <1>2. d.at \in {"off", "net"} /\ t.at \in {"off", "dial"} /\ (Kind[n] = "default" => d.at # "off")
    BY DEF Off, ViaNet, ViaStream
  <1>3. Becomes(q, r)
    BY DEF Miss
  <1> HIDE DEF d, t
  <1>4. r \in Question
    BY <1>1, IdleOK DEF Question
  <1>5. QuestionOK(r)
    BY <1>2, Constants DEF QuestionOK, Idle, Off
  <1> QED BY <1>3, <1>4, <1>5, QuestionMoves

LEMMA DecideKeeps ==
    ASSUME QuestionsInv, NEW q \in Queries, Decide(q)
    PROVE  QuestionsInv'
  <1> DEFINE s == query[q]
             direct == \/ Kind[s.name] = "direct"
                       \/ Kind[s.name] = "default" /\ s.domestic.result.addresses = "china"
             result == IF direct THEN s.domestic.result ELSE s.trusted.result
             stage == IF Failed(result) THEN "reply" ELSE "learn"
             action == IF direct THEN "direct" ELSE "proxy"
             r == [s EXCEPT !.stage = stage, !.result = result, !.trusted = Off,
                            !.action = action]
  <1>1. s \in Question /\ QuestionOK(s) /\ s.stage = "resolve" /\ ~Waits(q)
    BY DEF QuestionsInv, Decide
  <1>2. Becomes(q, r)
    BY DEF Decide
  <1>3. result \in Results
    BY <1>1, Fields
  <1>4. s.domestic.at \in {"off", "done"}
    BY <1>1 DEF Waits
  <1>5. stage = "learn" => result \in Answers
    BY <1>3, AnswersOK
  <1>6. stage = "reply" => ~HasAddresses(result)
    BY <1>3, AnswersOK
  <1>7. stage \in {"reply", "learn"} /\ action \in {"direct", "proxy"}
    OBVIOUS
  <1>8. Kind[s.name] = "default" =>
          IF action = "direct" THEN result.addresses = "china"
          ELSE s.domestic.at = "done" /\ s.domestic.result.addresses # "china"
    BY <1>1, <1>4 DEF QuestionOK
  <1> HIDE DEF s, result, stage, action
  <1>9. r \in Question
    BY <1>1, <1>3, <1>7, LegsOK DEF Question
  <1>10. /\ r.stage = stage /\ r.result = result /\ r.trusted = Off /\ r.action = action
         /\ r.name = s.name /\ r.elapsed = s.elapsed /\ r.domestic = s.domestic /\ r.told = s.told
    BY <1>1 DEF Question
  <1>11. QuestionOK(r)
    BY <1>1, <1>5, <1>6, <1>7, <1>8, <1>10 DEF QuestionOK, Off
  <1> QED BY <1>2, <1>9, <1>11, QuestionMoves

LEMMA LearnKeeps ==
    ASSUME QuestionsInv, NEW q \in Queries, Learn(q)
    PROVE  QuestionsInv'
  <1> DEFINE s == query[q]
             told == Observed(s.result)
             r == [s EXCEPT !.stage = "cache", !.told = told]
  <1>1. s \in Question /\ QuestionOK(s) /\ s.stage = "learn"
    BY DEF QuestionsInv, Learn
  <1>2. Becomes(q, r)
    BY DEF Learn
  <1>3. told \in BOOLEAN /\ (HasAddresses(s.result) => told)
    BY DEF Observed, HasAddresses
  <1> HIDE DEF s, told
  <1>4. r \in Question
    BY <1>1, <1>3 DEF Question
  <1>5. /\ r.stage = "cache" /\ r.told = told /\ r.result = s.result /\ r.trusted = s.trusted
        /\ r.action = s.action /\ r.name = s.name /\ r.elapsed = s.elapsed
        /\ r.domestic = s.domestic
    BY <1>1 DEF Question
  <1>6. QuestionOK(r)
    BY <1>1, <1>3, <1>5 DEF QuestionOK
  <1> QED BY <1>2, <1>4, <1>6, QuestionMoves

LEMMA CacheResponseKeeps ==
    ASSUME QuestionsInv, NEW q \in Queries, CacheResponse(q)
    PROVE  QuestionsInv'
  <1> DEFINE s == query[q]
             r == [s EXCEPT !.stage = "reply", !.domestic = Off, !.elapsed = 0]
  <1>1. s \in Question /\ QuestionOK(s) /\ s.stage = "cache"
    BY DEF QuestionsInv, CacheResponse
  <1>2. Becomes(q, r)
    BY DEF CacheResponse
  <1> HIDE DEF s
  <1>4. r \in Question
    BY <1>1, LegsOK DEF Question
  <1>5. /\ r.stage = "reply" /\ r.told = s.told /\ r.result = s.result /\ r.trusted = s.trusted
        /\ r.elapsed = 0 /\ r.domestic = Off
    BY <1>1 DEF Question
  <1>6. s.trusted.left \in Nat /\ s.elapsed \in Nat
    BY <1>1, Fields, Constants
  <1>7. QuestionOK(r)
    BY <1>1, <1>5, <1>6, Constants DEF QuestionOK, Off
  <1> QED BY <1>2, <1>4, <1>7, QuestionMoves

LEMMA ReplyKeeps ==
    ASSUME QuestionsInv, NEW q \in Queries, Reply(q)
    PROVE  QuestionsInv'
  BY IdleOK, QuestionMoves DEF Reply

-----------------------------------------------------------------------------
\* Steps of the exchangers change one leg of a question being resolved.
LEMMA TrustedMoves ==
    ASSUME QuestionsInv, NEW q \in Queries, query[q].stage = "resolve", NEW t \in Leg,
           t.at = "stream" => query[q].elapsed + t.left <= MaxElapsed,
           Becomes(q, [query[q] EXCEPT !.trusted = t])
    PROVE  QuestionsInv'
  <1> DEFINE s == query[q]
             r == [s EXCEPT !.trusted = t]
  <1>1. s \in Question /\ QuestionOK(s) /\ s.stage = "resolve"
        /\ (t.at = "stream" => s.elapsed + t.left <= MaxElapsed) /\ Becomes(q, r)
    BY DEF QuestionsInv
  <1> HIDE DEF s
  <1>2. r \in Question
    BY <1>1 DEF Question
  <1>3. /\ r.stage = "resolve" /\ r.told = s.told /\ r.result = s.result /\ r.trusted = t
        /\ r.elapsed = s.elapsed /\ r.domestic = s.domestic /\ r.name = s.name
    BY <1>1 DEF Question
  <1>4. QuestionOK(r)
    BY <1>1, <1>3 DEF QuestionOK
  <1> QED BY <1>1, <1>2, <1>4, QuestionMoves

LEMMA DomesticMoves ==
    ASSUME QuestionsInv, NEW q \in Queries, query[q].stage = "resolve", NEW d \in Leg,
           d.at = "done", Becomes(q, [query[q] EXCEPT !.domestic = d])
    PROVE  QuestionsInv'
  <1> DEFINE s == query[q]
             r == [s EXCEPT !.domestic = d]
  <1>1. s \in Question /\ QuestionOK(s) /\ s.stage = "resolve" /\ Becomes(q, r)
    BY DEF QuestionsInv
  <1> HIDE DEF s
  <1>2. r \in Question
    BY <1>1 DEF Question
  <1>3. /\ r.stage = "resolve" /\ r.told = s.told /\ r.result = s.result /\ r.trusted = s.trusted
        /\ r.elapsed = s.elapsed /\ r.domestic = d /\ r.name = s.name
    BY <1>1 DEF Question
  <1>4. QuestionOK(r)
    BY <1>1, <1>3 DEF QuestionOK
  <1> QED BY <1>1, <1>2, <1>4, QuestionMoves

LEMMA NetReturnsKeeps ==
    ASSUME QuestionsInv, NEW q \in Queries, NEW leg \in {"domestic", "trusted"},
           NetReturns(q, leg)
    PROVE  QuestionsInv'
  <1>1. PICK r \in Answers \cup {Failure} : Becomes(q, [query[q] EXCEPT ![leg] = Done(r)])
    BY DEF NetReturns
  <1>2. query[q].stage = "resolve"
    BY DEF NetReturns
  <1>3. Done(r) \in Leg /\ Done(r).at = "done"
    BY LegsOK, AnswersOK DEF Done
  <1>4. CASE leg = "domestic"
    BY <1>1, <1>2, <1>3, <1>4, DomesticMoves
  <1>5. CASE leg = "trusted"
    BY <1>1, <1>2, <1>3, <1>5, TrustedMoves
  <1> QED BY <1>4, <1>5

LEMMA DialedKeeps ==
    ASSUME QuestionsInv, NEW q \in Queries, Dialed(q)
    PROVE  QuestionsInv'
  <1> DEFINE s == query[q]
             t == [s.trusted EXCEPT !.at = "stream", !.left = Deadline]
  <1>1. s \in Question /\ s.stage = "resolve" /\ s.elapsed < Timeout
    BY Constants, Fields DEF QuestionsInv, Dialed, OutOfTime
  <1>2. s.trusted \in Leg /\ s.elapsed \in Nat
    BY <1>1, Fields
  <1>3. t \in Leg /\ t.left = StreamTimeout
    <2> DEFINE u == s.trusted
               L == 0..(NetTimeout + StreamTimeout)
    <2>1. Deadline \in L /\ Deadline = StreamTimeout
      BY Constants DEF Deadline
    <2>2. u \in [at : {"off", "net", "dial", "stream", "done"}, left : L, result : Results]
      BY <1>2 DEF Leg
    <2>3. Leg = [at : {"off", "net", "dial", "stream", "done"}, left : L, result : Results]
      BY DEF Leg
    <2> HIDE DEF u, L
    <2>4. [u EXCEPT !.at = "stream", !.left = Deadline] \in Leg
      BY <2>1, <2>2, <2>3
    <2>5. [u EXCEPT !.at = "stream", !.left = Deadline].left = StreamTimeout
      BY <2>1, <2>2
    <2> QED BY <2>4, <2>5 DEF u
  <1>4. s.elapsed + t.left <= MaxElapsed
    BY <1>1, <1>2, <1>3, Constants
  <1>5. Becomes(q, [s EXCEPT !.trusted = t])
    BY <1>1 DEF Dialed, Question
  <1> HIDE DEF t
  <1> QED BY <1>1, <1>3, <1>4, <1>5, TrustedMoves

LEMMA StreamKeeps ==
    ASSUME QuestionsInv, NEW q \in Queries, StreamFails(q) \/ StreamAnswers(q)
    PROVE  QuestionsInv'
  <1>1. CASE StreamFails(q)
    <2>1. Fallback(q) \in Leg /\ Fallback(q).at # "stream"
      BY LegsOK, AnswersOK DEF Fallback, Done, ViaNet
    <2> QED BY <1>1, <2>1, TrustedMoves DEF StreamFails
  <1>2. CASE StreamAnswers(q)
    <2>1. PICK a \in Answers : Becomes(q, [query[q] EXCEPT !.trusted = Done(a)])
      BY <1>2 DEF StreamAnswers
    <2>2. Done(a) \in Leg /\ Done(a).at = "done"
      BY LegsOK, AnswersOK DEF Done
    <2> QED BY <1>2, <2>1, <2>2, TrustedMoves DEF StreamAnswers
  <1> QED BY <1>1, <1>2

\* Time passes only while every question that is being resolved waits for a leg
\* that has time left.
LEMMA TickKeeps ==
    ASSUME QuestionsInv, Tick
    PROVE  QuestionsInv'
  <1> SUFFICES ASSUME NEW q \in Queries
               PROVE  query'[q] \in Question /\ QuestionOK(query'[q])
    BY DEF QuestionsInv, Tick
  <1> DEFINE s == query[q]
             d == [s.domestic EXCEPT !.left = Less(@)]
             t == [s.trusted EXCEPT !.left = Less(@)]
             r == [s EXCEPT !.elapsed = s.elapsed + 1, !.domestic = d, !.trusted = t]
  <1>1. s \in Question /\ QuestionOK(s)
    BY DEF QuestionsInv
  <1>2. CASE s.stage = "idle"
    <2>1. query'[q] = s
      BY <1>2 DEF Tick
    <2> QED BY <1>1, <2>1
  <1>3. CASE s.stage # "idle"
    <2>1. s.stage = "resolve" /\ Waits(q) /\ ~Overdue(q, "domestic") /\ ~Overdue(q, "trusted")
      BY <1>3 DEF Tick
    <2>2. query'[q] = r
      BY <1>1, <1>3 DEF Tick, Question
    <2>3. /\ s.domestic \in Leg /\ s.trusted \in Leg /\ s.elapsed \in Nat
          /\ s.domestic.left \in 0..(NetTimeout + StreamTimeout)
          /\ s.trusted.left \in 0..(NetTimeout + StreamTimeout)
      BY <1>1, Fields
    <2>4. \A n \in 0..(NetTimeout + StreamTimeout) :
             Less(n) \in 0..(NetTimeout + StreamTimeout) /\ (n # 0 => Less(n) = n - 1)
      BY Constants DEF Less
    <2>5. d \in Leg /\ t \in Leg /\ d.at = s.domestic.at /\ t.at = s.trusted.at
          /\ d.result = s.domestic.result /\ t.left = Less(s.trusted.left)
      BY <2>3, <2>4 DEF Leg
    <2>6. s.trusted.at = "stream" => s.trusted.left # 0
      BY <2>1 DEF Overdue
    <2>7. \/ s.elapsed < Timeout
          \/ s.trusted.at = "stream"
      <3>1. s.domestic.at \in {"off", "net", "done"}
        BY <1>1 DEF QuestionOK
      <3>2. s.trusted.at \in {"off", "net", "dial", "stream", "done"}
        BY <1>1, Fields
      <3>3. s.elapsed >= Timeout => s.domestic.at # "net" /\ s.trusted.at \notin {"net", "dial"}
        BY <2>1 DEF Overdue, OutOfTime
      <3>4. s.domestic.at \notin {"off", "done"} \/ s.trusted.at \notin {"off", "done"}
        BY <2>1 DEF Waits
      <3> QED BY <3>1, <3>2, <3>3, <3>4, <2>3, Constants
    <2> HIDE DEF s, d, t
    <2>8. r \in Question
      <3>1. s.elapsed + 1 \in Nat
        BY <2>3
      <3> QED BY <1>1, <2>5, <3>1 DEF Question
    <2>9. /\ r.stage = s.stage /\ r.told = s.told /\ r.result = s.result /\ r.trusted = t
          /\ r.elapsed = s.elapsed + 1 /\ r.domestic = d /\ r.name = s.name
      BY <1>1 DEF Question
    <2>10. s.trusted.at = "stream" => s.elapsed + s.trusted.left <= MaxElapsed
      BY <1>1 DEF QuestionOK
    <2>11. r.elapsed <= MaxElapsed
      BY <2>3, <2>6, <2>7, <2>9, <2>10, Constants
    <2>12. r.trusted.at = "stream" => r.elapsed + r.trusted.left <= MaxElapsed
      BY <2>3, <2>4, <2>5, <2>6, <2>9, <2>10, Constants
    <2>13. QuestionOK(r)
      BY <1>1, <2>1, <2>5, <2>9, <2>11, <2>12 DEF QuestionOK
    <2> QED BY <2>2, <2>8, <2>13
  <1> QED BY <1>2, <1>3

-----------------------------------------------------------------------------
\* The life of an entry is within its bounds.
LEMMA LifetimeOK == \A a \in Answers : Lifetime(a) \in 0..MaxLife
  <1> SUFFICES ASSUME NEW a \in Answers PROVE Lifetime(a) \in 0..MaxLife
    OBVIOUS
  <1>1. a.ttl \in Nat
    BY DnsAssumption
  <1> QED BY <1>1, Constants DEF Lifetime, Clamped, MaxLife

\* cacheResponse: one entry more, or one in the place of another.
LEMMA PutKeeps ==
    ASSUME EntriesInv, ListInv, NEW n \in Names, NEW e \in Entry,
           HasAddresses(e.answer) => e.told, Put(n, e)
    PROVE  EntriesInv' /\ ListInv'
  <1> DEFINE D == DOMAIN cache
             evicts == n \notin D /\ Full
             C == IF evicts THEN D \ {Head(lru)} ELSE D
             L == IF evicts THEN Tail(lru) ELSE lru
  <1>1. /\ cache' = With(IF evicts THEN Without(cache, Head(lru)) ELSE cache, n, e)
        /\ lru' = MovedToBack(L, n)
    BY DEF Put
  <1>2. cache' = [m \in C \cup {n} |-> IF m = n THEN e ELSE cache[m]]
    BY <1>1 DEF With, Without
  <1>3. OnceEach(lru, D) /\ Cardinality(D) <= Capacity
    BY DEF ListInv
  <1>4. IsFiniteSet(D) /\ Cardinality(D) \in Nat
    BY <1>3, OnceLength, FS_CardinalityType
  <1>5. /\ OnceEach(L, C) /\ IsFiniteSet(C) /\ C \subseteq D
        /\ Cardinality(C) \in Nat /\ (n \notin C => Cardinality(C) + 1 <= Capacity)
        /\ Cardinality(C) <= Capacity
    <2>1. CASE evicts
      <3>1. D # {}
        BY <1>4, <2>1, Constants, FS_EmptySet DEF Full
      <3>2. Head(lru) \in D /\ OnceEach(Tail(lru), D \ {Head(lru)})
        BY <1>3, <3>1, TailOnce
      <3>3. IsFiniteSet(C) /\ Cardinality(C) = Cardinality(D) - 1
        BY <1>4, <2>1, <3>2, FS_RemoveElement
      <3>4. Cardinality(C) \in Nat
        BY <3>3, FS_CardinalityType
      <3> QED BY <1>3, <1>4, <2>1, <3>2, <3>3, <3>4, Constants
    <2>2. CASE ~evicts
      BY <1>3, <1>4, <2>2, Constants DEF Full
    <2> QED BY <2>1, <2>2
  <1> HIDE DEF C, L
  <1>6. DOMAIN cache' = C \cup {n}
    BY <1>2
  <1>7. OnceEach(lru', DOMAIN cache')
    BY <1>1, <1>5, <1>6, MovedOnce
  <1>8. Cardinality(C \cup {n}) <= Capacity
    <2>1. CASE n \in C
      <3>1. C \cup {n} = C
        BY <2>1
      <3> QED BY <3>1, <1>5
    <2>2. CASE n \notin C
      BY <2>2, <1>5, FS_AddElement
    <2> QED BY <2>1, <2>2
  <1>9. \A m \in C \cup {n} : cache'[m] = IF m = n THEN e ELSE cache[m]
    BY <1>2
  <1>10. EntriesInv'
    BY <1>5, <1>6, <1>9 DEF EntriesInv
  <1> QED BY <1>6, <1>7, <1>8, <1>10 DEF ListInv

\* Dropping an entry, if there is one.
LEMMA MissDrops ==
    ASSUME EntriesInv, ListInv, NEW n,
           cache' = Without(cache, n), lru' = Unlinked(lru, {n})
    PROVE  EntriesInv' /\ ListInv'
  <1> DEFINE D == DOMAIN cache
  <1>1. cache' = [m \in D \ {n} |-> cache[m]]
    BY DEF Without
  <1>2. OnceEach(lru, D) /\ Cardinality(D) <= Capacity
    BY DEF ListInv
  <1>3. OnceEach(lru', D \ {n})
    BY <1>2, UnlinkedOnce
  <1>4. Cardinality(D \ {n}) <= Capacity
    <2>1. IsFiniteSet(D)
      BY <1>2, OnceLength
    <2>2. Cardinality(D \ {n}) <= Cardinality(D) /\ Cardinality(D) \in Nat
          /\ Cardinality(D \ {n}) \in Nat
      BY <2>1, FS_Subset, FS_CardinalityType
    <2> QED BY <2>2, <1>2, Constants
  <1>5. DOMAIN cache' = D \ {n} /\ \A m \in D \ {n} : cache'[m] = cache[m]
    BY <1>1
  <1> QED BY <1>3, <1>4, <1>5 DEF EntriesInv, ListInv

\* Every step keeps the entries and the list.
LEMMA CacheStep ==
    ASSUME DnsInv, Next
    PROVE  EntriesInv' /\ ListInv'
  <1> USE DEF DnsInv
  <1>1. CASE Tick
    <2>1. /\ cache' = [n \in DOMAIN cache |-> [cache[n] EXCEPT !.left = Less(@)]]
          /\ lru' = lru
      BY <1>1 DEF Tick
    <2>2. DOMAIN cache' = DOMAIN cache
      BY <2>1
    <2>3. ASSUME NEW n \in DOMAIN cache
          PROVE  cache'[n] \in Entry /\ (HasAddresses(cache'[n].answer) => cache'[n].told)
      <3> DEFINE e == cache[n]
      <3>1. e \in Entry /\ (HasAddresses(e.answer) => e.told)
        BY DEF EntriesInv
      <3>2. cache'[n] = [e EXCEPT !.left = Less(e.left)]
        BY <2>1
      <3>3. Less(e.left) \in 0..MaxLife
        BY <3>1, Constants DEF Entry, Less, MaxLife
      <3> HIDE DEF e
      <3>4. [e EXCEPT !.left = Less(e.left)] \in Entry
        BY <3>1, <3>3 DEF Entry
      <3>5. [e EXCEPT !.left = Less(e.left)].answer = e.answer
            /\ [e EXCEPT !.left = Less(e.left)].told = e.told
        BY <3>1 DEF Entry
      <3> QED BY <3>1, <3>2, <3>4, <3>5
    <2> QED BY <2>1, <2>2, <2>3 DEF EntriesInv, ListInv
  <1>2. ASSUME NEW q \in Queries, NEW n \in Names, Hit(q, n)
        PROVE  EntriesInv' /\ ListInv'
    <2>1. cache' = cache /\ lru' = MovedToBack(lru, n) /\ n \in DOMAIN cache
      BY <1>2 DEF Hit, Fresh
    <2>2. DOMAIN cache \cup {n} = DOMAIN cache
      BY <2>1
    <2>3. OnceEach(lru', DOMAIN cache)
      BY <2>1, <2>2, MovedOnce DEF ListInv
    <2> QED BY <2>1, <2>3 DEF EntriesInv, ListInv
  <1>3. ASSUME NEW q \in Queries, NEW n \in Names, Miss(q, n)
        PROVE  EntriesInv' /\ ListInv'
    BY <1>3, MissDrops DEF Miss
  <1>4. ASSUME NEW q \in Queries, CacheResponse(q)
        PROVE  EntriesInv' /\ ListInv'
    <2> DEFINE s == query[q]
               e == [answer |-> s.result, told |-> s.told, left |-> Lifetime(s.result)]
    <2>1. s \in Question /\ QuestionOK(s) /\ s.stage = "cache" /\ Put(s.name, e)
      BY <1>4 DEF QuestionsInv, CacheResponse
    <2>2. s.name \in Names /\ s.told \in BOOLEAN
      BY <2>1, Fields
    <2>3. s.result \in Answers /\ (HasAddresses(s.result) => s.told)
      BY <2>1 DEF QuestionOK
    <2>4. e \in Entry
      BY <2>2, <2>3, LifetimeOK DEF Entry
    <2> QED BY <2>1, <2>2, <2>3, <2>4, PutKeeps
  <1>5. ASSUME UNCHANGED <<cache, lru>>
        PROVE  EntriesInv' /\ ListInv'
    BY <1>5 DEF EntriesInv, ListInv
  <1> QED
    BY <1>1, <1>2, <1>3, <1>4, <1>5
    DEF Next, Decide, Learn, Reply, Dialed, StreamFails, StreamAnswers, NetReturns

\* Every step keeps the questions.
LEMMA QuestionsStep ==
    ASSUME DnsInv, Next
    PROVE  QuestionsInv'
  BY HitKeeps, MissKeeps, DecideKeeps, LearnKeeps, CacheResponseKeeps, ReplyKeeps, DialedKeeps,
     StreamKeeps, NetReturnsKeeps, TickKeeps
  DEF DnsInv, Next

LEMMA InitInv == Init => DnsInv
  <1> SUFFICES ASSUME Init PROVE DnsInv
    OBVIOUS
  <1>1. QuestionsInv
    BY IdleOK DEF Init, QuestionsInv
  <1>2. DOMAIN cache = {} /\ lru = <<>>
    BY DEF Init
  <1>3. OnceEach(lru, {})
    BY <1>2 DEF OnceEach
  <1>4. Cardinality({}) <= Capacity
    BY FS_EmptySet, Constants
  <1> QED BY <1>1, <1>2, <1>3, <1>4 DEF DnsInv, EntriesInv, ListInv

LEMMA Step == DnsInv /\ [Next]_vars => DnsInv'
  <1> SUFFICES ASSUME DnsInv, [Next]_vars PROVE DnsInv'
    OBVIOUS
  <1>1. CASE Next
    BY <1>1, QuestionsStep, CacheStep DEF DnsInv
  <1>2. CASE UNCHANGED vars
    BY <1>2 DEF vars, DnsInv, QuestionsInv, EntriesInv, ListInv
  <1> QED BY <1>1, <1>2

-----------------------------------------------------------------------------
\* The cache stays within its capacity, of the right types, and its list has one
\* element for every entry, whatever the questions do at once (cache.go:37-81).
THEOREM CacheCorrect == Spec => []CacheConsistent
  <1>1. DnsInv => CacheConsistent
    <2> SUFFICES ASSUME DnsInv PROVE CacheConsistent
      OBVIOUS
    <2>1. lru \in Seq(Names)
      BY DEF DnsInv, EntriesInv, ListInv, OnceEach
    <2> QED BY <2>1 DEF DnsInv, QuestionsInv, EntriesInv, ListInv, CacheConsistent, TypeOK
  <1> QED BY <1>1, InitInv, Step, PTL DEF Spec

\* No client gets addresses whose route has not been learned, from an upstream or
\* from the cache (resolver.go:85-86).
THEOREM RepliesCorrect == Spec => []RepliesLearned
  <1>1. DnsInv => RepliesLearned
    BY DEF DnsInv, QuestionsInv, QuestionOK, RepliesLearned, HasAddresses
  <1> QED BY <1>1, InitInv, Step, PTL DEF Spec

\* Unclassified names are resolved by the answers, not by their order
\* (resolver.go:107-114).
THEOREM UnknownCorrect == Spec => []UnknownByAnswers
  <1>1. DnsInv => UnknownByAnswers
    BY DEF DnsInv, QuestionsInv, QuestionOK, UnknownByAnswers
  <1> QED BY <1>1, InitInv, Step, PTL DEF Spec

\* A question takes no longer than the resolver's timeout and the stream's
\* together (resolver.go:121-124, dnstcp.go:26-31, dnsfallback.go:27-31).
THEOREM TimeCorrect == Spec => []AnsweredInTime
  <1>1. DnsInv => AnsweredInTime
    BY DEF DnsInv, QuestionsInv, QuestionOK, AnsweredInTime
  <1> QED BY <1>1, InitInv, Step, PTL DEF Spec
=============================================================================
