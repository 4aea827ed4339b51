-------------------------- MODULE UdpSessionsProofs --------------------------
(***************************************************************************)
(* Proofs about UdpSessions for any flows, session objects, capacity and   *)
(* idle timeout.  TableUsable and ReplacementSurvives are proved for both  *)
(* layers; NothingLeaks and ClosingDoesNotFailPrimary for the fallback     *)
(* layer, which looks at s.closed before it opens a backup.                *)
(***************************************************************************)
EXTENDS UdpSessions, RecencyProofs

\* The steps of the reader on a session that has been added.
Sending == {"send", "sending", "failed", "swap", "drop"}

Served == {f \in Flows : entries[f] # None}

\* The map, its list and the flows the sessions were added for.
TableInv ==
    /\ OnceEach(lru, Served)
    /\ Len(lru) <= Capacity
    /\ \A f \in Flows : entries[f] # None => key[entries[f]] = f

\* What the reader holds: a session it has opened is nobody else's until it is
\* added, one it sends on belongs to its flow.
ReaderInv ==
    /\ reader.sess = None <=> reader.step \in {"idle", "open"}
    /\ reader.step \in {"reply", "add"} =>
         /\ ~InTable(reader.sess) /\ receiver[reader.sess] = "none"
         /\ ~closed[reader.sess] /\ ~moved[reader.sess]
         /\ conn[reader.sess]["first"] = "open"
    /\ reader.step \in Sending => key[reader.sess] = reader.flow
    /\ reader.step = "sending" => reader.packet = IF reader.backup THEN "second" ELSE "first"

\* At most the current connection of a session is open.  A session in the table
\* has its receiver and is not closed; if a failed move has cost it its connection,
\* the reader is about to drop it.
SessionOK(i) ==
    /\ \A c \in Both : c # Current(i) => conn[i][c] # "open"
    /\ InTable(i) =>
         /\ receiver[i] # "none" /\ ~closed[i]
         /\ conn[i][Current(i)] = "closed" => Held(i) /\ reader.step = "drop"

UdpInv == TypeOK /\ TableInv /\ ReaderInv /\ \A i \in Ids : SessionOK(i)

\* The fallback layer: what is not closed and not moved has its first connection
\* open, so that an error on it is the relay's, and what is open is in the table or
\* about to be added.
FallbackOK(i) ==
    /\ receiver[i] # "none" /\ ~closed[i] /\ ~moved[i] => conn[i]["first"] = "open"
    /\ receiver[i] \in {"recv", "check"} /\ ~moved[i] => seen[i] = "first"
    /\ receiver[i] = "check" /\ ~closed[i] /\ ~moved[i] => "first" \in broken[i]
    /\ Unreleased(i) => InTable(i) \/ (Held(i) /\ reader.step \in {"reply", "add"})
    /\ Held(i) /\ reader.step \in Sending /\ ~closed[i] => InTable(i)

FallbackInv ==
    /\ \A i \in Ids : FallbackOK(i)
    /\ reader.step = "failed" => /\ wrapped[reader.sess] /\ reader.packet = "first"
                                 /\ "first" \in broken[reader.sess]
    /\ blamed = {}

-----------------------------------------------------------------------------
\* A session in the table is found under the flow it was added for.
LEMMA UnderItsKey ==
    ASSUME TypeOK, TableInv, NEW i \in Ids
    PROVE  /\ InTable(i) <=> entries[key[i]] = i
           /\ \A f \in Flows : entries[f] = i => f = key[i]
  BY UdpAssumption DEF TypeOK, TableInv, InTable

\* Closing sessions closes their current connections and touches nothing else.
LEMMA Closes ==
    ASSUME TypeOK, NEW S, CloseSessions(S)
    PROVE  /\ closed' \in [Ids -> BOOLEAN]
           /\ conn' \in [Ids -> [Both -> {"none", "open", "closed"}]]
           /\ \A i \in Ids : i \notin S => closed'[i] = closed[i] /\ conn'[i] = conn[i]
           /\ \A i \in Ids : i \in S =>
                /\ closed'[i] /\ conn'[i][Current(i)] = "closed"
                /\ \A c \in Both : c # Current(i) => conn'[i][c] = conn[i][c]
  <1>1. /\ conn' = [i \in Ids |-> IF i \in S THEN [conn[i] EXCEPT ![Current(i)] = "closed"]
                                  ELSE conn[i]]
        /\ closed' = [i \in Ids |-> i \in S \/ closed[i]]
    BY DEF CloseSessions
  <1>2. \A i \in Ids : Current(i) \in Both /\ conn[i] \in [Both -> {"none", "open", "closed"}]
    BY DEF Current, Both, TypeOK
  <1>3. conn' \in [Ids -> [Both -> {"none", "open", "closed"}]]
    BY <1>1, <1>2
  <1>4. closed' \in [Ids -> BOOLEAN]
    BY <1>1
  <1>5. \A i \in Ids : i \notin S => conn'[i] = conn[i]
    BY <1>1
  <1>6. \A i \in Ids : i \notin S => closed'[i] = closed[i]
    BY <1>1 DEF TypeOK
  <1>7. ASSUME NEW i \in Ids, i \in S
        PROVE  /\ closed'[i] /\ conn'[i][Current(i)] = "closed"
               /\ \A c \in Both : c # Current(i) => conn'[i][c] = conn[i][c]
    BY <1>1, <1>2, <1>7, Zenon
  <1> QED BY <1>3, <1>4, <1>5, <1>6, <1>7

\* The sessions of a set of flows are those in the table that were added for them.
SessionsOf(F) == {entries[f] : f \in F} \ {None}

LEMMA OfFlows ==
    ASSUME TypeOK, TableInv, NEW F, F \subseteq Flows, NEW i \in Ids
    PROVE  i \in SessionsOf(F) <=> InTable(i) /\ key[i] \in F
  <1>1. i # None
    BY UdpAssumption
  <1> QED BY <1>1, UnderItsKey DEF SessionsOf, InTable

\* Flows leave the table.
LEMMA DropKeeps ==
    ASSUME TypeOK, TableInv, NEW F, F \subseteq Flows,
           entries' = [f \in Flows |-> IF f \in F THEN None ELSE entries[f]],
           lru' = Unlinked(lru, F), key' = key
    PROVE  /\ entries' \in [Flows -> Ids \cup {None}] /\ lru' \in Seq(Flows) /\ TableInv'
           /\ \A i \in Ids : InTable(i)' <=> InTable(i) /\ key[i] \notin F
  <1>1. entries' \in [Flows -> Ids \cup {None}]
    BY DEF TypeOK
  <1>2. Served' = Served \ F
    BY DEF Served, TypeOK
  <1>3. OnceEach(lru, Served) /\ Len(lru) <= Capacity
    BY DEF TableInv
  <1>4. OnceEach(lru', Served')
    BY <1>2, <1>3, UnlinkedOnce
  <1>5. lru' \in Seq(Flows)
    <2>1. Served' \subseteq Flows
      BY DEF Served
    <2> QED BY <1>4, <2>1, OnceSeq
  <1>6. Len(lru') <= Capacity
    <2>1. IsFiniteSet(Served) /\ Cardinality(Served) = Len(lru) /\ Cardinality(Served') = Len(lru')
      BY <1>3, <1>4, OnceLength
    <2>2. Cardinality(Served') <= Cardinality(Served) /\ Cardinality(Served) \in Nat
          /\ Cardinality(Served') \in Nat
      BY <1>2, <2>1, FS_Subset, FS_CardinalityType
    <2> QED BY <1>3, <2>1, <2>2, UdpAssumption
  <1>7. \A f \in Flows : entries'[f] # None => key'[entries'[f]] = f
    BY DEF TableInv
  <1>8. TableInv'
    BY <1>4, <1>6, <1>7 DEF TableInv
  <1>9. ASSUME NEW i \in Ids PROVE InTable(i)' <=> InTable(i) /\ key[i] \notin F
    <2>1. i # None /\ key[i] \in Flows
      BY UdpAssumption DEF TypeOK
    <2> QED BY <2>1, UnderItsKey DEF InTable
  <1> QED BY <1>1, <1>5, <1>8, <1>9

\* Nobody enters or leaves the table.
LEMMA TableStays ==
    ASSUME TypeOK, TableInv, UNCHANGED <<entries, lru, key>>
    PROVE  /\ TableInv' /\ \A i \in Ids : InTable(i)' <=> InTable(i)
           /\ entries' \in [Flows -> Ids \cup {None}] /\ lru' \in Seq(Flows)
           /\ key' \in [Ids -> Flows]
  BY DEF TypeOK, TableInv, Served, InTable

\* The fields of the reader.
LEMMA ReaderFields ==
    ASSUME TypeOK
    PROVE  /\ reader.step \in ReaderSteps /\ reader.flow \in Flows
           /\ reader.sess \in Ids \cup {None} /\ reader.packet \in Both
           /\ reader.backup \in BOOLEAN
  BY DEF TypeOK

\* The reader has a session while it works on one.
LEMMA ReaderHas ==
    ASSUME TypeOK, ReaderInv, reader.step \notin {"idle", "open"}
    PROVE  reader.sess \in Ids /\ Held(reader.sess)
  BY ReaderFields DEF ReaderInv, Held

\* Only the reader moves, to a step other than one on a newly opened session.
LEMMA ReaderAlone ==
    ASSUME UdpInv, reader.step # "drop", reader' \in [step : ReaderSteps, flow : Flows,
               sess : Ids \cup {None}, packet : Both, backup : BOOLEAN],
           ReaderInv', UNCHANGED <<tableVars, key, receiver, seen, sessionVars>>,
           blamed' \subseteq Ids
    PROVE  UdpInv'
  <1>1. /\ entries' = entries /\ lru' = lru /\ idleLeft' = idleLeft /\ key' = key
        /\ receiver' = receiver /\ seen' = seen /\ conn' = conn /\ broken' = broken
        /\ wrapped' = wrapped /\ moved' = moved /\ closed' = closed
    BY DEF tableVars, sessionVars
  <1>2. TypeOK'
    BY <1>1 DEF UdpInv, TypeOK
  <1>3. TableInv' /\ \A i \in Ids : InTable(i)' <=> InTable(i)
    BY <1>1, TableStays DEF UdpInv
  <1>4. ASSUME NEW i \in Ids PROVE SessionOK(i)'
    <2>1. SessionOK(i) /\ Current(i)' = Current(i)
      BY <1>1 DEF UdpInv, Current
    <2> QED BY <1>1, <1>3, <2>1 DEF SessionOK
  <1> QED BY <1>2, <1>3, <1>4 DEF UdpInv

LEMMA ReaderQuiet ==
    ASSUME UdpInv, OpenFails \/ ReplyReady \/ SendSnapshot \/ SendOK \/ SendErr \/ SendFailed
    PROVE  UdpInv'
  <1> DEFINE R == [step : ReaderSteps, flow : Flows,
                   sess : Ids \cup {None}, packet : Both, backup : BOOLEAN]
  <1>0. TypeOK /\ ReaderInv /\ reader \in R /\ blamed \subseteq Ids
    BY DEF UdpInv, TypeOK
  <1>1. UNCHANGED <<tableVars, key, receiver, seen, sessionVars>> /\ reader.step # "drop"
    BY DEF OpenFails, ReplyReady, SendSnapshot, SendOK, SendErr, SendFailed
  <1>2. blamed' \subseteq Ids
    <2>1. CASE SendFailed
      BY <1>0, <2>1, ReaderHas DEF SendFailed, Blame
    <2>2. CASE blamed' = blamed
      BY <1>0, <2>2
    <2> QED BY <2>1, <2>2 DEF OpenFails, ReplyReady, SendSnapshot, SendOK, SendErr
  <1>3. /\ receiver' = receiver /\ closed' = closed /\ moved' = moved /\ conn' = conn
        /\ key' = key /\ \A i \in Ids : InTable(i)' <=> InTable(i)
    BY <1>0, <1>1, TableStays DEF tableVars, sessionVars, UdpInv
  <1>4. reader' \in R /\ ReaderInv'
    <2>1. CASE OpenFails \/ SendOK
      <3>1. reader' = [reader EXCEPT !.step = "idle", !.sess = None]
        BY <2>1 DEF OpenFails, SendOK, ReaderDone
      <3>2. reader' \in R /\ reader'.step = "idle" /\ reader'.sess = None
        BY <1>0, <3>1, Zenon DEF ReaderSteps
      <3> QED BY <3>2 DEF ReaderInv, Sending
    <2>2. CASE ReplyReady
      <3>1. reader' = [reader EXCEPT !.step = "add"] /\ reader.step = "reply"
        BY <2>2 DEF ReplyReady, ReaderTo
      <3>2. reader' \in R /\ reader'.step = "add" /\ reader'.sess = reader.sess
        BY <1>0, <3>1 DEF ReaderSteps
      <3>3. reader.sess \in Ids
        BY <1>0, <3>1, ReaderHas
      <3> QED BY <1>0, <1>3, <3>1, <3>2, <3>3 DEF ReaderInv, Sending
    <2>3. CASE SendErr \/ SendFailed
      <3>1. PICK s \in {"drop", "failed", "swap"} : reader' = [reader EXCEPT !.step = s]
        BY <2>3 DEF SendErr, SendFailed, ReaderTo
      <3>2. reader.step \in {"sending", "failed"}
        BY <2>3 DEF SendErr, SendFailed
      <3>3. reader' \in R /\ reader'.step = s /\ reader'.sess = reader.sess
            /\ reader'.flow = reader.flow
        BY <1>0, <3>1 DEF ReaderSteps
      <3> QED BY <1>0, <1>3, <3>2, <3>3 DEF ReaderInv, Sending
    <2>4. CASE SendSnapshot
      <3> DEFINE i == reader.sess
      <3>1. reader.step = "send"
        BY <2>4 DEF SendSnapshot
      <3>2. CASE reader' = [reader EXCEPT !.step = "drop"]
        <4>1. reader' \in R /\ reader'.step = "drop" /\ reader'.sess = reader.sess
              /\ reader'.flow = reader.flow
          BY <1>0, <3>2 DEF ReaderSteps
        <4> QED BY <1>0, <1>3, <3>1, <4>1 DEF ReaderInv, Sending
      <3>3. CASE reader' = [reader EXCEPT !.step = "sending", !.packet = Current(i),
                                          !.backup = moved[i]]
        <4>1. Current(i) \in Both /\ moved[i] \in BOOLEAN
              /\ Current(i) = IF moved[i] THEN "second" ELSE "first"
          BY <1>0, <3>1, ReaderHas DEF Current, Both, TypeOK
        <4>2. reader' \in R /\ reader'.step = "sending" /\ reader'.sess = reader.sess
              /\ reader'.flow = reader.flow /\ reader'.packet = Current(i)
              /\ reader'.backup = moved[i]
          BY <1>0, <3>3, <4>1, Zenon DEF ReaderSteps
        <4> QED BY <1>0, <1>3, <3>1, <4>1, <4>2 DEF ReaderInv, Sending
      <3> QED BY <2>4, <3>2, <3>3 DEF SendSnapshot, ReaderTo
    <2> QED BY <2>1, <2>2, <2>3, <2>4
  <1> QED BY <1>1, <1>2, <1>4, ReaderAlone

\* A session is opened for the reader.
LEMMA OpenPacketKeeps ==
    ASSUME UdpInv, NEW i \in Ids, OpenPacket(i)
    PROVE  UdpInv'
  <1>0. TypeOK /\ TableInv /\ ReaderInv /\ reader.step = "open" /\ Free(i)
    BY DEF UdpInv, OpenPacket
  <1>1. /\ entries' = entries /\ lru' = lru /\ idleLeft' = idleLeft /\ key' = key
        /\ receiver' = receiver /\ seen' = seen /\ blamed' = blamed \ {i}
        /\ broken' = [broken EXCEPT ![i] = {}]
        /\ moved' = [moved EXCEPT ![i] = FALSE] /\ closed' = [closed EXCEPT ![i] = FALSE]
        /\ conn' = [conn EXCEPT ![i] = [Fresh EXCEPT !["first"] = "open"]]
    BY DEF OpenPacket, tableVars
  <1>2. reader'.step = "reply" /\ reader'.sess = i /\ reader' \in [step : ReaderSteps,
            flow : Flows, sess : Ids \cup {None}, packet : Both, backup : BOOLEAN]
    BY <1>0, Zenon DEF OpenPacket, TypeOK, ReaderSteps
  <1>3. wrapped' \in [Ids -> BOOLEAN]
    BY <1>0 DEF OpenPacket, TypeOK
  <1>4. [Fresh EXCEPT !["first"] = "open"] = [c \in Both |-> IF c = "first" THEN "open" ELSE "none"]
    BY DEF Fresh, Both
  <1>5. TableInv' /\ \A j \in Ids : InTable(j)' <=> InTable(j)
    BY <1>0, <1>1, TableStays
  <1>6. TypeOK'
    <2>1. conn' \in [Ids -> [Both -> {"none", "open", "closed"}]]
      BY <1>0, <1>1, <1>4, Zenon DEF TypeOK
    <2> QED BY <1>0, <1>1, <1>2, <1>3, <2>1 DEF TypeOK
  <1>7. moved'[i] = FALSE /\ closed'[i] = FALSE /\ conn'[i]["first"] = "open"
        /\ conn'[i]["second"] = "none" /\ "first" # "second"
    <2>1. conn'[i] = [c \in Both |-> IF c = "first" THEN "open" ELSE "none"]
      BY <1>0, <1>1, <1>4 DEF TypeOK
    <2>2. moved'[i] = FALSE /\ closed'[i] = FALSE
      BY <1>0, <1>1 DEF TypeOK
    <2> QED BY <2>1, <2>2 DEF Both
  <1>8. ReaderInv'
    BY <1>0, <1>1, <1>2, <1>5, <1>7, UdpAssumption DEF ReaderInv, Free, Sending
  <1>9. ASSUME NEW j \in Ids PROVE SessionOK(j)'
    <2>1. CASE j = i
      BY <1>0, <1>5, <1>7, <2>1 DEF SessionOK, Current, Free, Both
    <2>2. CASE j # i
      <3>1. conn'[j] = conn[j] /\ closed'[j] = closed[j] /\ moved'[j] = moved[j] /\ SessionOK(j)
        BY <1>0, <1>1, <2>2 DEF TypeOK, UdpInv
      <3> QED BY <1>0, <1>1, <1>5, <3>1, Zenon DEF SessionOK, Current
    <2> QED BY <2>1, <2>2
  <1> QED BY <1>5, <1>6, <1>8, <1>9 DEF UdpInv

\* It is closed again when the reply socket cannot be opened.
LEMMA ReplyFailsKeeps ==
    ASSUME UdpInv, ReplyFails
    PROVE  UdpInv'
  <1> DEFINE s == reader.sess
  <1>0. TypeOK /\ TableInv /\ ReaderInv /\ reader.step = "reply" /\ CloseSessions({s})
    BY DEF UdpInv, ReplyFails
  <1>1. /\ entries' = entries /\ lru' = lru /\ idleLeft' = idleLeft /\ key' = key
        /\ receiver' = receiver /\ seen' = seen /\ blamed' = blamed
        /\ broken' = broken /\ wrapped' = wrapped /\ moved' = moved
    BY DEF ReplyFails, tableVars
  <1>2. reader'.step = "idle" /\ reader'.sess = None /\ reader' \in [step : ReaderSteps,
            flow : Flows, sess : Ids \cup {None}, packet : Both, backup : BOOLEAN]
    BY <1>0, Zenon DEF ReplyFails, ReaderDone, TypeOK, ReaderSteps
  <1>3. s \in Ids /\ ~InTable(s)
    BY <1>0, ReaderHas DEF ReaderInv
  <1>5. TableInv' /\ \A j \in Ids : InTable(j)' <=> InTable(j)
    BY <1>0, <1>1, TableStays
  <1>6. TypeOK'
    BY <1>0, <1>1, <1>2, Closes DEF TypeOK
  <1>8. ReaderInv'
    BY <1>2 DEF ReaderInv, Sending
  <1>9. ASSUME NEW j \in Ids PROVE SessionOK(j)'
    <2>0. SessionOK(j) /\ Current(j)' = Current(j)
      BY <1>1 DEF UdpInv, Current
    <2>1. CASE j = s
      <3>1. \A c \in Both : c # Current(j) => conn'[j][c] = conn[j][c]
        BY <1>0, <2>1, Closes
      <3> QED BY <1>3, <1>5, <2>0, <2>1, <3>1 DEF SessionOK
    <2>2. CASE j # s
      <3>1. conn'[j] = conn[j] /\ closed'[j] = closed[j]
        BY <1>0, <2>2, Closes
      <3> QED BY <1>0, <1>1, <1>5, <2>0, <3>1 DEF SessionOK
    <2> QED BY <2>1, <2>2
  <1> QED BY <1>5, <1>6, <1>8, <1>9 DEF UdpInv

\* Both kinds of session: the move to the second connection, or the failure of it.
LEMMA SwapKeeps ==
    ASSUME UdpInv, Swap \/ SwapDirect
    PROVE  UdpInv'
  <1> DEFINE s == reader.sess
  <1>0. TypeOK /\ TableInv /\ ReaderInv /\ reader.step = "swap"
    BY DEF UdpInv, Swap, SwapDirect
  <1>1. /\ entries' = entries /\ lru' = lru /\ idleLeft' = idleLeft /\ key' = key
        /\ receiver' = receiver /\ seen' = seen /\ broken' = broken /\ wrapped' = wrapped
        /\ closed' = closed
    BY DEF Swap, SwapDirect, tableVars
  <1>2. s \in Ids
    BY <1>0, ReaderHas
  <1>3. PICK how \in {"stay", "move", "fail"} :
           /\ how = "stay" => conn' = conn /\ moved' = moved
           /\ how = "move" => /\ conn' = [conn EXCEPT ![s] = [first |-> "closed", second |-> "open"]]
                              /\ moved' = [moved EXCEPT ![s] = TRUE]
           /\ how = "fail" => /\ conn' = [conn EXCEPT ![s] = [first |-> "closed", second |-> "none"]]
                              /\ moved' = moved
           /\ how # "move" => ReaderTo("drop")
           /\ ReaderDone \/ ReaderTo("drop")
    <2>1. CASE Swap
      <3>1. CASE UNCHANGED <<conn, moved>> /\ ReaderTo("drop")
        BY <3>1
      <3>2. CASE /\ moved' = [moved EXCEPT ![s] = TRUE]
                 /\ conn' = [conn EXCEPT ![s] = [first |-> "closed", second |-> "open"]]
                 /\ ReaderDone \/ ReaderTo("drop")
        BY <3>2
      <3> QED BY <2>1, <3>1, <3>2 DEF Swap
    <2>2. CASE SwapDirect
      <3>1. CASE UNCHANGED moved /\ conn' = [conn EXCEPT ![s] = [first |-> "closed", second |-> "none"]]
        BY <2>2, <3>1 DEF SwapDirect
      <3>2. CASE /\ moved' = [moved EXCEPT ![s] = TRUE]
                 /\ conn' = [conn EXCEPT ![s] = [first |-> "closed", second |-> "open"]]
        BY <2>2, <3>2 DEF SwapDirect
      <3> QED BY <2>2, <3>1, <3>2 DEF SwapDirect
    <2> QED BY <2>1, <2>2
  <1>4. /\ reader' \in [step : ReaderSteps, flow : Flows, sess : Ids \cup {None},
                        packet : Both, backup : BOOLEAN]
        /\ \/ reader'.step = "idle" /\ reader'.sess = None
           \/ reader'.step = "drop" /\ reader'.sess = s /\ reader'.flow = reader.flow
        /\ how # "move" => reader'.step = "drop" /\ reader'.sess = s
    BY <1>0, <1>3, Zenon DEF ReaderTo, ReaderDone, TypeOK, ReaderSteps
  <1>5. TableInv' /\ \A j \in Ids : InTable(j)' <=> InTable(j)
    BY <1>0, <1>1, TableStays
  <1>6. TypeOK'
    <2>1. blamed' \subseteq Ids
      BY <1>0, <1>2 DEF Swap, SwapDirect, Blame, TypeOK
    <2>2. [first |-> "closed", second |-> "open"] \in [Both -> {"none", "open", "closed"}]
          /\ [first |-> "closed", second |-> "none"] \in [Both -> {"none", "open", "closed"}]
      BY DEF Both
    <2>3. conn' \in [Ids -> [Both -> {"none", "open", "closed"}]]
      <3>1. PICK v \in [Both -> {"none", "open", "closed"}] :
               conn' = conn \/ conn' = [conn EXCEPT ![s] = v]
        BY <1>3, <2>2
      <3> QED BY <1>0, <3>1, Zenon DEF TypeOK
    <2>4. moved' \in [Ids -> BOOLEAN]
      BY <1>0, <1>3, Zenon DEF TypeOK
    <2> QED BY <1>0, <1>1, <1>4, <2>1, <2>3, <2>4 DEF TypeOK
  <1>7. ReaderInv'
    BY <1>0, <1>1, <1>2, <1>4, UdpAssumption DEF ReaderInv, Sending
  <1>8. ASSUME NEW j \in Ids PROVE SessionOK(j)'
    <2>0. SessionOK(j)
      BY DEF UdpInv
    <2>1. CASE j = s /\ how = "stay"
      <3>1. conn' = conn /\ moved' = moved
        BY <1>3, <2>1
      <3> QED BY <1>0, <1>1, <1>4, <1>5, <2>0, <2>1, <3>1 DEF SessionOK, Current, Held
    <2>2. CASE j = s /\ how = "move"
      <3>1. moved'[j] /\ conn'[j]["first"] = "closed" /\ conn'[j]["second"] = "open"
        BY <1>0, <1>3, <2>2 DEF TypeOK
      <3> QED BY <1>1, <1>5, <2>0, <3>1 DEF SessionOK, Current, Both
    <2>3. CASE j = s /\ how = "fail"
      <3>1. conn'[j]["first"] = "closed" /\ conn'[j]["second"] = "none"
        BY <1>0, <1>3, <2>3 DEF TypeOK
      <3> QED BY <1>1, <1>4, <1>5, <2>0, <2>3, <3>1 DEF SessionOK, Both, Held
    <2>4. CASE j # s
      <3>1. conn'[j] = conn[j] /\ moved'[j] = moved[j]
        BY <1>0, <1>3, <2>4 DEF TypeOK
      <3> QED BY <1>0, <1>1, <1>5, <2>0, <3>1 DEF SessionOK, Current
    <2> QED BY <2>1, <2>2, <2>3, <2>4
  <1> QED BY <1>5, <1>6, <1>7, <1>8 DEF UdpInv

\* A receiver that goes on, a connection that breaks, time that passes.
LEMMA QuietKeeps ==
    ASSUME UdpInv,
           \/ \E i \in Ids : \/ ReceiveSnapshot(i) \/ ReceiveReply(i)
                             \/ ReceiveErr(i) \/ ReceiveCheck(i)
           \/ \E i \in Ids, c \in Both : Break(i, c)
           \/ Tick
    PROVE  UdpInv'
  <1>0. TypeOK /\ TableInv /\ ReaderInv
    BY DEF UdpInv
  <1>1. /\ entries' = entries /\ lru' = lru /\ key' = key /\ reader' = reader
        /\ conn' = conn /\ wrapped' = wrapped /\ moved' = moved /\ closed' = closed
    BY DEF ReceiveSnapshot, ReceiveReply, ReceiveErr, ReceiveCheck, Break, Tick,
           tableVars, sessionVars
  <1>2. \/ receiver' = receiver
        \/ \E i \in Ids : /\ receiver[i] # "none"
                          /\ \E s \in {"start", "recv", "check", "remove"} :
                                receiver' = [receiver EXCEPT ![i] = s]
    <2>1. ASSUME NEW i \in Ids, ReceiveSnapshot(i) \/ ReceiveReply(i)
                                  \/ ReceiveErr(i) \/ ReceiveCheck(i)
          PROVE  /\ receiver[i] # "none"
                 /\ \E s \in {"start", "recv", "check", "remove"} :
                       receiver' = [receiver EXCEPT ![i] = s]
      BY <2>1 DEF ReceiveSnapshot, ReceiveReply, ReceiveErr, ReceiveCheck, ReceiverTo, AfterErr
    <2>2. Tick \/ (\E i \in Ids, c \in Both : Break(i, c)) => receiver' = receiver
      BY DEF Break, Tick
    <2> QED BY <2>1, <2>2
  <1>3. /\ receiver' \in [Ids -> {"none", "start", "recv", "check", "remove"}]
        /\ \A j \in Ids : receiver'[j] = "none" <=> receiver[j] = "none"
    BY <1>0, <1>2, Zenon DEF TypeOK
  <1>4. /\ seen' \in [Ids -> Both] /\ blamed' \subseteq Ids
        /\ broken' \in [Ids -> SUBSET Both] /\ idleLeft' \in [Flows -> 0..Idle]
    <2>0. /\ seen \in [Ids -> Both] /\ blamed \subseteq Ids
          /\ broken \in [Ids -> SUBSET Both] /\ idleLeft \in [Flows -> 0..Idle]
      BY <1>0 DEF TypeOK
    <2>1. CASE \E i \in Ids : \/ ReceiveSnapshot(i) \/ ReceiveReply(i)
                              \/ ReceiveErr(i) \/ ReceiveCheck(i)
      <3>1. PICK i \in Ids : \/ ReceiveSnapshot(i) \/ ReceiveReply(i)
                             \/ ReceiveErr(i) \/ ReceiveCheck(i)
        BY <2>1
      <3>2. Current(i) \in Both
        BY DEF Current, Both
      <3>3. broken' = broken /\ idleLeft' = idleLeft
        BY <3>1 DEF ReceiveSnapshot, ReceiveReply, ReceiveErr, ReceiveCheck, tableVars, sessionVars
      <3>4. seen' = seen \/ seen' = [seen EXCEPT ![i] = Current(i)]
        BY <3>1 DEF ReceiveSnapshot, ReceiveReply, ReceiveErr, ReceiveCheck
      <3>5. blamed' = blamed \/ blamed' = blamed \cup {i}
        BY <3>1 DEF ReceiveSnapshot, ReceiveReply, ReceiveErr, ReceiveCheck, Blame
      <3> QED BY <2>0, <3>2, <3>3, <3>4, <3>5
    <2>2. CASE \E i \in Ids, c \in Both : Break(i, c)
      BY <2>0, <2>2 DEF Break, tableVars
    <2>3. CASE Tick
      <3>1. idleLeft' = [f \in Flows |-> IF idleLeft[f] > 0 THEN idleLeft[f] - 1 ELSE 0]
        BY <2>3 DEF Tick
      <3>2. idleLeft' \in [Flows -> 0..Idle]
        BY <2>0, <3>1, UdpAssumption
      <3> QED BY <2>0, <2>3, <3>2 DEF Tick, sessionVars
    <2> QED BY <2>1, <2>2, <2>3
  <1>5. TableInv' /\ \A j \in Ids : InTable(j)' <=> InTable(j)
    BY <1>0, <1>1, TableStays
  <1>6. TypeOK'
    BY <1>0, <1>1, <1>3, <1>4 DEF TypeOK
  <1>7. ReaderInv'
    <2>1. reader.step \in {"reply", "add"} => reader.sess \in Ids
      BY <1>0, ReaderHas
    <2> QED BY <1>0, <1>1, <1>3, <1>5, <2>1 DEF ReaderInv
  <1>8. ASSUME NEW j \in Ids PROVE SessionOK(j)'
    <2>0. SessionOK(j)
      BY DEF UdpInv
    <2> QED BY <1>1, <1>3, <1>5, <2>0 DEF SessionOK, Current, Held
  <1> QED BY <1>5, <1>6, <1>7, <1>8 DEF UdpInv

\* The sessions of flows that leave the table are closed with nothing left open;
\* no other session changes.
LEMMA SessionsLeave ==
    ASSUME UdpInv, NEW F, F \subseteq Flows, CloseSessions(SessionsOf(F)), moved' = moved
    PROVE  /\ closed' \in [Ids -> BOOLEAN]
           /\ conn' \in [Ids -> [Both -> {"none", "open", "closed"}]]
           /\ \A j \in Ids : InTable(j) /\ key[j] \in F =>
                closed'[j] /\ \A c \in Both : conn'[j][c] # "open"
           /\ \A j \in Ids : ~(InTable(j) /\ key[j] \in F) =>
                closed'[j] = closed[j] /\ conn'[j] = conn[j]
           /\ \A j \in Ids : \A c \in Both : c # Current(j) => conn'[j][c] # "open"
  <1>0. TypeOK /\ TableInv /\ \A j \in Ids : \A c \in Both : c # Current(j) => conn[j][c] # "open"
    BY DEF UdpInv, SessionOK
  <1>1. \A j \in Ids : j \in SessionsOf(F) <=> InTable(j) /\ key[j] \in F
    BY <1>0, OfFlows
  <1>2. /\ closed' \in [Ids -> BOOLEAN]
        /\ conn' \in [Ids -> [Both -> {"none", "open", "closed"}]]
        /\ \A i \in Ids : i \notin SessionsOf(F) => closed'[i] = closed[i] /\ conn'[i] = conn[i]
        /\ \A i \in Ids : i \in SessionsOf(F) =>
             /\ closed'[i] /\ conn'[i][Current(i)] = "closed"
             /\ \A c \in Both : c # Current(i) => conn'[i][c] = conn[i][c]
    BY <1>0, Closes
  <1>3. \A j \in Ids : \A c \in Both : c # Current(j) => conn'[j][c] # "open"
    BY <1>0, <1>2
  <1>4. ASSUME NEW j \in Ids, InTable(j) /\ key[j] \in F
        PROVE  closed'[j] /\ \A c \in Both : conn'[j][c] # "open"
    <2>1. closed'[j] /\ conn'[j][Current(j)] = "closed"
      BY <1>1, <1>2, <1>4
    <2> QED BY <1>3, <2>1
  <1> QED BY <1>1, <1>2, <1>3, <1>4

\* The reader drops the session on which Send has failed.
LEMMA DropFailedKeeps ==
    ASSUME UdpInv, DropFailed
    PROVE  UdpInv'
  <1> DEFINE F == IF entries[reader.flow] = reader.sess THEN {reader.flow} ELSE {}
  <1>0. TypeOK /\ TableInv /\ ReaderInv /\ reader.step = "drop"
    BY DEF UdpInv, DropFailed
  <1>1. F \subseteq Flows /\ reader.sess \in Ids /\ key[reader.sess] = reader.flow
    BY <1>0, ReaderFields, ReaderHas DEF ReaderInv, Sending
  <1>2. /\ entries' = [f \in Flows |-> IF f \in F THEN None ELSE entries[f]]
        /\ lru' = Unlinked(lru, F) /\ CloseSessions(SessionsOf(F))
        /\ key' = key /\ idleLeft' = idleLeft /\ receiver' = receiver /\ seen' = seen
        /\ broken' = broken /\ wrapped' = wrapped /\ moved' = moved /\ blamed' = blamed
    BY DEF DropFailed, Remove, Drop, SessionsOf
  <1>3. reader'.step = "idle" /\ reader'.sess = None /\ reader' \in [step : ReaderSteps,
            flow : Flows, sess : Ids \cup {None}, packet : Both, backup : BOOLEAN]
    BY <1>0, Zenon DEF DropFailed, ReaderDone, TypeOK, ReaderSteps
  <1>4. InTable(reader.sess) => reader.flow \in F
    BY <1>0, <1>1, UnderItsKey
  <1> HIDE DEF F
  <1>5. /\ entries' \in [Flows -> Ids \cup {None}] /\ lru' \in Seq(Flows) /\ TableInv'
        /\ \A j \in Ids : InTable(j)' <=> InTable(j) /\ key[j] \notin F
    BY <1>0, <1>1, <1>2, DropKeeps
  <1>6. TypeOK'
    BY <1>0, <1>1, <1>2, <1>3, <1>5, SessionsLeave DEF TypeOK
  <1>7. ReaderInv'
    BY <1>3 DEF ReaderInv, Sending
  <1>8. ASSUME NEW j \in Ids PROVE SessionOK(j)'
    <2>1. SessionOK(j) /\ Current(j)' = Current(j)
      BY <1>2 DEF UdpInv, Current
    <2>2. \A c \in Both : c # Current(j) => conn'[j][c] # "open"
      BY <1>1, <1>2, SessionsLeave
    <2>3. InTable(j)' => /\ InTable(j) /\ key[j] \notin F
                         /\ conn'[j] = conn[j] /\ closed'[j] = closed[j]
      BY <1>1, <1>2, <1>5, SessionsLeave
    <2>4. InTable(j)' => j # reader.sess
      BY <1>1, <1>4, <2>3
    <2> QED BY <1>2, <2>1, <2>2, <2>3, <2>4 DEF SessionOK, Held
  <1> QED BY <1>5, <1>6, <1>7, <1>8 DEF UdpInv

\* A receiver ends and takes its session out of the table.
LEMMA ReceiverEndsKeeps ==
    ASSUME UdpInv, NEW i \in Ids, ReceiverEnds(i)
    PROVE  UdpInv'
  <1> DEFINE F == IF entries[key[i]] = i THEN {key[i]} ELSE {}
  <1>0. TypeOK /\ TableInv /\ ReaderInv /\ receiver[i] = "remove"
    BY DEF UdpInv, ReceiverEnds
  <1>1. F \subseteq Flows
    BY <1>0 DEF TypeOK
  <1>2. /\ entries' = [f \in Flows |-> IF f \in F THEN None ELSE entries[f]]
        /\ lru' = Unlinked(lru, F) /\ CloseSessions(SessionsOf(F))
        /\ key' = key /\ idleLeft' = idleLeft /\ reader' = reader /\ seen' = seen
        /\ broken' = broken /\ wrapped' = wrapped /\ moved' = moved /\ blamed' = blamed
        /\ receiver' = [receiver EXCEPT ![i] = "none"]
    BY DEF ReceiverEnds, ReceiverTo, Remove, Drop, SessionsOf
  <1>4. InTable(i) => key[i] \in F
    BY <1>0, UnderItsKey
  <1> HIDE DEF F
  <1>5. /\ entries' \in [Flows -> Ids \cup {None}] /\ lru' \in Seq(Flows) /\ TableInv'
        /\ \A j \in Ids : InTable(j)' <=> InTable(j) /\ key[j] \notin F
    BY <1>0, <1>1, <1>2, DropKeeps
  <1>6. TypeOK'
    BY <1>0, <1>1, <1>2, <1>5, SessionsLeave DEF TypeOK
  <1>7. ReaderInv'
    <2>1. CASE reader.step \in {"reply", "add"}
      <3>1. reader.sess \in Ids /\ ~InTable(reader.sess) /\ receiver[reader.sess] = "none"
        BY <1>0, <2>1, ReaderHas DEF ReaderInv
      <3>2. closed'[reader.sess] = closed[reader.sess] /\ conn'[reader.sess] = conn[reader.sess]
        BY <1>1, <1>2, <3>1, SessionsLeave
      <3>3. receiver'[reader.sess] = "none" /\ ~InTable(reader.sess)'
        BY <1>0, <1>2, <1>5, <3>1 DEF TypeOK
      <3> QED BY <1>0, <1>2, <2>1, <3>2, <3>3, Zenon DEF ReaderInv, Sending
    <2>2. CASE reader.step \notin {"reply", "add"}
      BY <1>0, <1>2, <2>2 DEF ReaderInv
    <2> QED BY <2>1, <2>2
  <1>8. ASSUME NEW j \in Ids PROVE SessionOK(j)'
    <2>1. SessionOK(j) /\ Current(j)' = Current(j)
      BY <1>2 DEF UdpInv, Current
    <2>2. \A c \in Both : c # Current(j) => conn'[j][c] # "open"
      BY <1>1, <1>2, SessionsLeave
    <2>3. InTable(j)' => /\ InTable(j) /\ key[j] \notin F
                         /\ conn'[j] = conn[j] /\ closed'[j] = closed[j]
      BY <1>1, <1>2, <1>5, SessionsLeave
    <2>4. InTable(j)' => receiver'[j] = receiver[j]
      BY <1>0, <1>2, <1>4, <2>3 DEF TypeOK
    <2> QED BY <1>2, <2>1, <2>2, <2>3, <2>4 DEF SessionOK, Held
  <1> QED BY <1>5, <1>6, <1>7, <1>8 DEF UdpInv

\* sessionTable.get: what has expired leaves, the session of the flow is the most
\* recently used.
LEMMA DatagramKeeps ==
    ASSUME UdpInv, NEW f \in Flows, Datagram(f)
    PROVE  UdpInv'
  <1> DEFINE F == Expired
             hit == entries[f] # None /\ f \notin F
  <1>0. TypeOK /\ TableInv /\ ReaderInv /\ reader.step = "idle"
    BY DEF UdpInv, Datagram
  <1>1. F \subseteq Flows
    BY DEF Expired
  <1>2. /\ entries' = [g \in Flows |-> IF g \in F THEN None ELSE entries[g]]
        /\ lru' = IF hit THEN MovedToBack(Unlinked(lru, F), f) ELSE Unlinked(lru, F)
        /\ idleLeft' = IF hit THEN [idleLeft EXCEPT ![f] = Idle] ELSE idleLeft
        /\ key' = key /\ receiver' = receiver /\ seen' = seen
        /\ broken' = broken /\ wrapped' = wrapped /\ moved' = moved /\ blamed' = blamed
        /\ reader' = [reader EXCEPT !.step = IF hit THEN "send" ELSE "open", !.flow = f,
                                    !.sess = IF hit THEN entries[f] ELSE None]
    BY DEF Datagram
  <1>3. CloseSessions(SessionsOf(F))
    <2>1. SessionsOf(F) = {entries[g] : g \in F}
      BY DEF SessionsOf, Expired
    <2> QED BY <2>1 DEF Datagram
  <1> HIDE DEF F
  <1>4. /\ reader' \in [step : ReaderSteps, flow : Flows, sess : Ids \cup {None},
                        packet : Both, backup : BOOLEAN]
        /\ hit => reader'.step = "send" /\ reader'.flow = f /\ reader'.sess = entries[f]
        /\ ~hit => reader'.step = "open" /\ reader'.sess = None
    BY <1>0, <1>2, Zenon DEF TypeOK, ReaderSteps
  <1>5. /\ entries' \in [Flows -> Ids \cup {None}] /\ lru' \in Seq(Flows) /\ TableInv'
        /\ \A j \in Ids : InTable(j)' <=> InTable(j) /\ key[j] \notin F
    <2>1. CASE ~hit
      BY <1>0, <1>1, <1>2, <2>1, DropKeeps
    <2>2. CASE hit
      <3> DEFINE kept == Unlinked(lru, F)
      <3>1. entries' \in [Flows -> Ids \cup {None}] /\ Served' = Served \ F
        BY <1>0, <1>2 DEF Served, TypeOK
      <3>2. OnceEach(kept, Served \ F) /\ OnceEach(lru, Served) /\ Len(lru) <= Capacity
        BY <1>0, UnlinkedOnce DEF TableInv
      <3>3. lru' = MovedToBack(kept, f) /\ f \in Served \ F
        BY <1>2, <2>2 DEF Served
      <3>4. OnceEach(lru', Served')
        <4>1. OnceEach(lru', (Served \ F) \cup {f})
          BY <3>2, <3>3, MovedOnce
        <4>2. (Served \ F) \cup {f} = Served'
          BY <3>1, <3>3
        <4> QED BY <4>1, <4>2
      <3>5. lru' \in Seq(Flows)
        <4>1. Served' \subseteq Flows
          BY DEF Served
        <4> QED BY <3>4, <4>1, OnceSeq
      <3>6. Len(lru') <= Capacity
        <4>1. IsFiniteSet(Served) /\ Cardinality(Served) = Len(lru)
              /\ Cardinality(Served') = Len(lru')
          BY <3>2, <3>4, OnceLength
        <4>2. Cardinality(Served') <= Cardinality(Served) /\ Cardinality(Served) \in Nat
              /\ Cardinality(Served') \in Nat
          BY <3>1, <4>1, FS_Subset, FS_CardinalityType
        <4> QED BY <3>2, <4>1, <4>2, UdpAssumption
      <3>7. TableInv'
        <4>1. \A g \in Flows : entries'[g] # None => key'[entries'[g]] = g
          BY <1>0, <1>2 DEF TableInv
        <4> QED BY <3>4, <3>6, <4>1 DEF TableInv
      <3>8. ASSUME NEW j \in Ids PROVE InTable(j)' <=> InTable(j) /\ key[j] \notin F
        <4>1. j # None /\ key[j] \in Flows
          BY <1>0, UdpAssumption DEF TypeOK
        <4> QED BY <1>0, <1>2, <4>1, UnderItsKey DEF InTable
      <3> QED BY <3>1, <3>5, <3>7, <3>8
    <2> QED BY <2>1, <2>2
  <1>6. TypeOK'
    <2>1. idleLeft' \in [Flows -> 0..Idle]
      BY <1>0, <1>2, UdpAssumption DEF TypeOK
    <2> QED BY <1>0, <1>1, <1>2, <1>3, <1>4, <1>5, <2>1, SessionsLeave DEF TypeOK
  <1>7. ReaderInv'
    <2>1. hit => entries[f] \in Ids /\ key[entries[f]] = f /\ entries[f] # None
      BY <1>0 DEF TypeOK, TableInv
    <2> QED BY <1>2, <1>4, <2>1 DEF ReaderInv, Sending
  <1>8. ASSUME NEW j \in Ids PROVE SessionOK(j)'
    <2>1. SessionOK(j) /\ Current(j)' = Current(j)
      BY <1>2 DEF UdpInv, Current
    <2>2. \A c \in Both : c # Current(j) => conn'[j][c] # "open"
      BY <1>1, <1>2, <1>3, SessionsLeave
    <2>3. InTable(j)' => InTable(j) /\ conn'[j] = conn[j] /\ closed'[j] = closed[j]
      BY <1>1, <1>2, <1>3, <1>5, SessionsLeave
    <2> QED BY <1>0, <1>2, <2>1, <2>2, <2>3 DEF SessionOK
  <1> QED BY <1>5, <1>6, <1>7, <1>8 DEF UdpInv

\* What sessionTable.add leaves in the table: the new session, and what had
\* neither expired nor had to make room.
AddGone ==
    LET kept == Unlinked(lru, Expired \cup {reader.flow})
    IN  Expired \cup {reader.flow} \cup {kept[n] : n \in 1..Victims(kept)}

LEMMA AddTable ==
    ASSUME UdpInv, Add
    PROVE  /\ AddGone \subseteq Flows
           /\ entries' \in [Flows -> Ids \cup {None}] /\ lru' \in Seq(Flows) /\ TableInv'
           /\ \A j \in Ids : InTable(j)' <=> j = reader.sess \/ (InTable(j) /\ key[j] \notin AddGone)
  <1> DEFINE f == reader.flow
             i == reader.sess
             kept == Unlinked(lru, Expired \cup {f})
             over == Victims(kept)
             out == {kept[n] : n \in 1..over}
             K == Served \ (Expired \cup {f})
  <1>0. TypeOK /\ TableInv /\ ReaderInv /\ reader.step = "add"
    BY DEF UdpInv, Add
  <1>1. f \in Flows /\ i \in Ids /\ ~InTable(i) /\ i # None
    BY <1>0, ReaderFields, ReaderHas, UdpAssumption DEF ReaderInv
  <1>2. /\ entries' = [g \in Flows |-> IF g = f THEN i
                                       ELSE IF g \in AddGone THEN None ELSE entries[g]]
        /\ lru' = Append(SubSeq(kept, over + 1, Len(kept)), f)
        /\ key' = [key EXCEPT ![i] = f]
        /\ AddGone = (Expired \cup {f}) \cup out
    BY DEF Add, AddGone
  <1>3. OnceEach(kept, K)
    BY <1>0, UnlinkedOnce DEF TableInv
  <1>4. kept \in Seq(K) /\ Len(kept) \in Nat /\ \A n \in 1..Len(kept) : kept[n] \in K
    <2> HIDE DEF kept, K
    <2> QED BY <1>3, OnceFacts
  <1>5. over \in 0..Len(kept) /\ Len(kept) - over + 1 <= Capacity
    <2> HIDE DEF kept
    <2> QED BY <1>4, UdpAssumption DEF Victims
  <1> HIDE DEF kept, over
  <1>6. out \subseteq K /\ K \subseteq Flows /\ Expired \subseteq Flows
    BY <1>4, <1>5 DEF Served, Expired
  <1>7. AddGone \subseteq Flows /\ f \in AddGone
    BY <1>1, <1>2, <1>6
  <1>8. entries' \in [Flows -> Ids \cup {None}]
    BY <1>0, <1>1, <1>2 DEF TypeOK
  <1>9. Served' = (K \ out) \cup {f}
    <2>1. \A g \in Flows : entries'[g] # None <=> g = f \/ (g \notin AddGone /\ entries[g] # None)
      BY <1>1, <1>2
    <2>2. \A g \in Flows : g \in K \ out <=> g \notin AddGone /\ entries[g] # None
      BY <1>2 DEF Served
    <2>3. Served' = {g \in Flows : entries'[g] # None}
      BY DEF Served
    <2> QED BY <1>1, <1>6, <2>1, <2>2, <2>3
  <1>10. OnceEach(lru', Served') /\ Len(lru') <= Capacity
    <2> DEFINE rest == SubSeq(kept, over + 1, Len(kept))
    <2>1. OnceEach(rest, K \ out)
      BY <1>3, <1>5, SuffixOnce
    <2>2. f \notin K \ out
      OBVIOUS
    <2>3. Len(rest) = Len(kept) - over /\ rest \in Seq(K)
      <3>1. over + 1 \in 1..(Len(kept) + 1)
        BY <1>4, <1>5
      <3> QED BY <1>4, <1>5, <3>1
    <2>4. Len(lru') = Len(rest) + 1
      BY <1>2, <2>3
    <2> HIDE DEF rest, K, out
    <2>5. OnceEach(Append(rest, f), (K \ out) \cup {f})
      BY <2>1, <2>2, AppendOnce
    <2> QED BY <1>2, <1>4, <1>5, <1>9, <2>3, <2>4, <2>5, UdpAssumption DEF rest
  <1>11. lru' \in Seq(Flows)
    <2>1. Served' \subseteq Flows
      BY DEF Served
    <2> QED BY <1>10, <2>1, OnceSeq
  <1>12. ASSUME NEW g \in Flows, entries'[g] # None
         PROVE  key'[entries'[g]] = g
    <2>1. CASE g = f
      BY <1>0, <1>1, <1>2, <2>1 DEF TypeOK
    <2>2. CASE g # f
      <3>1. entries'[g] = entries[g] /\ entries[g] # None /\ entries[g] # i
        BY <1>1, <1>2, <1>12, <2>2 DEF InTable
      <3>2. entries[g] \in Ids /\ key[entries[g]] = g
        BY <1>0, <3>1 DEF TypeOK, TableInv
      <3> QED BY <1>0, <1>2, <3>1, <3>2 DEF TypeOK
    <2> QED BY <2>1, <2>2
  <1>13. TableInv'
    BY <1>10, <1>12 DEF TableInv
  <1>14. ASSUME NEW j \in Ids
         PROVE  InTable(j)' <=> j = reader.sess \/ (InTable(j) /\ key[j] \notin AddGone)
    <2>1. j # None /\ key[j] \in Flows
      BY <1>0, UdpAssumption DEF TypeOK
    <2>2. InTable(j) <=> entries[key[j]] = j
      BY <1>0, UnderItsKey
    <2>3. \A g \in Flows : entries[g] = j => g = key[j]
      BY <1>0, UnderItsKey
    <2>4. InTable(j)' <=> \E g \in Flows : entries'[g] = j
      BY DEF InTable
    <2>5. CASE j = i
      BY <1>1, <1>2, <2>4, <2>5
    <2>6. CASE j # i
      <3>1. \A g \in Flows : entries'[g] = j <=> g \notin AddGone /\ entries[g] = j
        BY <1>2, <1>7, <2>1, <2>6
      <3> QED BY <2>1, <2>2, <2>3, <2>4, <2>6, <3>1
    <2> QED BY <2>5, <2>6
  <1> QED BY <1>7, <1>8, <1>11, <1>13, <1>14

LEMMA AddKeeps ==
    ASSUME UdpInv, Add
    PROVE  UdpInv'
  <1> DEFINE s == reader.sess
             F == AddGone
  <1>0. TypeOK /\ TableInv /\ ReaderInv /\ reader.step = "add"
    BY DEF UdpInv, Add
  <1>1. /\ F \subseteq Flows
        /\ entries' \in [Flows -> Ids \cup {None}] /\ lru' \in Seq(Flows) /\ TableInv'
        /\ \A j \in Ids : InTable(j)' <=> j = s \/ (InTable(j) /\ key[j] \notin F)
    BY AddTable
  <1>2. /\ s \in Ids /\ reader.flow \in Flows /\ ~InTable(s) /\ ~closed[s] /\ ~moved[s]
        /\ conn[s]["first"] = "open"
    BY <1>0, ReaderFields, ReaderHas DEF ReaderInv
  <1>3. CloseSessions(SessionsOf(F))
    BY DEF Add, AddGone, SessionsOf
  <1>4. /\ idleLeft' = [idleLeft EXCEPT ![reader.flow] = Idle]
        /\ receiver' = [receiver EXCEPT ![s] = "start"]
        /\ key' = [key EXCEPT ![s] = reader.flow]
        /\ reader' = [reader EXCEPT !.step = "send"]
        /\ seen' = seen /\ broken' = broken /\ wrapped' = wrapped /\ moved' = moved
        /\ blamed' = blamed
    BY DEF Add, ReaderTo
  <1> HIDE DEF F
  <1>5. /\ reader' \in [step : ReaderSteps, flow : Flows, sess : Ids \cup {None},
                        packet : Both, backup : BOOLEAN]
        /\ reader'.step = "send" /\ reader'.sess = s /\ reader'.flow = reader.flow
    BY <1>0, <1>4, Zenon DEF TypeOK, ReaderSteps
  <1>6. TypeOK'
    <2>1. idleLeft' \in [Flows -> 0..Idle] /\ key' \in [Ids -> Flows]
          /\ receiver' \in [Ids -> {"none", "start", "recv", "check", "remove"}]
      BY <1>0, <1>2, <1>4, UdpAssumption DEF TypeOK
    <2> QED BY <1>0, <1>1, <1>3, <1>4, <1>5, <2>1, SessionsLeave DEF TypeOK
  <1>7. ReaderInv'
    <2>1. key'[s] = reader.flow /\ s # None
      BY <1>0, <1>2, <1>4, UdpAssumption DEF TypeOK
    <2> QED BY <1>5, <2>1 DEF ReaderInv, Sending
  <1>8. ASSUME NEW j \in Ids PROVE SessionOK(j)'
    <2>1. SessionOK(j) /\ Current(j)' = Current(j)
      BY <1>4 DEF UdpInv, Current
    <2>2. \A c \in Both : c # Current(j) => conn'[j][c] # "open"
      BY <1>1, <1>3, <1>4, SessionsLeave
    <2>3. CASE j = s
      <3>1. conn'[j] = conn[j] /\ closed'[j] = closed[j]
        BY <1>1, <1>2, <1>3, <1>4, <2>3, SessionsLeave
      <3>2. receiver'[j] = "start" /\ Current(j) = "first"
        BY <1>0, <1>2, <1>4, <2>3 DEF TypeOK, Current
      <3> QED BY <1>2, <2>1, <2>2, <2>3, <3>1, <3>2 DEF SessionOK
    <2>4. CASE j # s
      <3>1. InTable(j)' => InTable(j) /\ conn'[j] = conn[j] /\ closed'[j] = closed[j]
        BY <1>1, <1>3, <1>4, <2>4, SessionsLeave
      <3>2. receiver'[j] = receiver[j]
        BY <1>0, <1>4, <2>4 DEF TypeOK
      <3> QED BY <1>0, <2>1, <2>2, <3>1, <3>2 DEF SessionOK
    <2> QED BY <2>3, <2>4
  <1> QED BY <1>1, <1>6, <1>7, <1>8 DEF UdpInv

LEMMA UdpInit == Init => UdpInv
  <1> SUFFICES ASSUME Init PROVE UdpInv
    OBVIOUS
  <1>1. /\ reader.step = "idle" /\ reader.sess = None /\ reader \in [step : ReaderSteps,
            flow : Flows, sess : Ids \cup {None}, packet : Both, backup : BOOLEAN]
    BY Zenon DEF Init, ReaderSteps, Both
  <1>2. lru = <<>> /\ entries = [f \in Flows |-> None] /\ conn = [i \in Ids |-> Fresh]
    BY DEF Init
  <1>3. Fresh \in [Both -> {"none", "open", "closed"}] /\ \A c \in Both : Fresh[c] = "none"
    BY DEF Fresh
  <1>4. TypeOK
    <2>1. idleLeft \in [Flows -> 0..Idle] /\ conn \in [Ids -> [Both -> {"none", "open", "closed"}]]
      BY <1>2, <1>3, UdpAssumption DEF Init
    <2>2. lru \in Seq(Flows) /\ entries \in [Flows -> Ids \cup {None}] /\ key \in [Ids -> Flows]
      BY <1>2 DEF Init
    <2>3. /\ receiver \in [Ids -> {"none", "start", "recv", "check", "remove"}]
          /\ seen \in [Ids -> Both] /\ broken \in [Ids -> SUBSET Both]
          /\ wrapped \in [Ids -> BOOLEAN] /\ moved \in [Ids -> BOOLEAN]
          /\ closed \in [Ids -> BOOLEAN] /\ blamed \subseteq Ids
      BY DEF Init, Both
    <2> QED BY <1>1, <2>1, <2>2, <2>3 DEF TypeOK
  <1>5. TableInv
    <2>1. Served = {}
      BY <1>2 DEF Served
    <2>2. OnceEach(<<>>, {}) /\ Len(<<>>) = 0
      BY DEF OnceEach
    <2>3. \A f \in Flows : entries[f] = None
      BY <1>2
    <2> QED BY <1>2, <2>1, <2>2, <2>3, UdpAssumption DEF TableInv
  <1>6. ReaderInv
    BY <1>1 DEF ReaderInv, Sending
  <1>7. ASSUME NEW i \in Ids PROVE SessionOK(i)
    BY <1>2, <1>3, UdpAssumption DEF SessionOK, InTable
  <1> QED BY <1>4, <1>5, <1>6, <1>7 DEF UdpInv

LEMMA UdpNext == UdpInv /\ [Next]_vars => UdpInv'
  <1> SUFFICES ASSUME UdpInv, [Next]_vars PROVE UdpInv'
    OBVIOUS
  <1>1. ASSUME NEW f \in Flows, Datagram(f) PROVE UdpInv'
    BY <1>1, DatagramKeeps
  <1>2. CASE ReaderWork
    <2>1. ASSUME NEW i \in Ids, OpenPacket(i) PROVE UdpInv'
      BY <2>1, OpenPacketKeeps
    <2>2. CASE OpenFails \/ ReplyReady \/ SendSnapshot \/ SendOK \/ SendErr \/ SendFailed
      BY <2>2, ReaderQuiet
    <2>3. CASE ReplyFails
      BY <2>3, ReplyFailsKeeps
    <2>4. CASE Add
      BY <2>4, AddKeeps
    <2>5. CASE DropFailed
      BY <2>5, DropFailedKeeps
    <2>6. CASE Swap \/ SwapDirect
      BY <2>6, SwapKeeps
    <2> QED BY <1>2, <2>1, <2>2, <2>3, <2>4, <2>5, <2>6 DEF ReaderWork
  <1>3. ASSUME NEW i \in Ids, ReceiverStep(i) PROVE UdpInv'
    BY <1>3, QuietKeeps, ReceiverEndsKeeps DEF ReceiverStep
  <1>4. ASSUME NEW i \in Ids, NEW c \in Both, Break(i, c) PROVE UdpInv'
    BY <1>4, QuietKeeps
  <1>5. CASE Tick
    BY <1>5, QuietKeeps
  <1>6. CASE UNCHANGED vars
    <2>1. /\ entries' = entries /\ lru' = lru /\ idleLeft' = idleLeft /\ reader' = reader
          /\ key' = key /\ receiver' = receiver /\ seen' = seen /\ conn' = conn
          /\ broken' = broken /\ wrapped' = wrapped /\ moved' = moved /\ closed' = closed
          /\ blamed' = blamed
      BY <1>6 DEF vars, tableVars, sessionVars
    <2>2. TypeOK' /\ TableInv' /\ ReaderInv'
      BY <2>1 DEF UdpInv, TypeOK, TableInv, Served, ReaderInv, InTable
    <2>3. ASSUME NEW i \in Ids PROVE SessionOK(i)'
      <3>1. SessionOK(i)
        BY DEF UdpInv
      <3> QED BY <2>1, <3>1 DEF SessionOK, InTable, Current, Held
    <2> QED BY <2>2, <2>3 DEF UdpInv
  <1> QED BY <1>1, <1>2, <1>3, <1>4, <1>5, <1>6 DEF Next

LEMMA UdpInvariant == Spec => []UdpInv
  BY UdpInit, UdpNext, PTL DEF Spec

\* In both layers and for any number of flows and sessions: the map and the list of
\* the session table agree and stay within capacity, no session serves two flows,
\* and a session in the table has its receiver, and is open unless the reader is
\* about to remove it (session_table.go, udp.go:63-166).
THEOREM TableCorrect == Spec => []TableUsable
  <1>1. UdpInv => TableUsable
    <2> SUFFICES ASSUME UdpInv PROVE TableUsable
      OBVIOUS
    <2>1. TypeOK /\ TableConsistent
      BY DEF UdpInv, TableInv, TableConsistent, Served
    <2>2. ASSUME NEW i \in Ids, InTable(i)
          PROVE  receiver[i] # "none" /\ (Held(i) \/ (~closed[i] /\ conn[i][Current(i)] # "closed"))
      BY <2>2 DEF UdpInv, SessionOK
    <2> QED BY <2>1, <2>2 DEF TableUsable
  <1> QED BY <1>1, UdpInvariant, PTL

\* A session leaves the table only in a step of the reader (expiry, replacement,
\* eviction, a failed Send) or of its own receiver (session_table.go:104-118).
THEOREM RemovalCorrect == Spec => ReplacementSurvives
  <1> DEFINE Kept == \A f \in Flows : entries[f] # None /\ entries'[f] # entries[f] =>
                         reader' # reader \/ receiver[entries[f]] = "remove"
  <1>1. UdpInv /\ [Next]_vars => [Kept]_vars
    <2> SUFFICES ASSUME UdpInv, Next, NEW f \in Flows,
                        entries[f] # None, entries'[f] # entries[f]
                 PROVE  reader' # reader \/ receiver[entries[f]] = "remove"
      BY DEF UdpInv
    <2>0. TypeOK /\ TableInv /\ ReaderInv
      BY DEF UdpInv
    <2>1. ASSUME NEW g \in Flows, Datagram(g) PROVE reader' # reader
      <3>1. reader.step = "idle" /\ reader'.step \in {"send", "open"}
        BY <2>0, <2>1 DEF Datagram, TypeOK
      <3> QED BY <3>1
    <2>2. CASE ReaderWork
      <3>1. CASE Add
        <4>1. reader.step = "add" /\ reader'.step = "send"
          BY <2>0, <3>1 DEF Add, ReaderTo, TypeOK
        <4> QED BY <4>1
      <3>2. CASE DropFailed
        <4>1. reader.step = "drop" /\ reader'.step = "idle"
          BY <2>0, <3>2 DEF DropFailed, ReaderDone, TypeOK
        <4> QED BY <4>1
      <3>3. CASE ~Add /\ ~DropFailed
        <4>1. entries' = entries
          BY <2>2, <3>3, Zenon DEF ReaderWork, OpenFails, OpenPacket, ReplyFails, ReplyReady,
             SendSnapshot, SendOK, SendErr, SendFailed, Swap, SwapDirect, tableVars
        <4> QED BY <4>1
      <3> QED BY <3>1, <3>2, <3>3
    <2>3. ASSUME NEW i \in Ids, ReceiverStep(i) PROVE receiver[entries[f]] = "remove"
      <3>1. CASE ReceiverEnds(i)
        <4>1. /\ receiver[i] = "remove"
              /\ entries' = [g \in Flows |-> IF g \in (IF entries[key[i]] = i THEN {key[i]} ELSE {})
                                             THEN None ELSE entries[g]]
          BY <3>1 DEF ReceiverEnds, Remove, Drop
        <4>2. entries[f] = i
          BY <4>1
        <4> QED BY <4>1, <4>2
      <3>2. CASE ~ReceiverEnds(i)
        <4>1. entries' = entries
          BY <2>3, <3>2 DEF ReceiverStep, ReceiveSnapshot, ReceiveReply, ReceiveErr,
             ReceiveCheck, tableVars
        <4> QED BY <4>1
      <3> QED BY <3>1, <3>2
    <2>4. ASSUME NEW i \in Ids, NEW c \in Both, Break(i, c) PROVE FALSE
      BY <2>4 DEF Break, tableVars
    <2>5. CASE Tick
      BY <2>5 DEF Tick
    <2> QED BY <2>1, <2>2, <2>3, <2>4, <2>5 DEF Next
  <1> QED BY <1>1, UdpInvariant, PTL DEF Spec, ReplacementSurvives

-----------------------------------------------------------------------------
\* The fallback layer.

\* Only the reader moves.
LEMMA FallbackReader ==
    ASSUME UdpInv, FallbackInv, Layer = "fallback",
           OpenFails \/ ReplyReady \/ SendSnapshot \/ SendOK \/ SendErr \/ SendFailed
    PROVE  FallbackInv'
  <1>0. TypeOK /\ ReaderInv /\ TableInv
    BY DEF UdpInv
  <1>1. /\ entries' = entries /\ key' = key /\ receiver' = receiver /\ seen' = seen
        /\ conn' = conn /\ broken' = broken /\ wrapped' = wrapped /\ moved' = moved
        /\ closed' = closed
    BY DEF OpenFails, ReplyReady, SendSnapshot, SendOK, SendErr, SendFailed, tableVars, sessionVars
  <1>2. PICK s \in ReaderSteps :
          /\ reader'.step = s
          /\ reader'.sess = reader.sess \/ (reader'.sess = None /\ s = "idle")
          /\ reader.step \in {"reply", "add"} <=> s \in {"reply", "add"}
          /\ s \in Sending => reader.step \in Sending
    BY <1>0, Zenon DEF OpenFails, ReplyReady, SendSnapshot, SendOK, SendErr, SendFailed,
                ReaderTo, ReaderDone, TypeOK, ReaderSteps, Sending
  <1>3. ASSUME NEW i \in Ids PROVE FallbackOK(i)'
    <2>1. FallbackOK(i) /\ i # None
      BY UdpAssumption DEF FallbackInv
    <2>2. Unreleased(i)' = Unreleased(i) /\ InTable(i)' = InTable(i)
      BY <1>1 DEF Unreleased, InTable
    <2>3. Held(i)' => Held(i)
      BY <1>2, <2>1 DEF Held
    <2>4. Held(i) /\ reader.step \in {"reply", "add"} => Held(i)' /\ reader'.step \in {"reply", "add"}
      BY <1>2 DEF Held
    <2> QED BY <1>1, <1>2, <2>1, <2>2, <2>3, <2>4 DEF FallbackOK
  <1>4. reader'.step = "failed" => /\ wrapped'[reader'.sess] /\ reader'.packet = "first"
                                   /\ "first" \in broken'[reader'.sess]
    <2> SUFFICES ASSUME reader'.step = "failed"
                 PROVE  /\ wrapped'[reader'.sess] /\ reader'.packet = "first"
                        /\ "first" \in broken'[reader'.sess]
      OBVIOUS
    <2>1. SendErr
      BY <1>0, Zenon DEF OpenFails, ReplyReady, SendSnapshot, SendOK, SendFailed,
                ReaderTo, ReaderDone, TypeOK
    <2>2. /\ reader.step = "sending" /\ Refuses(reader.sess, reader.packet)
          /\ wrapped[reader.sess] /\ ~reader.backup
      BY <1>0, <2>1 DEF SendErr, ReaderTo, TypeOK
    <2>3. reader.packet = "first"
      BY <1>0, <2>2 DEF ReaderInv
    <2>4. "first" \in broken[reader.sess]
      BY <2>2, <2>3, UdpAssumption DEF Refuses
    <2>5. reader'.sess = reader.sess /\ reader'.packet = reader.packet
      BY <1>0, <2>1 DEF SendErr, ReaderTo, TypeOK
    <2> QED BY <1>1, <2>2, <2>3, <2>4, <2>5
  <1>5. blamed' = {}
    <2>1. blamed = {}
      BY DEF FallbackInv
    <2>2. CASE SendFailed
      BY <2>1, <2>2 DEF SendFailed, Blame, FallbackInv
    <2>3. CASE ~SendFailed
      BY <2>1, <2>3 DEF OpenFails, ReplyReady, SendSnapshot, SendOK, SendErr
    <2> QED BY <2>2, <2>3
  <1> QED BY <1>3, <1>4, <1>5 DEF FallbackInv

LEMMA FallbackOpen ==
    ASSUME UdpInv, FallbackInv, NEW i \in Ids, OpenPacket(i)
    PROVE  FallbackInv'
  <1>0. TypeOK /\ ReaderInv /\ reader.step = "open" /\ Free(i)
    BY DEF UdpInv, OpenPacket
  <1>1. /\ entries' = entries /\ receiver' = receiver /\ seen' = seen
        /\ moved' = [moved EXCEPT ![i] = FALSE] /\ closed' = [closed EXCEPT ![i] = FALSE]
        /\ conn' = [conn EXCEPT ![i] = [Fresh EXCEPT !["first"] = "open"]]
        /\ broken' = [broken EXCEPT ![i] = {}] /\ blamed' = {}
    BY DEF OpenPacket, tableVars, FallbackInv
  <1>2. reader'.step = "reply" /\ reader'.sess = i /\ reader.sess = None
    BY <1>0 DEF OpenPacket, TypeOK, ReaderInv
  <1>3. ASSUME NEW j \in Ids PROVE FallbackOK(j)'
    <2>1. FallbackOK(j) /\ InTable(j)' = InTable(j) /\ j # None
      BY <1>1, UdpAssumption DEF FallbackInv, InTable
    <2>2. CASE j = i
      BY <1>0, <1>1, <1>2, <2>2 DEF FallbackOK, Held, Free, Sending
    <2>3. CASE j # i
      <3>1. conn'[j] = conn[j] /\ moved'[j] = moved[j] /\ closed'[j] = closed[j]
            /\ broken'[j] = broken[j]
        BY <1>0, <1>1, <2>3 DEF TypeOK
      <3>2. ~Held(j) /\ ~Held(j)' /\ Unreleased(j)' = Unreleased(j)
        BY <1>2, <2>1, <2>3, <3>1 DEF Held, Unreleased
      <3> QED BY <1>1, <2>1, <3>1, <3>2, Zenon DEF FallbackOK
    <2> QED BY <2>2, <2>3
  <1> QED BY <1>1, <1>2, <1>3 DEF FallbackInv

LEMMA FallbackReplyFails ==
    ASSUME UdpInv, FallbackInv, ReplyFails
    PROVE  FallbackInv'
  <1> DEFINE s == reader.sess
  <1>0. TypeOK /\ ReaderInv /\ reader.step = "reply" /\ CloseSessions({s})
    BY DEF UdpInv, ReplyFails
  <1>1. /\ entries' = entries /\ receiver' = receiver /\ seen' = seen /\ moved' = moved
        /\ broken' = broken /\ blamed' = {} /\ reader'.step = "idle" /\ reader'.sess = None
    BY <1>0 DEF ReplyFails, ReaderDone, tableVars, FallbackInv, TypeOK
  <1>2. receiver[s] = "none" /\ s \in Ids
    BY <1>0, ReaderHas DEF ReaderInv
  <1>3. ASSUME NEW j \in Ids PROVE FallbackOK(j)'
    <2>1. FallbackOK(j) /\ SessionOK(j) /\ InTable(j)' = InTable(j) /\ j # None
      BY <1>1, UdpAssumption DEF FallbackInv, UdpInv, InTable
    <2>2. CASE j = s
      <3>1. /\ conn'[j][Current(j)] = "closed"
            /\ \A c \in Both : c # Current(j) => conn'[j][c] = conn[j][c]
        BY <1>0, <2>2, Closes
      <3>2. ~Unreleased(j)'
        BY <2>1, <3>1 DEF SessionOK, Unreleased
      <3> QED BY <1>1, <1>2, <2>1, <2>2, <3>2 DEF FallbackOK, Held
    <2>3. CASE j # s
      <3>1. conn'[j] = conn[j] /\ closed'[j] = closed[j]
        BY <1>0, <2>3, Closes
      <3>2. ~Held(j) /\ ~Held(j)' /\ Unreleased(j)' = Unreleased(j)
        BY <1>1, <2>1, <2>3, <3>1 DEF Held, Unreleased
      <3> QED BY <1>1, <2>1, <3>1, <3>2 DEF FallbackOK
    <2> QED BY <2>2, <2>3
  <1> QED BY <1>1, <1>3 DEF FallbackInv

\* A session that is moved is still in the table: s.closed has been looked at.
LEMMA FallbackSwap ==
    ASSUME UdpInv, FallbackInv, Swap
    PROVE  FallbackInv'
  <1> DEFINE s == reader.sess
  <1>0. TypeOK /\ ReaderInv /\ reader.step = "swap" /\ s \in Ids
    BY ReaderHas DEF UdpInv, Swap
  <1>1. /\ entries' = entries /\ receiver' = receiver /\ seen' = seen /\ closed' = closed
        /\ broken' = broken /\ blamed' = {}
    BY DEF Swap, tableVars, FallbackInv
  <1>2. \/ reader'.step = "idle" /\ reader'.sess = None
        \/ reader'.step = "drop" /\ reader'.sess = s
    BY <1>0, Zenon DEF Swap, ReaderTo, ReaderDone, TypeOK
  <1>3. \/ conn' = conn /\ moved' = moved
        \/ /\ ~closed[s] /\ moved' = [moved EXCEPT ![s] = TRUE]
           /\ conn' = [conn EXCEPT ![s] = [first |-> "closed", second |-> "open"]]
    BY DEF Swap
  <1>4. ASSUME NEW j \in Ids PROVE FallbackOK(j)'
    <2>1. FallbackOK(j) /\ InTable(j)' = InTable(j) /\ j # None
      BY <1>1, UdpAssumption DEF FallbackInv, InTable
    <2>2. Held(j)' => Held(j)
      BY <1>2, <2>1 DEF Held
    <2>3. CASE conn'[j] = conn[j] /\ moved'[j] = moved[j]
      <3>1. Unreleased(j)' = Unreleased(j)
        BY <2>3 DEF Unreleased
      <3> QED BY <1>0, <1>1, <1>2, <2>1, <2>2, <2>3, <3>1 DEF FallbackOK, Sending
    <2>4. CASE j = s /\ ~closed[s] /\ moved' = [moved EXCEPT ![s] = TRUE]
      <3>1. moved'[j] /\ InTable(j)
        BY <1>0, <2>1, <2>4 DEF TypeOK, FallbackOK, Held, Sending
      <3> QED BY <1>1, <2>1, <3>1 DEF FallbackOK
    <2> QED BY <1>0, <1>3, <2>3, <2>4 DEF TypeOK
  <1> QED BY <1>1, <1>2, <1>4 DEF FallbackInv

\* Receive blames the relay only for a connection that has broken.
LEMMA FallbackReceive ==
    ASSUME UdpInv, FallbackInv, NEW i \in Ids,
           ReceiveSnapshot(i) \/ ReceiveReply(i) \/ ReceiveErr(i) \/ ReceiveCheck(i)
    PROVE  FallbackInv'
  <1>0. TypeOK /\ FallbackOK(i)
    BY DEF UdpInv, FallbackInv
  <1>1. /\ entries' = entries /\ reader' = reader /\ conn' = conn /\ broken' = broken
        /\ wrapped' = wrapped /\ moved' = moved /\ closed' = closed
    BY Zenon DEF ReceiveSnapshot, ReceiveReply, ReceiveErr, ReceiveCheck, tableVars, sessionVars
  <1>2. \A j \in Ids : j # i => receiver'[j] = receiver[j] /\ seen'[j] = seen[j]
    BY <1>0 DEF ReceiveSnapshot, ReceiveReply, ReceiveErr, ReceiveCheck, ReceiverTo, TypeOK
  <1>3. receiver[i] # "none"
    BY Zenon DEF ReceiveSnapshot, ReceiveReply, ReceiveErr, ReceiveCheck
  <1>4. /\ receiver'[i] \in {"recv", "check"} /\ ~moved[i] => seen'[i] = "first"
        /\ receiver'[i] = "check" /\ ~closed[i] /\ ~moved[i] => "first" \in broken[i]
    <2>1. CASE ReceiveSnapshot(i)
      BY <1>0, <2>1 DEF ReceiveSnapshot, ReceiverTo, Current, TypeOK
    <2>2. CASE ReceiveReply(i) \/ ReceiveCheck(i)
      <3>1. receiver'[i] \in {"start", "remove"}
        BY <1>0, <2>2 DEF ReceiveReply, ReceiveCheck, ReceiverTo, TypeOK
      <3> QED BY <3>1
    <2>3. CASE ReceiveErr(i)
      <3>1. receiver[i] = "recv" /\ ~Works(i, seen[i]) /\ seen' = seen
        BY <2>3 DEF ReceiveErr
      <3> QED BY <1>0, <3>1, Zenon DEF FallbackOK, Works
    <2> QED BY <2>1, <2>2, <2>3, Zenon
  <1>5. blamed' = {}
    <2>1. blamed = {}
      BY DEF FallbackInv
    <2>2. CASE ReceiveCheck(i)
      <3>1. receiver[i] = "check"
        BY <2>2 DEF ReceiveCheck
      <3>2. Suspects(i) => seen[i] = "first" /\ "first" \in broken[i]
        BY <1>0, <3>1 DEF FallbackOK, Suspects
      <3> QED BY <2>1, <2>2, <3>2 DEF ReceiveCheck, Blame
    <2>3. CASE ~ReceiveCheck(i)
      BY <2>1, <2>3, Zenon DEF ReceiveSnapshot, ReceiveReply, ReceiveErr
    <2> QED BY <2>2, <2>3
  <1>6. ASSUME NEW j \in Ids PROVE FallbackOK(j)'
    <2>1. /\ FallbackOK(j) /\ InTable(j)' = InTable(j) /\ Held(j)' = Held(j)
          /\ Unreleased(j)' = Unreleased(j)
      BY <1>1, Zenon DEF FallbackInv, InTable, Held, Unreleased
    <2>2. CASE j = i
      BY <1>1, <1>3, <1>4, <2>1, <2>2, Zenon DEF FallbackOK
    <2>3. CASE j # i
      BY <1>1, <1>2, <2>1, <2>3, Zenon DEF FallbackOK
    <2> QED BY <2>2, <2>3
  <1> QED BY <1>1, <1>5, <1>6, Zenon DEF FallbackInv

\* A connection breaks, or time passes.
LEMMA FallbackWorld ==
    ASSUME UdpInv, FallbackInv, (\E i \in Ids, c \in Both : Break(i, c)) \/ Tick
    PROVE  FallbackInv'
  <1>1. /\ entries' = entries /\ reader' = reader /\ receiver' = receiver /\ seen' = seen
        /\ conn' = conn /\ wrapped' = wrapped /\ moved' = moved /\ closed' = closed
        /\ blamed' = blamed
    BY DEF Break, Tick, tableVars, sessionVars
  <1>2. \A j \in Ids : broken[j] \subseteq broken'[j]
    <2>1. ASSUME NEW i \in Ids, NEW c \in Both, Break(i, c)
          PROVE  \A j \in Ids : broken[j] \subseteq broken'[j]
      <3>1. broken' = [broken EXCEPT ![i] = broken[i] \cup {c}] /\ broken \in [Ids -> SUBSET Both]
        BY <2>1 DEF Break, UdpInv, TypeOK
      <3> QED BY <3>1
    <2>2. Tick => broken' = broken
      BY Zenon DEF Tick, sessionVars
    <2> QED BY <2>1, <2>2
  <1>3. ASSUME NEW j \in Ids PROVE FallbackOK(j)'
    <2>1. /\ FallbackOK(j) /\ InTable(j)' = InTable(j) /\ Held(j)' = Held(j)
          /\ Unreleased(j)' = Unreleased(j)
      BY <1>1 DEF FallbackInv, InTable, Held, Unreleased
    <2> QED BY <1>1, <1>2, <2>1 DEF FallbackOK
  <1>4. reader.step = "failed" => reader.sess \in Ids
    BY ReaderHas DEF UdpInv
  <1> QED BY <1>1, <1>2, <1>3, <1>4 DEF FallbackInv

\* A session that leaves the table has nothing open; the others stay as they are.
LEMMA FallbackLeaves ==
    ASSUME UdpInv, FallbackInv, NEW F, F \subseteq Flows, CloseSessions(SessionsOf(F)),
           moved' = moved, broken' = broken, seen' = seen, NEW j \in Ids,
           InTable(j)' <=> InTable(j) /\ key[j] \notin F,
           receiver'[j] \in {receiver[j], "none"},
           Held(j)' /\ reader'.step \in Sending => InTable(j)' \/ (Held(j) /\ reader.step \in Sending),
           Held(j) /\ reader.step \in {"reply", "add"} => Held(j)' /\ reader'.step \in {"reply", "add"}
    PROVE  FallbackOK(j)'
  <1>1. FallbackOK(j)
    BY DEF FallbackInv
  <1>2. CASE InTable(j) /\ key[j] \in F
    <2>1. closed'[j] /\ \A c \in Both : conn'[j][c] # "open"
      BY <1>2, SessionsLeave
    <2>2. ~Unreleased(j)'
      BY <2>1 DEF Unreleased
    <2> QED BY <1>1, <2>1, <2>2 DEF FallbackOK
  <1>3. CASE ~(InTable(j) /\ key[j] \in F)
    <2>1. closed'[j] = closed[j] /\ conn'[j] = conn[j]
      BY <1>3, SessionsLeave, Zenon
    <2>2. (Unreleased(j)' <=> Unreleased(j)) /\ (InTable(j)' <=> InTable(j))
      BY <1>3, <2>1 DEF Unreleased
    <2>3. Unreleased(j)' => InTable(j)' \/ (Held(j)' /\ reader'.step \in {"reply", "add"})
      BY <1>1, <2>2, Zenon DEF FallbackOK
    <2>4. Held(j)' /\ reader'.step \in Sending /\ ~closed'[j] => InTable(j)'
      BY <1>1, <2>1, <2>2, Zenon DEF FallbackOK
    <2> QED BY <1>1, <2>1, <2>3, <2>4, Zenon DEF FallbackOK
  <1> QED BY <1>2, <1>3

LEMMA FallbackDropFailed ==
    ASSUME UdpInv, FallbackInv, DropFailed
    PROVE  FallbackInv'
  <1> DEFINE F == IF entries[reader.flow] = reader.sess THEN {reader.flow} ELSE {}
  <1>0. TypeOK /\ TableInv /\ reader.step = "drop" /\ F \subseteq Flows
    BY ReaderFields DEF UdpInv, DropFailed
  <1>1. /\ entries' = [f \in Flows |-> IF f \in F THEN None ELSE entries[f]]
        /\ lru' = Unlinked(lru, F) /\ CloseSessions(SessionsOf(F)) /\ key' = key
        /\ receiver' = receiver /\ seen' = seen /\ broken' = broken /\ moved' = moved
        /\ blamed' = blamed
    BY Zenon DEF DropFailed, Remove, Drop, SessionsOf
  <1>2. reader'.step = "idle"
    BY <1>0 DEF DropFailed, ReaderDone, TypeOK
  <1> HIDE DEF F
  <1>3. ASSUME NEW j \in Ids PROVE FallbackOK(j)'
    <2>1. InTable(j)' <=> InTable(j) /\ key[j] \notin F
      BY <1>0, <1>1, DropKeeps
    <2>2. reader'.step \notin Sending
      BY <1>2 DEF Sending
    <2> QED BY <1>0, <1>1, <2>1, <2>2, FallbackLeaves
  <1> QED BY <1>1, <1>2, <1>3 DEF FallbackInv

LEMMA FallbackReceiverEnds ==
    ASSUME UdpInv, FallbackInv, NEW i \in Ids, ReceiverEnds(i)
    PROVE  FallbackInv'
  <1> DEFINE F == IF entries[key[i]] = i THEN {key[i]} ELSE {}
  <1>0. TypeOK /\ TableInv /\ F \subseteq Flows
    BY DEF UdpInv, TypeOK
  <1>1. /\ entries' = [f \in Flows |-> IF f \in F THEN None ELSE entries[f]]
        /\ lru' = Unlinked(lru, F) /\ CloseSessions(SessionsOf(F)) /\ key' = key
        /\ reader' = reader /\ seen' = seen /\ broken' = broken /\ moved' = moved
        /\ wrapped' = wrapped /\ blamed' = blamed /\ receiver' = [receiver EXCEPT ![i] = "none"]
    BY DEF ReceiverEnds, ReceiverTo, Remove, Drop, SessionsOf
  <1> HIDE DEF F
  <1>3. ASSUME NEW j \in Ids PROVE FallbackOK(j)'
    <2>1. InTable(j)' <=> InTable(j) /\ key[j] \notin F
      BY <1>0, <1>1, DropKeeps
    <2>2. receiver'[j] \in {receiver[j], "none"}
      BY <1>0, <1>1 DEF TypeOK
    <2>3. Held(j)' = Held(j)
      BY <1>1 DEF Held
    <2> QED BY <1>0, <1>1, <2>1, <2>2, <2>3, FallbackLeaves, Zenon
  <1> QED BY <1>1, <1>3, Zenon DEF FallbackInv

LEMMA FallbackDatagram ==
    ASSUME UdpInv, FallbackInv, NEW f \in Flows, Datagram(f)
    PROVE  FallbackInv'
  <1> DEFINE F == Expired
             hit == entries[f] # None /\ f \notin F
  <1>0. TypeOK /\ TableInv /\ reader.step = "idle" /\ F \subseteq Flows
    BY DEF UdpInv, Datagram, Expired
  <1>1. /\ entries' = [g \in Flows |-> IF g \in F THEN None ELSE entries[g]]
        /\ receiver' = receiver /\ seen' = seen /\ broken' = broken /\ moved' = moved
        /\ blamed' = blamed
        /\ reader' = [reader EXCEPT !.step = IF hit THEN "send" ELSE "open", !.flow = f,
                                    !.sess = IF hit THEN entries[f] ELSE None]
    BY DEF Datagram
  <1>2. CloseSessions(SessionsOf(F))
    <2>1. SessionsOf(F) = {entries[g] : g \in F}
      BY DEF SessionsOf, Expired
    <2> QED BY <2>1 DEF Datagram
  <1> HIDE DEF F
  <1>3. /\ hit => reader'.step = "send" /\ reader'.sess = entries[f]
        /\ ~hit => reader'.step = "open"
    BY <1>0, <1>1 DEF TypeOK
  <1>4. ASSUME NEW j \in Ids PROVE FallbackOK(j)'
    <2>1. InTable(j)' <=> InTable(j) /\ key[j] \notin F
      <3>1. j # None /\ key[j] \in Flows
        BY <1>0, UdpAssumption DEF TypeOK
      <3> QED BY <1>0, <1>1, <3>1, UnderItsKey DEF InTable
    <2>2. Held(j)' /\ reader'.step \in Sending => InTable(j)'
      <3> SUFFICES ASSUME Held(j)', reader'.step \in Sending PROVE InTable(j)'
        OBVIOUS
      <3>1. hit /\ entries[f] = j
        BY <1>3 DEF Sending, Held
      <3> QED BY <1>1, <3>1 DEF InTable
    <2> QED BY <1>0, <1>1, <1>2, <2>1, <2>2, FallbackLeaves
  <1> QED BY <1>1, <1>3, <1>4 DEF FallbackInv

LEMMA FallbackAdd ==
    ASSUME UdpInv, FallbackInv, Add
    PROVE  FallbackInv'
  <1> DEFINE s == reader.sess
             F == AddGone
  <1>0. TypeOK /\ TableInv /\ ReaderInv /\ reader.step = "add"
    BY DEF UdpInv, Add
  <1>1. /\ F \subseteq Flows
        /\ \A j \in Ids : InTable(j)' <=> j = s \/ (InTable(j) /\ key[j] \notin F)
    BY AddTable
  <1>2. /\ s \in Ids /\ ~InTable(s) /\ conn[s]["first"] = "open"
    BY <1>0, ReaderHas DEF ReaderInv
  <1>3. CloseSessions(SessionsOf(F))
    BY DEF Add, AddGone, SessionsOf
  <1>4. /\ receiver' = [receiver EXCEPT ![s] = "start"] /\ seen' = seen /\ broken' = broken
        /\ moved' = moved /\ blamed' = blamed
    BY DEF Add
  <1>5. reader'.step = "send" /\ reader'.sess = s
    BY <1>0 DEF Add, ReaderTo, TypeOK
  <1> HIDE DEF F
  <1>6. ASSUME NEW j \in Ids PROVE FallbackOK(j)'
    <2>1. CASE j = s
      <3>1. conn'[j] = conn[j]
        BY <1>1, <1>2, <1>3, <1>4, <2>1, SessionsLeave
      <3>2. receiver'[j] = "start" /\ InTable(j)'
        BY <1>0, <1>1, <1>2, <1>4, <2>1 DEF TypeOK
      <3> QED BY <1>2, <2>1, <3>1, <3>2 DEF FallbackOK
    <2>2. CASE j # s
      <3>1. receiver'[j] = receiver[j] /\ ~Held(j) /\ ~Held(j)'
        BY <1>0, <1>4, <1>5, <2>2 DEF TypeOK, Held
      <3>2. InTable(j)' <=> InTable(j) /\ key[j] \notin F
        BY <1>1, <2>2
      <3> QED BY <1>1, <1>3, <1>4, <3>1, <3>2, FallbackLeaves
    <2> QED BY <2>1, <2>2
  <1> QED BY <1>4, <1>5, <1>6 DEF FallbackInv

LEMMA FallbackInit == Init => FallbackInv
  <1> SUFFICES ASSUME Init PROVE FallbackInv
    OBVIOUS
  <1>1. reader.step = "idle" /\ blamed = {} /\ receiver = [i \in Ids |-> "none"]
    BY DEF Init
  <1>2. ASSUME NEW i \in Ids PROVE FallbackOK(i)
    <2>1. ~Unreleased(i)
      BY DEF Init, Fresh, Unreleased
    <2> QED BY <1>1, <2>1 DEF FallbackOK, Sending
  <1> QED BY <1>1, <1>2 DEF FallbackInv

LEMMA FallbackNext ==
    ASSUME Layer = "fallback"
    PROVE  UdpInv /\ FallbackInv /\ [Next]_vars => FallbackInv'
  <1> SUFFICES ASSUME UdpInv, FallbackInv, [Next]_vars PROVE FallbackInv'
    OBVIOUS
  <1>1. ASSUME NEW f \in Flows, Datagram(f) PROVE FallbackInv'
    BY <1>1, FallbackDatagram
  <1>2. CASE ReaderWork
    <2>1. ASSUME NEW i \in Ids, OpenPacket(i) PROVE FallbackInv'
      BY <2>1, FallbackOpen
    <2>2. CASE OpenFails \/ ReplyReady \/ SendSnapshot \/ SendOK \/ SendErr \/ SendFailed
      BY <2>2, FallbackReader
    <2>3. CASE ReplyFails
      BY <2>3, FallbackReplyFails
    <2>4. CASE Add
      BY <2>4, FallbackAdd
    <2>5. CASE DropFailed
      BY <2>5, FallbackDropFailed
    <2>6. CASE Swap
      BY <2>6, FallbackSwap
    <2>7. ~SwapDirect
      BY DEF SwapDirect
    <2> QED BY <1>2, <2>1, <2>2, <2>3, <2>4, <2>5, <2>6, <2>7 DEF ReaderWork
  <1>3. ASSUME NEW i \in Ids, ReceiverStep(i) PROVE FallbackInv'
    BY <1>3, FallbackReceive, FallbackReceiverEnds DEF ReceiverStep
  <1>4. CASE (\E i \in Ids, c \in Both : Break(i, c)) \/ Tick
    BY <1>4, FallbackWorld
  <1>5. CASE UNCHANGED vars
    <2>1. /\ entries' = entries /\ reader' = reader /\ receiver' = receiver /\ seen' = seen
          /\ conn' = conn /\ broken' = broken /\ wrapped' = wrapped /\ moved' = moved
          /\ closed' = closed /\ blamed' = blamed
      BY <1>5 DEF vars, tableVars, sessionVars
    <2>2. ASSUME NEW i \in Ids PROVE FallbackOK(i)'
      <3>1. FallbackOK(i)
        BY DEF FallbackInv
      <3> QED BY <2>1, <3>1 DEF FallbackOK, InTable, Held, Unreleased
    <2> QED BY <2>1, <2>2 DEF FallbackInv
  <1> QED BY <1>1, <1>2, <1>3, <1>4, <1>5 DEF Next

\* With the fallback layer, whatever is open is in the table, where the idle timeout
\* finds it, or in the hands of the reader: the backup is opened only for a session
\* that has not been closed (relay_fallback.go:122-156).  The fail-open layer has no
\* such check, and the theorem does not hold of it.
THEOREM ReleaseCorrect ==
    ASSUME Layer = "fallback"
    PROVE  Spec => []NothingLeaks
  <1>1. FallbackInv => NothingLeaks
    BY DEF FallbackInv, FallbackOK, NothingLeaks
  <1> QED BY <1>1, UdpInvariant, FallbackInit, FallbackNext, PTL DEF Spec

\* With the fallback layer, the relay is reported as failed only for a connection
\* that has broken, however closing, Send and Receive interleave
\* (relay_fallback.go:122-183).
THEOREM BlameCorrect ==
    ASSUME Layer = "fallback"
    PROVE  Spec => []ClosingDoesNotFailPrimary
  <1>1. FallbackInv => ClosingDoesNotFailPrimary
    BY DEF FallbackInv, ClosingDoesNotFailPrimary
  <1> QED BY <1>1, UdpInvariant, FallbackInit, FallbackNext, PTL DEF Spec
=============================================================================
