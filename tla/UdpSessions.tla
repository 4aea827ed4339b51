---------------------------- MODULE UdpSessions -----------------------------
(***************************************************************************)
(* The UDP data plane: the reader goroutine of UDPServer.Run, which runs   *)
(* handlePacket for one datagram after another, one forwardUDPReply        *)
(* goroutine per session, the session table both of them use, and the      *)
(* relay session below: fallbackPacketSession (Layer "fallback", the relay *)
(* is PacketRelayFallback) or failOpenPacketSession (Layer "failopen").    *)
(*                                                                         *)
(* A wrapped session starts on its first connection and may be moved once  *)
(* to a second one (the backup relay, or the direct socket).  A session    *)
(* opened on the backup relay or directly is not wrapped.  The transport   *)
(* under a connection breaks at any time; "closed" means released by this  *)
(* process.  Receive fails on a closed connection.  Send fails on a closed *)
(* socket or fallback session, but a closed HY2 session goes on sending as *)
(* long as its QUIC connection lives (third_party/hysteria-core).          *)
(***************************************************************************)
EXTENDS Recency, FiniteSets

CONSTANTS
    Flows,      \* session keys: source and target endpoint
    Ids,        \* bound: session objects alive at once
    None,       \* no session
    Capacity,   \* table.capacity, after newSessionTable's lower limit
    Idle,       \* table.idle, in units of time
    Layer,      \* "fallback" or "failopen"
    OverHY2     \* the first connection of a wrapped session is HY2's own; a
                \* fail-open session may also wrap a fallback session

ASSUME UdpAssumption ==
    /\ None \notin Ids
    /\ Capacity \in Nat \ {0}
    /\ Idle \in Nat \ {0}
    /\ Layer \in {"fallback", "failopen"}
    /\ OverHY2 \in BOOLEAN
    /\ Layer = "fallback" => OverHY2

VARIABLES
    entries,    \* table.entries: the session of a flow, or None
    lru,        \* table.lru, least recently used first
    idleLeft,   \* entry.last + idle - now
    reader,     \* the reader: its step, flow, session and the snapshot of Send
    key,        \* the flow a session was added for
    receiver,   \* forwardUDPReply of each session: its step
    seen,       \* the connection that goroutine has read from s.session
    conn,       \* the connections of each session
    broken,     \* the connections whose transport has failed
    wrapped,    \* the session is a fallback or fail-open session
    moved,      \* s.backup, s.directMode
    closed,     \* s.closed
    blamed      \* sessions that had the relay marked as failed although the
                \* connection had not broken (history, read by properties)

tableVars == <<entries, lru, idleLeft>>
sessionVars == <<conn, broken, wrapped, moved, closed>>
vars == <<tableVars, reader, key, receiver, seen, sessionVars, blamed>>

Both == {"first", "second"}
ReaderSteps == {"idle", "open", "reply", "add", "send", "sending", "failed", "swap", "drop"}

\* Every variable holds a value of its type: a session is never given more
\* than the idle timeout (session_table.go:51-78).
TypeOK ==
    /\ entries \in [Flows -> Ids \cup {None}]
    /\ lru \in Seq(Flows)
    /\ idleLeft \in [Flows -> 0..Idle]
    /\ reader \in [step : ReaderSteps, flow : Flows, sess : Ids \cup {None},
                   packet : Both, backup : BOOLEAN]
    /\ key \in [Ids -> Flows]
    /\ receiver \in [Ids -> {"none", "start", "recv", "check", "remove"}]
    /\ seen \in [Ids -> Both]
    /\ conn \in [Ids -> [Both -> {"none", "open", "closed"}]]
    /\ broken \in [Ids -> SUBSET Both]
    /\ wrapped \in [Ids -> BOOLEAN]
    /\ moved \in [Ids -> BOOLEAN]
    /\ closed \in [Ids -> BOOLEAN]
    /\ blamed \subseteq Ids

Fresh == [c \in Both |-> "none"]

Init ==
    /\ entries = [f \in Flows |-> None]
    /\ lru = <<>>
    /\ idleLeft = [f \in Flows |-> 0]
    /\ reader \in [step : {"idle"}, flow : Flows, sess : {None}, packet : {"first"}, backup : {FALSE}]
    /\ \E f \in Flows : key = [i \in Ids |-> f]
    /\ receiver = [i \in Ids |-> "none"]
    /\ seen = [i \in Ids |-> "first"]
    /\ conn = [i \in Ids |-> Fresh]
    /\ broken = [i \in Ids |-> {}]
    /\ wrapped = [i \in Ids |-> FALSE]
    /\ moved = [i \in Ids |-> FALSE]
    /\ closed = [i \in Ids |-> FALSE]
    /\ blamed = {}
-----------------------------------------------------------------------------
Current(i) == IF moved[i] THEN "second" ELSE "first"      \* s.session
InTable(i) == \E f \in Flows : entries[f] = i
Held(i) == reader.sess = i                                \* the reader works on i
Unreleased(i) == \E c \in Both : conn[i][c] = "open"
Works(i, c) == conn[i][c] = "open" /\ c \notin broken[i]

\* Whether Send fails on a connection.  HY2's udpConn does not look whether it was closed.
Refuses(i, c) ==
    \/ c \in broken[i]
    \/ conn[i][c] = "closed" /\ ~(OverHY2 /\ wrapped[i] /\ c = "first")

\* A session object nobody refers to any more: the identifier can be reused.
Free(i) ==
    /\ ~InTable(i) /\ ~Held(i) /\ receiver[i] = "none"
    /\ ~Unreleased(i)

\* udpSession.Close down to the connection, for every session of a set.
CloseSessions(S) ==
    /\ conn' = [i \in Ids |->
                   IF i \in S THEN [conn[i] EXCEPT ![Current(i)] = "closed"] ELSE conn[i]]
    /\ closed' = [i \in Ids |-> i \in S \/ closed[i]]

\* expireLocked: what the table drops before it does anything else.
Expired == {f \in Flows : entries[f] # None /\ idleLeft[f] = 0}

\* removeLocked for a set of flows.
Drop(F) ==
    /\ entries' = [f \in Flows |-> IF f \in F THEN None ELSE entries[f]]
    /\ lru' = Unlinked(lru, F)
    /\ CloseSessions({entries[f] : f \in F} \ {None})

\* A faulty remove that does not compare the session.
RemoveAny(f, i) == Drop({f})

\* sessionTable.remove: only the generation that failed.
Remove(f, i) == Drop(IF entries[f] = i THEN {f} ELSE {})

ReaderTo(step) == reader' = [reader EXCEPT !.step = step]
ReaderDone == reader' = [reader EXCEPT !.step = "idle", !.sess = None]
-----------------------------------------------------------------------------
\* handlePacket, sessionTable.get.
Datagram(f) ==
    LET kept == Unlinked(lru, Expired)
        hit == entries[f] # None /\ f \notin Expired
    IN  /\ reader.step = "idle"
        /\ entries' = [g \in Flows |-> IF g \in Expired THEN None ELSE entries[g]]
        /\ lru' = IF hit THEN MovedToBack(kept, f) ELSE kept
        /\ idleLeft' = IF hit THEN [idleLeft EXCEPT ![f] = Idle] ELSE idleLeft
        /\ CloseSessions({entries[g] : g \in Expired})
        /\ reader' = [reader EXCEPT !.step = IF hit THEN "send" ELSE "open",
                                    !.flow = f,
                                    !.sess = IF hit THEN entries[f] ELSE None]
        /\ UNCHANGED <<key, receiver, seen, broken, wrapped, moved, blamed>>

\* handlePacket, dialer.OpenPacket.
OpenFails ==
    /\ reader.step = "open"
    /\ ReaderDone
    /\ UNCHANGED <<tableVars, key, receiver, seen, sessionVars, blamed>>

OpenPacket(i) ==
    /\ reader.step = "open"
    /\ Free(i)
    /\ reader' = [reader EXCEPT !.step = "reply", !.sess = i]
    /\ conn' = [conn EXCEPT ![i] = [Fresh EXCEPT !["first"] = "open"]]
    /\ broken' = [broken EXCEPT ![i] = {}]
    /\ \E w \in BOOLEAN : wrapped' = [wrapped EXCEPT ![i] = w]
    /\ moved' = [moved EXCEPT ![i] = FALSE]
    /\ closed' = [closed EXCEPT ![i] = FALSE]
    /\ blamed' = blamed \ {i}
    /\ UNCHANGED <<tableVars, key, receiver, seen>>

\* A faulty handlePacket that forgets the packet session.
ReplyFailsLeaks ==
    /\ reader.step = "reply"
    /\ ReaderDone
    /\ UNCHANGED <<tableVars, key, receiver, seen, sessionVars, blamed>>

\* handlePacket, the reply socket.
ReplyFails ==
    /\ reader.step = "reply"
    /\ CloseSessions({reader.sess})
    /\ ReaderDone
    /\ UNCHANGED <<tableVars, key, receiver, seen, broken, wrapped, moved, blamed>>

ReplyReady ==
    /\ reader.step = "reply"
    /\ ReaderTo("add")
    /\ UNCHANGED <<tableVars, key, receiver, seen, sessionVars, blamed>>

\* How many entries of the list make room for one more.
Victims(list) == IF Len(list) >= Capacity THEN Len(list) - Capacity + 1 ELSE 0

\* handlePacket, sessionTable.add: expiry, the old entry of the flow, then the
\* least recently used ones until there is room; and the receiver's start.
Add ==
    LET f == reader.flow
        i == reader.sess
        kept == Unlinked(lru, Expired \cup {f})
        over == Victims(kept)
        gone == Expired \cup {f} \cup {kept[n] : n \in 1..over}
    IN  /\ reader.step = "add"
        /\ entries' = [g \in Flows |->
                          IF g = f THEN i ELSE IF g \in gone THEN None ELSE entries[g]]
        /\ lru' = Append(SubSeq(kept, over + 1, Len(kept)), f)
        /\ idleLeft' = [idleLeft EXCEPT ![f] = Idle]
        /\ CloseSessions({entries[g] : g \in gone} \ {None})
        /\ receiver' = [receiver EXCEPT ![i] = "start"]
        /\ ReaderTo("send")
        /\ key' = [key EXCEPT ![i] = f]
        /\ UNCHANGED <<seen, broken, wrapped, moved, blamed>>

\* handlePacket, sessionTable.remove after a failed Send.
DropFailed ==
    /\ reader.step = "drop"
    /\ Remove(reader.flow, reader.sess)
    /\ ReaderDone
    /\ UNCHANGED <<idleLeft, key, receiver, seen, broken, wrapped, moved, blamed>>
-----------------------------------------------------------------------------
\* Send of either session, the snapshot under the read lock; a closed fallback
\* session refuses.
SendSnapshot ==
    LET i == reader.sess
    IN  /\ reader.step = "send"
        /\ IF Layer = "fallback" /\ wrapped[i] /\ closed[i]
           THEN ReaderTo("drop")
           ELSE reader' = [reader EXCEPT !.step = "sending",
                                         !.packet = Current(i), !.backup = moved[i]]
        /\ UNCHANGED <<tableVars, key, receiver, seen, sessionVars, blamed>>

\* Send on the connection of the snapshot.
SendOK ==
    /\ reader.step = "sending"
    /\ ~Refuses(reader.sess, reader.packet)
    /\ ReaderDone
    /\ UNCHANGED <<tableVars, key, receiver, seen, sessionVars, blamed>>

SendErr ==
    /\ reader.step = "sending"
    /\ Refuses(reader.sess, reader.packet)
    /\ ReaderTo(IF ~wrapped[reader.sess] \/ reader.backup THEN "drop"
                ELSE IF Layer = "fallback" THEN "failed" ELSE "swap")
    /\ UNCHANGED <<tableVars, key, receiver, seen, sessionVars, blamed>>

\* owner.failed() or controller.RecordFailure() on account of session i.
Blame(i, c) == blamed' = IF c \in broken[i] THEN blamed ELSE blamed \cup {i}

\* fallbackPacketSession.Send: the relay enters its cooldown before the lock
\* is taken and s.closed looked at.
SendFailed ==
    /\ reader.step = "failed"
    /\ Blame(reader.sess, reader.packet)
    /\ ReaderTo("swap")
    /\ UNCHANGED <<tableVars, key, receiver, seen, sessionVars>>

\* fallbackPacketSession.Send, under the write lock: a closed session stays as
\* it is; otherwise the backup is opened, published, the old connection closed
\* and the datagram sent again.
Swap ==
    LET i == reader.sess
    IN  /\ Layer = "fallback" /\ reader.step = "swap"
        /\ \/ closed[i] /\ ReaderTo("drop") /\ UNCHANGED <<conn, moved>>
           \/ ~closed[i] /\ ReaderTo("drop") /\ UNCHANGED <<conn, moved>>  \* backup fails to open
           \/ /\ ~closed[i]
              /\ moved' = [moved EXCEPT ![i] = TRUE]
              /\ conn' = [conn EXCEPT ![i] = [first |-> "closed", second |-> "open"]]
              /\ ReaderDone \/ ReaderTo("drop")
        /\ UNCHANGED <<tableVars, key, receiver, seen, broken, wrapped, closed, blamed>>

\* failOpenPacketSession.Send, under the write lock: the failure is recorded,
\* the connection closed, a direct one opened; the datagram is not sent again.
SwapDirect ==
    LET i == reader.sess
    IN  /\ Layer = "failopen" /\ reader.step = "swap"
        /\ Blame(i, reader.packet)
        /\ \/ /\ conn' = [conn EXCEPT ![i] = [first |-> "closed", second |-> "none"]]
              /\ UNCHANGED moved
           \/ /\ conn' = [conn EXCEPT ![i] = [first |-> "closed", second |-> "open"]]
              /\ moved' = [moved EXCEPT ![i] = TRUE]
        /\ ReaderTo("drop")
        /\ UNCHANGED <<tableVars, key, receiver, seen, broken, wrapped, closed>>
-----------------------------------------------------------------------------
ReceiverTo(i, step) == receiver' = [receiver EXCEPT ![i] = step]

\* Receive of either session, its snapshot.
ReceiveSnapshot(i) ==
    /\ receiver[i] = "start"
    /\ IF Layer = "fallback" /\ wrapped[i] /\ closed[i]
       THEN ReceiverTo(i, "remove") /\ UNCHANGED seen
       ELSE ReceiverTo(i, "recv") /\ seen' = [seen EXCEPT ![i] = Current(i)]
    /\ UNCHANGED <<tableVars, reader, key, sessionVars, blamed>>

\* A reply arrives; writing it to the client may fail.
ReceiveReply(i) ==
    /\ receiver[i] = "recv" /\ Works(i, seen[i])
    /\ ReceiverTo(i, "start") \/ ReceiverTo(i, "remove")
    /\ UNCHANGED <<tableVars, reader, key, seen, sessionVars, blamed>>

\* What follows an error of Receive; a faulty forwardUDPReply tries again.
ErrRetries(i) == "start"
AfterErr(i) == IF Layer = "fallback" /\ wrapped[i] THEN "check" ELSE "remove"

ReceiveErr(i) ==
    /\ receiver[i] = "recv" /\ ~Works(i, seen[i])
    /\ ReceiverTo(i, AfterErr(i))
    /\ UNCHANGED <<tableVars, reader, key, seen, sessionVars, blamed>>

\* Whether an error of Receive is the relay's; a faulty Receive forgets that the
\* session may have been closed here.
SuspectsClosed(i) == ~moved[i]
Suspects(i) == ~closed[i] /\ ~moved[i]

\* fallbackPacketSession.Receive after an error: read again from a
\* replacement, otherwise blame the relay unless the session was closed.
ReceiveCheck(i) ==
    /\ receiver[i] = "check"
    /\ \/ /\ Current(i) # seen[i] /\ ~closed[i]
          /\ ReceiverTo(i, "start") /\ UNCHANGED blamed
       \/ /\ Current(i) = seen[i] \/ closed[i]
          /\ IF Suspects(i) THEN Blame(i, seen[i]) ELSE UNCHANGED blamed
          /\ ReceiverTo(i, "remove")
    /\ UNCHANGED <<tableVars, reader, key, seen, sessionVars>>

\* A faulty forwardUDPReply without the deferred remove.
ReceiverEndsSilently(i) ==
    /\ receiver[i] = "remove"
    /\ ReceiverTo(i, "none")
    /\ UNCHANGED <<tableVars, reader, key, seen, sessionVars, blamed>>

\* forwardUDPReply, the deferred sessionTable.remove.
ReceiverEnds(i) ==
    /\ receiver[i] = "remove"
    /\ Remove(key[i], i)
    /\ ReceiverTo(i, "none")
    /\ UNCHANGED <<idleLeft, reader, key, seen, broken, wrapped, moved, blamed>>
-----------------------------------------------------------------------------
\* The environment: a relay connection breaks, time passes.
Break(i, c) ==
    /\ conn[i][c] # "none" /\ c \notin broken[i] /\ ~Free(i)
    /\ broken' = [broken EXCEPT ![i] = @ \cup {c}]
    /\ UNCHANGED <<tableVars, reader, key, receiver, seen, conn, wrapped, moved, closed, blamed>>

Tick ==
    /\ \E f \in Flows : entries[f] # None /\ idleLeft[f] > 0
    /\ idleLeft' = [f \in Flows |-> IF idleLeft[f] > 0 THEN idleLeft[f] - 1 ELSE 0]
    /\ UNCHANGED <<entries, lru, reader, key, receiver, seen, sessionVars, blamed>>

ReaderWork ==
    \/ OpenFails \/ (\E i \in Ids : OpenPacket(i))
    \/ ReplyFails \/ ReplyReady \/ Add \/ DropFailed
    \/ SendSnapshot \/ SendOK \/ SendErr \/ SendFailed \/ Swap \/ SwapDirect

ReceiverStep(i) ==
    \/ ReceiveSnapshot(i) \/ ReceiveReply(i) \/ ReceiveErr(i)
    \/ ReceiveCheck(i) \/ ReceiverEnds(i)

Next ==
    \/ \E f \in Flows : Datagram(f)
    \/ ReaderWork
    \/ \E i \in Ids : ReceiverStep(i)
    \/ \E i \in Ids, c \in Both : Break(i, c)
    \/ Tick

Spec == Init /\ [][Next]_vars

\* The goroutines run and a pending Receive on a dead connection returns.
\* Nothing makes datagrams or replies arrive or connections break.
FairSpec ==
    /\ Spec
    /\ WF_vars(ReaderWork)
    /\ WF_vars(Tick)
    /\ \A i \in Ids :
          WF_vars(ReceiveSnapshot(i) \/ ReceiveErr(i) \/ ReceiveCheck(i) \/ ReceiverEnds(i))
-----------------------------------------------------------------------------
\* Whatever the reader and the receivers do, the map and the list of the table
\* hold the same flows, within capacity, and no session serves two flows
\* (session_table.go:51-118).
TableConsistent ==
    /\ OnceEach(lru, {f \in Flows : entries[f] # None})
    /\ Len(lru) <= Capacity
    /\ \A f \in Flows : entries[f] # None => key[entries[f]] = f

\* The table is consistent, and every session in it can carry the next datagram
\* and its reply: nobody has closed it behind the table's back, and the goroutine
\* that will remove it when its connection fails is still there (udp.go:117-166;
\* README.md:49-50, "failed receive sessions are removed").
TableUsable ==
    /\ TypeOK /\ TableConsistent
    /\ \A i \in Ids : InTable(i) =>
        /\ receiver[i] # "none"
        /\ Held(i) \/ (~closed[i] /\ conn[i][Current(i)] # "closed")

\* A receiver takes only its own session out of the table, never the one that
\* has replaced it (session_table.go:111, "an old receiver must not delete a
\* replacement").
ReplacementSurvives ==
    [][\A f \in Flows : entries[f] # None /\ entries'[f] # entries[f] =>
           reader' # reader \/ receiver[entries[f]] = "remove"]_vars

\* Every connection that has not been released belongs to a session the table
\* can still expire, or to the datagram being handled
\* (docs/superpowers/specs/2026-07-24-hy2route-core-design.md:156, idle
\* sessions are released after a timeout).
NothingLeaks == \A i \in Ids : Unreleased(i) => InTable(i) \/ Held(i)

\* The relay enters its cooldown only because a connection of it has broken,
\* never because a session was expired, evicted or removed here while Send or
\* Receive was under way on it (README.md:50-51; relay_fallback.go:122-183;
\* relay_fallback_test.go:169, "normal session close triggered relay failure").
ClosingDoesNotFailPrimary == blamed = {}

\* A session whose connection has broken leaves the table, or moves to a
\* working connection, without waiting for the next datagram of its flow
\* (README.md:49-50; udp.go:152-166, relay_fallback.go:158-183).
BrokenSessionsRemoved ==
    \A i \in Ids : (InTable(i) /\ Current(i) \in broken[i])
                       ~> (~InTable(i) \/ Works(i, Current(i)))
=============================================================================
