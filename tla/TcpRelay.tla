------------------------------ MODULE TcpRelay ------------------------------
(***************************************************************************)
(* The TCP data plane (internal/dataplane/tcp.go): TCPServer.Run accepts    *)
(* connections within MaxActive slots, handle peeks at the first bytes,     *)
(* dials and relays; relayFrom copies both ways until both copies ended.    *)
(*                                                                          *)
(* A copy goroutine returns from io.CopyBuffer, marks itself first if it is *)
(* (CompareAndSwap), then closes the write side and sends its result: three *)
(* steps, between which the other may run.  The peers (external) send, end  *)
(* their stream or reset it at any time.  A hysteria stream has no          *)
(* CloseWrite: closing its write side closes it all, and the read waiting   *)
(* on it fails with an error that is not net.ErrClosed.                     *)
(*                                                                          *)
(* Of the data only this is kept: whether a peer has sent what its copy has *)
(* not read, and whether a copy has read what it has not written.           *)
(***************************************************************************)
EXTENDS Naturals, FiniteSets

CONSTANTS
    Conns,      \* bound: connections alive at once
    MaxActive   \* capacity of the channel active

ASSUME TcpAssumption == IsFiniteSet(Conns) /\ MaxActive \in Nat \ {0}

VARIABLES
    slots,      \* length of the channel active
    stopping,   \* the context of Run is cancelled and the listener closed
    conn        \* conn[c]: the connection c, its handler and its relay

vars == <<slots, stopping, conn>>

Sides == {"up", "down"}       \* inbound to outbound, outbound to inbound
Peer == {"open", "fin", "reset"}

Connection ==
    [stage : {"none", "accepted", "peek", "dial", "relay", "return"},
     inOpen : BOOLEAN, outOpen : BOOLEAN,   \* not closed on this side
     half : BOOLEAN,                        \* outbound has CloseWrite
     client : Peer, server : Peer,          \* what the peers did
     copy : [Sides -> {"copying", "returned", "marked", "sent"}],
     err : [Sides -> {"none", "peer", "local"}],
     unread : SUBSET Sides,                 \* the source has sent what was not read
     unwritten : SUBSET Sides,              \* what was read has not been written
     first : Sides \cup {"none"},           \* who won completed
     failed : BOOLEAN]                      \* handle returned an error

Unused ==
    [stage |-> "none", inOpen |-> FALSE, outOpen |-> FALSE, half |-> FALSE,
     client |-> "open", server |-> "open", copy |-> [s \in Sides |-> "copying"],
     err |-> [s \in Sides |-> "none"], unread |-> {}, unwritten |-> {},
     first |-> "none", failed |-> FALSE]

\* Every variable holds a value of its type and the slots are within capacity
\* (the select of Run refuses a connection when the channel is full).
TypeOK ==
    /\ slots \in 0..MaxActive
    /\ stopping \in BOOLEAN
    /\ conn \in [Conns -> Connection]

Init == slots = 0 /\ stopping = FALSE /\ conn = [c \in Conns |-> Unused]

Becomes(c, r) == conn' = [conn EXCEPT ![c] = r]

-----------------------------------------------------------------------------
(* TCPServer.Run and handle *)

\* listener.Accept returns a connection to the one accept loop.
Accept(c) ==
    /\ ~stopping
    /\ conn[c].stage = "none" /\ \A d \in Conns : conn[d].stage # "accepted"
    /\ Becomes(c, [Unused EXCEPT !.stage = "accepted", !.inOpen = TRUE])
    /\ UNCHANGED <<slots, stopping>>

\* A variant of HasRoom: one connection too many is admitted.
HasRoomLate == slots <= MaxActive

HasRoom == slots < MaxActive

\* There is room in active: a goroutine handles the connection.
Admit(c) ==
    /\ conn[c].stage = "accepted" /\ HasRoom
    /\ slots' = slots + 1
    /\ Becomes(c, [conn[c] EXCEPT !.stage = "peek"])
    /\ UNCHANGED stopping

\* active is full: the connection is closed at once.
Refuse(c) ==
    /\ conn[c].stage = "accepted" /\ ~HasRoom
    /\ Becomes(c, Unused)
    /\ UNCHANGED <<slots, stopping>>

\* handle returns an error: the destination is unknown, the read deadline is
\* refused or the context has ended while peeking, or the dial fails.
HandleFails(c) ==
    /\ conn[c].stage \in {"peek", "dial"}
    /\ Becomes(c, [conn[c] EXCEPT !.stage = "return", !.failed = TRUE])
    /\ UNCHANGED <<slots, stopping>>

\* Peek returns what it could parse: a read error or its timeout is no error.
Peeked(c) ==
    /\ conn[c].stage = "peek"
    /\ Becomes(c, [conn[c] EXCEPT !.stage = "dial"])
    /\ UNCHANGED <<slots, stopping>>

\* The dialer returns a stream of either kind and relayFrom starts.
Dialed(c) ==
    /\ conn[c].stage = "dial"
    /\ \E h \in BOOLEAN :
         Becomes(c, [conn[c] EXCEPT !.stage = "relay", !.outOpen = TRUE, !.half = h])
    /\ UNCHANGED <<slots, stopping>>

\* A variant of Release: the slot is given back only when handle succeeded.
ReleaseOnSuccess(c) == slots' = IF conn[c].failed THEN slots ELSE slots - 1

\* The deferred receive from active.
Release(c) == slots' = slots - 1

\* handle's deferred calls close both connections, then Run's frees the slot.
Return(c) ==
    /\ conn[c].stage = "return"
    /\ Becomes(c, Unused)
    /\ Release(c)
    /\ UNCHANGED stopping

\* The context ends: no more connections; relays go on until the process exits.
Stop == ~stopping /\ stopping' = TRUE /\ UNCHANGED <<slots, conn>>

-----------------------------------------------------------------------------
(* relayFrom *)

Copying(c, s) == conn[c].stage = "relay" /\ conn[c].copy[s] = "copying"
Source(c, s) == IF s = "up" THEN conn[c].client ELSE conn[c].server
Sink(c, s) == IF s = "up" THEN conn[c].server ELSE conn[c].client

\* The copy is in a write: nothing but the peer ends it, there is no deadline.
Writing(c, s) == Copying(c, s) /\ s \in conn[c].unwritten

\* A read of the source can still return data.
Readable(c, s) == s = "up" \/ conn[c].outOpen

\* What a read of the source returns once it neither waits nor returns data: the
\* end of the stream when all of it was read, a reset, or the error of a stream
\* closed here.
ReadErrors(c, s) ==
    {e \in {"none", "peer", "local"} :
        \/ e = "none" /\ Source(c, s) = "fin" /\ s \notin conn[c].unread
        \/ e = "peer" /\ Source(c, s) = "reset"
        \/ e = "local" /\ ~Readable(c, s)}

CopyEnds(c, s, e) == Becomes(c, [conn[c] EXCEPT !.copy[s] = "returned", !.err[s] = e])

\* io.CopyBuffer reads what the source has sent and turns to writing it.
Reads(c, s) ==
    /\ Copying(c, s) /\ ~Writing(c, s)
    /\ s \in conn[c].unread /\ Readable(c, s)
    /\ Becomes(c, [conn[c] EXCEPT !.unread = @ \ {s}, !.unwritten = @ \cup {s}])
    /\ UNCHANGED <<slots, stopping>>

\* io.CopyBuffer returns from a read.
ReadEnds(c, s) ==
    /\ Copying(c, s) /\ ~Writing(c, s)
    /\ \E e \in ReadErrors(c, s) : CopyEnds(c, s, e)
    /\ UNCHANGED <<slots, stopping>>

\* The write is done: the peer reads, or there is room for what it will read.
Written(c, s) ==
    /\ Writing(c, s) /\ Sink(c, s) # "reset"
    /\ Becomes(c, [conn[c] EXCEPT !.unwritten = @ \ {s}])
    /\ UNCHANGED <<slots, stopping>>

\* io.CopyBuffer returns from a write to a peer that has reset the stream.
WriteFails(c, s) ==
    /\ Writing(c, s) /\ Sink(c, s) = "reset"
    /\ CopyEnds(c, s, "peer")
    /\ UNCHANGED <<slots, stopping>>

\* completed.CompareAndSwap(0, ...).
MarkFirst(c, s) ==
    /\ conn[c].copy[s] = "returned"
    /\ Becomes(c, [conn[c] EXCEPT !.copy[s] = "marked", !.first = IF @ = "none" THEN s ELSE @])
    /\ UNCHANGED <<slots, stopping>>

\* Variants of FullyCloses: the stream is left open, or closed in any case.
ClosesNever(c, s) == FALSE
ClosesAlways(c, s) == s = "up"

\* closeWrite closes the whole connection if that has no CloseWrite.  The
\* inbound connection is a TCP connection and has it.
FullyCloses(c, s) == s = "up" /\ ~conn[c].half

\* closeWrite, and the result goes to the channel.
SendResult(c, s) ==
    /\ conn[c].copy[s] = "marked"
    /\ Becomes(c, [conn[c] EXCEPT !.copy[s] = "sent", !.outOpen = @ /\ ~FullyCloses(c, s)])
    /\ UNCHANGED <<slots, stopping>>

\* A variant of RelayFailed: the error of the second copy always counts.
RelayFailedEither(c) == \E s \in Sides : conn[c].err[s] # "none"

\* The error relayFrom returns: that of the first copy, or of the second unless
\* the first has closed the stream under it.
RelayFailed(c) ==
    \/ conn[c].err[conn[c].first] # "none"
    \/ ~FullyCloses(c, conn[c].first) /\ \E s \in Sides : conn[c].err[s] # "none"

\* Both results have been received.
RelayEnds(c) ==
    /\ conn[c].stage = "relay" /\ \A s \in Sides : conn[c].copy[s] = "sent"
    /\ Becomes(c, [conn[c] EXCEPT !.stage = "return", !.failed = RelayFailed(c)])
    /\ UNCHANGED <<slots, stopping>>

\* A peer that has not ended its stream sends.
PeerSends(c, s) ==
    /\ IF s = "up" THEN conn[c].inOpen ELSE conn[c].outOpen
    /\ Source(c, s) = "open"
    /\ Becomes(c, [conn[c] EXCEPT !.unread = @ \cup {s}])
    /\ UNCHANGED <<slots, stopping>>

\* A peer ends its stream or resets it, also after having ended it.
PeerEnds(c) ==
    /\ \/ \E how \in {"fin", "reset"} \ {conn[c].client} :
             /\ conn[c].inOpen /\ conn[c].client # "reset"
             /\ Becomes(c, [conn[c] EXCEPT !.client = how])
       \/ \E how \in {"fin", "reset"} \ {conn[c].server} :
             /\ conn[c].outOpen /\ conn[c].server # "reset"
             /\ Becomes(c, [conn[c] EXCEPT !.server = how])
    /\ UNCHANGED <<slots, stopping>>

-----------------------------------------------------------------------------
Handle(c) ==
    \/ Admit(c) \/ Refuse(c) \/ HandleFails(c) \/ Peeked(c) \/ Dialed(c)
    \/ RelayEnds(c) \/ Return(c)

CopyStep(c, s) ==
    Reads(c, s) \/ ReadEnds(c, s) \/ WriteFails(c, s) \/ MarkFirst(c, s) \/ SendResult(c, s)

Next ==
    \/ Stop
    \/ \E c \in Conns :
         \/ Accept(c) \/ Handle(c) \/ PeerEnds(c)
         \/ \E s \in Sides : CopyStep(c, s) \/ Written(c, s) \/ PeerSends(c, s)

Spec == Init /\ [][Next]_vars

\* Goroutines run, peeking ends by its timeout and dials return; a read of a
\* stream that has data or has ended, was reset or is closed here returns, and so
\* does a write to one that was reset.  Nothing makes a peer end its stream, or read.
FairSpec ==
    /\ Spec
    /\ \A c \in Conns : WF_vars(Handle(c)) /\ \A s \in Sides : WF_vars(CopyStep(c, s))

-----------------------------------------------------------------------------
(* Properties *)

Handlers == {c \in Conns : conn[c].stage \notin {"none", "accepted"}}

\* Every slot in use belongs to a connection being handled, on every path out
\* of handle, and no stream is open that no handler will close (tcp.go:54-100).
SlotsMatchHandlers ==
    /\ slots = Cardinality(Handlers)
    /\ \A c \in Conns : conn[c].outOpen => conn[c].stage \in {"relay", "return"}

\* A relay whose peers only ended their streams ends without an error: the
\* error a copy gets because the other one closed the stream under it is told
\* apart, whatever the order of the two goroutines (tcp.go:190-218).
CleanEndIsNoError ==
    \A c \in Conns :
        /\ conn[c].stage = "return" /\ conn[c].first # "none"
        /\ "reset" \notin {conn[c].client, conn[c].server}
        => ~conn[c].failed

\* A relay that returns no error has passed on all that its peers sent, whatever
\* the order in which the copies end, close and report (tcp.go:190-230).  One case is
\* excepted: the client ended its stream first and the stream to the server has no
\* half-close, so that closing it cuts what the server was still sending.
NothingCutSilently ==
    \A c \in Conns :
        conn[c].stage = "return" /\ conn[c].first # "none" /\ ~conn[c].failed =>
            \A s \in conn[c].unread \cup conn[c].unwritten :
                s = "down" /\ conn[c].first = "up" /\ ~conn[c].half

\* A client that has ended its side of a relay over a stream without half-close
\* does not keep its handler and slot: the opposite copy is released
\* (tcp.go:226-230), unless a copy waits in a write, which nothing bounds.
ClientEndFreesSlot ==
    \A c \in Conns :
        (conn[c].stage = "relay" /\ ~conn[c].half /\ conn[c].client # "open")
            ~> (conn[c].stage # "relay" \/ \E s \in Sides : Writing(c, s))

\* The channel active is a pool of MaxActive slots held by the handlers: each
\* connection takes one slot and gives that one back, at the end of its handler
\* and not before (tcp.go:54-73).
Pool == INSTANCE SlotPool WITH Users <- Conns, Size <- MaxActive, holders <- Handlers
HandlersPooled == Pool!Spec

=============================================================================
