------------------------------ MODULE Landing ------------------------------
(***************************************************************************)
(* The landing proxies of internal/landing over the relay fallback: HTTP   *)
(* CONNECT, SOCKS5 CONNECT, and SOCKS5 UDP ASSOCIATE with the session it   *)
(* returns.  With fail_open the relays are wrapped: the landing server is  *)
(* dialled directly when the mode says so or the relays have failed, and   *)
(* the packet path may be a local socket (FailOpen.tla has the mode).  The *)
(* dials that do not use the landing (the trusted DNS exchanges, the       *)
(* recovery probe) share the relay's cooldown with the landing's.          *)
(*                                                                         *)
(* An operation is a goroutine that waits in turn for the relay, for each  *)
(* answer of the landing server and for the packet path.  An association   *)
(* then has three users: its caller, who sends and closes, the goroutine   *)
(* that receives for the caller, and the watcher of the control stream.    *)
(***************************************************************************)
EXTENDS RelayFallback, FiniteSets

CONSTANTS
    Ops,            \* slots for operations on the landing
    Targets,        \* destinations
    Numeric,        \* those whose host is an address
    None,           \* no destination
    Handshake       \* the deadline of the exchange with the landing, 5 s

ASSUME LandingAssumption ==
    /\ Ops \subseteq Dials
    /\ Numeric \subseteq Targets /\ None \notin Targets
    /\ Handshake \in Nat \ {0}

VARIABLES
    landing,        \* cfg.Landing.Type
    failOpen,       \* cfg.FailOpen
    op              \* the operations

config == <<landing, failOpen>>
vars == <<relayVars, config, op>>

Exchange == {"greeting", "auth", "request", "address"}
PacketPath == {"hy2", "connect", "xudp", "socket"}
Setup == Exchange \cup PacketPath
Association == {"open", "closing", "closed"}
Off == -1

\* udp: ASSOCIATE rather than CONNECT.  conn, packet: the control stream and
\* the packet session are open.  left: what is left of conn's deadline, or of
\* the packet attempt.  ended: the landing has ended the control stream.
\* recv, sending: where the receiving goroutine and a Send stand; origin: of the
\* payload Receive has in hand.  History: age, time since the control stream
\* stands; asked, the caller has given the session up; sent, the destinations
\* sent to; strays, the payloads returned to the caller of an association bound
\* to another, numeric destination.
Operation == [at : {"none", "dial", "direct", "stream"} \cup Setup \cup Association,
              udp : BOOLEAN, conn : BOOLEAN, packet : BOOLEAN,
              left : Nat \cup {Off}, age : Nat,
              ended : BOOLEAN, asked : BOOLEAN, watching : BOOLEAN,
              recv : {"wait", "check", "pass", "done"}, origin : Targets \cup {None},
              sending : Targets \cup {None}, bound : Targets \cup {None},
              sent : SUBSET Targets, strays : Nat]

\* Every variable holds a value of its type; no deadline or attempt is
\* counted below zero (landing/udp.go:34-85, relay_fallback.go:25-63).
TypeOK ==
    /\ RelayTypeOK
    /\ landing \in {"http", "socks5"} /\ failOpen \in BOOLEAN
    /\ op \in [Ops -> Operation]

NoOp == [at |-> "none", udp |-> FALSE, conn |-> FALSE, packet |-> FALSE,
         left |-> Off, age |-> 0, ended |-> FALSE, asked |-> FALSE,
         watching |-> FALSE, recv |-> "done", origin |-> None, sending |-> None,
         bound |-> None, sent |-> {}, strays |-> 0]

Init ==
    /\ RelayInit
    /\ landing \in {"http", "socks5"} /\ failOpen \in BOOLEAN
    /\ op = [o \in Ops |-> NoOp]

Becomes(o, r) == op' = [op EXCEPT ![o] = r]
-----------------------------------------------------------------------------
\* Dial or OpenPacket: the landing server is dialled through the relay, or
\* directly when fail-open's mode is not proxy.
Begin(o, udp) ==
    /\ op[o].at = "none"
    /\ udp => landing # "http"
    /\ \/ /\ StartDial(o, NoDeadline)
          /\ Becomes(o, [NoOp EXCEPT !.at = "dial", !.udp = udp])
       \/ /\ failOpen
          /\ Becomes(o, [NoOp EXCEPT !.at = "direct", !.udp = udp])
          /\ UNCHANGED relayVars
    /\ UNCHANGED config

\* The stream is there and gets its deadline.
Standing(r) ==
    [r EXCEPT !.at = IF landing = "http" THEN "request" ELSE "greeting",
              !.conn = TRUE, !.left = Handshake]

Dialled(o) ==
    /\ op[o].at = "dial" /\ dial[o].at = "ok"
    /\ DialReturns(o)
    /\ Becomes(o, Standing(op[o]))
    /\ UNCHANGED config

\* The relays failed: fail-open goes on to the direct dial.
DialFailed(o) ==
    /\ op[o].at = "dial" /\ dial[o].at = "err"
    /\ DialReturns(o)
    /\ Becomes(o, IF failOpen THEN [op[o] EXCEPT !.at = "direct"] ELSE NoOp)
    /\ UNCHANGED config

\* The direct dial ends, with the context or by itself: it has no timer.
DirectEnds(o) ==
    /\ op[o].at = "direct"
    /\ Becomes(o, Standing(op[o])) \/ Becomes(o, NoOp)
    /\ UNCHANGED <<relayVars, config>>

\* The landing's answer to each message is the one hoped for.  With
\* credentials the greeting leads to the authentication.  The packet path opens
\* through HY2, during its cooldown through Reality, or by fail-open's mode at once
\* as a local socket.
NextStage(o) ==
    CASE op[o].at = "greeting" -> {"auth", "request"}
      [] op[o].at = "auth"     -> {"request"}
      [] op[o].at = "request"  -> {"address"}
      [] op[o].at = "address"  -> IF ~op[o].udp THEN {"stream"}
                                  ELSE {"hy2", "connect"} \cup IF failOpen THEN {"socket"} ELSE {}

\* The packet attempts have timers of their own; a local socket takes no time.
PacketTimer(s) == IF s = "socket" THEN 0 ELSE Attempt

\* A variant of DeadlineAt: every message gets a deadline of its own.
DeadlineAtEach(o, s) ==
    IF s \in PacketPath THEN PacketTimer(s) ELSE IF s = "stream" THEN Off ELSE Handshake

\* One deadline covers the exchange.
DeadlineAt(o, s) ==
    IF s \in PacketPath THEN PacketTimer(s) ELSE IF s = "stream" THEN Off ELSE op[o].left

Answer(o) ==
    /\ op[o].at \in Exchange
    /\ \E s \in NextStage(o) :
        Becomes(o, [op[o] EXCEPT !.at = s, !.left = DeadlineAt(o, s),
                                 !.age = IF s = "stream" THEN 0 ELSE @])
    /\ UNCHANGED <<relayVars, config>>

\* It is a refusal or malformed, or the stream fails or times out: whatever
\* the stage, the control stream is closed.
Refused(o) ==
    /\ op[o].at \in Exchange
    /\ Becomes(o, NoOp)
    /\ UNCHANGED <<relayVars, config>>

\* HY2's packet attempt failed, Reality is next; it connects and then opens
\* its packet stream with a deadline of its own.
PacketAdvances(o) ==
    /\ op[o].at \in {"hy2", "connect"}
    /\ Becomes(o, [op[o] EXCEPT !.at = IF @ = "hy2" THEN "connect" ELSE "xudp",
                                !.left = Attempt])
    /\ UNCHANGED <<relayVars, config>>

\* The relays have failed, or the context ended: fail-open opens a local socket.
PacketFallsOpen(o) ==
    /\ op[o].at \in {"hy2", "connect", "xudp"} /\ failOpen
    /\ Becomes(o, [op[o] EXCEPT !.at = "socket", !.left = PacketTimer("socket")])
    /\ UNCHANGED <<relayVars, config>>

\* The last attempt failed, or the call's context ended, or the deadline of the
\* control stream cannot be cleared.
PacketFails(o) ==
    /\ op[o].at \in PacketPath
    /\ Becomes(o, NoOp)
    /\ UNCHANGED <<relayVars, config>>

\* A variant of Cleared: the deadline stays on the control stream.
ClearedNever(left) == left

\* conn.SetDeadline(time.Time{}).
Cleared(left) == Off

\* The packet path is open: the control stream's deadline is cleared and the
\* watcher starts.  The caller starts receiving.
PacketOpens(o) ==
    /\ op[o].at \in {"hy2", "xudp", "socket"}
    /\ Becomes(o, [op[o] EXCEPT !.at = "open", !.packet = TRUE, !.left = Cleared(@),
                                !.age = 0, !.watching = TRUE, !.recv = "wait"])
    /\ UNCHANGED <<relayVars, config>>
-----------------------------------------------------------------------------
\* Close, once: the flag under the mutex, then both halves.
SetClosed(r) == IF r.at = "open" THEN [r EXCEPT !.at = "closing"] ELSE r

CloseHalves(o) ==
    /\ op[o].at = "closing"
    /\ Becomes(o, [op[o] EXCEPT !.at = "closed", !.conn = FALSE, !.packet = FALSE])
    /\ UNCHANGED <<relayVars, config>>

\* The landing ends the control stream; while the association is being set
\* up this shows in the next read.
ControlEnds(o) ==
    /\ op[o].at \in PacketPath \cup {"open"} /\ ~op[o].ended
    /\ Becomes(o, [op[o] EXCEPT !.ended = TRUE])
    /\ UNCHANGED <<relayVars, config>>

\* A variant of WatcherEnds: nobody closes the session.
WatcherEndsSilently(o) ==
    /\ op[o].watching
    /\ op[o].ended \/ ~op[o].conn \/ op[o].left = 0
    /\ Becomes(o, [op[o] EXCEPT !.watching = FALSE])
    /\ UNCHANGED <<relayVars, config>>

\* The watcher's copy returns, at the end or the deadline of the control
\* stream or with its closing, and the watcher closes the session.
WatcherEnds(o) ==
    /\ op[o].watching
    /\ op[o].ended \/ ~op[o].conn \/ op[o].left = 0
    /\ Becomes(o, [SetClosed(op[o]) EXCEPT !.watching = FALSE])
    /\ UNCHANGED <<relayVars, config>>

\* The caller gives the session up: it is idle, a Send failed, it shuts down.
CallerCloses(o) ==
    /\ op[o].at = "open"
    /\ Becomes(o, [SetClosed(op[o]) EXCEPT !.asked = TRUE])
    /\ UNCHANGED <<relayVars, config>>

\* A variant of MaySend: a second destination is let through.
MaySendAnywhere(o, t) == op[o].at = "open"

\* Send: a closed session and a second destination are refused, and the
\* association is bound to the first one.
MaySend(o, t) == op[o].at = "open" /\ op[o].bound \in {None, t}

Send(o, t) ==
    /\ op[o].sending = None
    /\ MaySend(o, t)
    /\ Becomes(o, [op[o] EXCEPT !.bound = t, !.sending = t])
    /\ UNCHANGED <<relayVars, config>>

\* The datagram leaves, or the packet session refuses it and the caller
\* gives the session up.
SendEnds(o) ==
    /\ op[o].sending # None
    /\ \/ /\ op[o].packet
          /\ Becomes(o, [op[o] EXCEPT !.sending = None, !.sent = @ \cup {op[o].sending}])
       \/ Becomes(o, [SetClosed(op[o]) EXCEPT !.sending = None, !.asked = TRUE])
    /\ UNCHANGED <<relayVars, config>>

\* Receive: a well-formed datagram of the negotiated relay comes in, in any
\* order and from any destination; every other one is skipped.
Arrives(o, t) ==
    /\ op[o].recv = "wait" /\ op[o].packet
    /\ Becomes(o, [op[o] EXCEPT !.recv = "check", !.origin = t])
    /\ UNCHANGED <<relayVars, config>>

\* The origin differs from a bound destination that is numeric.
Stray(r) == r.bound \in Numeric /\ r.origin # r.bound

\* The bound destination and the closed flag are read under the mutex; a stray
\* datagram is skipped.
Checks(o) ==
    /\ op[o].recv = "check"
    /\ Becomes(o, IF op[o].at # "open" THEN [op[o] EXCEPT !.recv = "done", !.origin = None]
                  ELSE IF Stray(op[o]) THEN [op[o] EXCEPT !.recv = "wait", !.origin = None]
                  ELSE [op[o] EXCEPT !.recv = "pass"])
    /\ UNCHANGED <<relayVars, config>>

\* The payload is returned, with the mutex long released.
Delivers(o) ==
    /\ op[o].recv = "pass"
    /\ Becomes(o, [op[o] EXCEPT !.recv = "wait", !.origin = None,
                                !.strays = IF Stray(op[o]) THEN @ + 1 ELSE @])
    /\ UNCHANGED <<relayVars, config>>

\* The packet session fails, or is closed: the receiving goroutine ends and
\* removes the session, which closes it.
ReceiveFails(o) ==
    /\ op[o].recv = "wait"
    /\ Becomes(o, [SetClosed(op[o]) EXCEPT !.recv = "done", !.asked = TRUE])
    /\ UNCHANGED <<relayVars, config>>

\* The caller is done with a stream, or nothing is left of an association.
Over(o) ==
    /\ \/ op[o].at = "stream"
       \/ op[o].at = "closed" /\ ~op[o].watching /\ op[o].recv = "done"
          /\ op[o].sending = None
    /\ Becomes(o, NoOp)
    /\ UNCHANGED <<relayVars, config>>
-----------------------------------------------------------------------------
\* A dial that does not use the landing.
OtherBegins(d) == \E b \in Budgets : StartDial(d, b)
OtherReturns(d) == dial[d].at \in {"ok", "err"} /\ DialReturns(d)

\* Time passes, but nobody waits past a deadline.
Tick ==
    /\ RelayTick
    /\ \A o \in Ops : op[o].at \in Setup => op[o].left # 0
    /\ \A o \in Ops : op[o].at = "dial" => dial[o].at \in Pending
    /\ op' = [o \in Ops |-> [op[o] EXCEPT !.left = Less(@),
                                          !.age = IF op[o].at \in Setup THEN @ + 1 ELSE @]]
    /\ UNCHANGED config

OpStep(o) ==
    \/ \E udp \in BOOLEAN : Begin(o, udp)
    \/ Dialled(o) \/ DialFailed(o) \/ DirectEnds(o) \/ Answer(o) \/ Refused(o)
    \/ PacketAdvances(o) \/ PacketFallsOpen(o) \/ PacketFails(o) \/ PacketOpens(o)
    \/ CloseHalves(o) \/ ControlEnds(o) \/ WatcherEnds(o) \/ CallerCloses(o)
    \/ \E t \in Targets : Send(o, t) \/ Arrives(o, t)
    \/ SendEnds(o) \/ Checks(o) \/ Delivers(o) \/ ReceiveFails(o) \/ Over(o)

Next ==
    \/ \E o \in Ops : OpStep(o)
    \/ \E d \in Dials : DialStep(d) /\ UNCHANGED <<config, op>>
    \/ \E d \in Dials \ Ops : (OtherBegins(d) \/ OtherReturns(d)) /\ UNCHANGED <<config, op>>
    \/ Tick

Spec == Init /\ [][Next]_vars

\* Goroutines that can run are scheduled, and Receive fails on a closed
\* session; nothing says that the landing or the relay ever answers.
Fairness ==
    \A o \in Ops :
        /\ WF_vars(CloseHalves(o)) /\ WF_vars(WatcherEnds(o))
        /\ WF_vars(SendEnds(o)) /\ WF_vars(Checks(o)) /\ WF_vars(Delivers(o))
        /\ WF_vars(~op[o].packet /\ ReceiveFails(o))
        /\ WF_vars(op[o].at = "closed" /\ Over(o))

FairSpec == Spec /\ Fairness
-----------------------------------------------------------------------------
\* Once the control stream stands, the reader that opens an association is held up
\* for a bounded time: one deadline for the whole exchange with the landing and the
\* attempts of both relays for the packet path (landing/udp.go:34-85,
\* socks5.go:24-88).  The dial before it has no such bound.
SetupBounded ==
    \A o \in Ops : op[o].at \in Setup => op[o].age <= Handshake + 3 * Attempt

\* An association serves one destination: it sends to nobody else, and to the
\* caller of one bound to a numeric destination Receive returns at most one payload
\* of another origin, the one that had passed its check when the first Send bound
\* the association (landing/udp.go:166-223).
OneDestination ==
    \A o \in Ops : op[o].sent \subseteq {op[o].bound} /\ op[o].strays <= 1

\* The core does not cut an association it set up: it is closed because the
\* landing ended its control stream or because its caller gave it up or lost
\* the packet path (landing/udp.go:76-83).
KeptOpen == \A o \in Ops : op[o].at \in {"closing", "closed"} => op[o].ended \/ op[o].asked

\* When the landing ends the control stream of an association the session is
\* closed and every goroutine of it ends, the receiver too (landing/udp.go:83,
\* 192-233).
ControlEndCloses == \A o \in Ops : op[o].at = "open" /\ op[o].ended ~> op[o].at = "none"
=============================================================================
