------------------------------ MODULE FailOpen ------------------------------
(***************************************************************************)
(* The fail-open wrappers of internal/transport: failOpen.Dial with its    *)
(* background recovery probe, and failOpenPacketDialer.OpenPacket with the *)
(* sessions it returns.  Any number of dials run at once; all of them and  *)
(* the probe share one controller, as newApplication wires them.           *)
(*                                                                         *)
(* A dial is a goroutine; it stops between two calls that lock (the        *)
(* controller, the probe flag) and while a network operation is pending.   *)
(* The relay is the environment: up, down, or flaky (a dial may fail for   *)
(* its target's sake although the relay works).                            *)
(***************************************************************************)
EXTENDS Controller

CONSTANTS
    Streams,        \* slots for concurrent stream dials
    Packets,        \* slots for packet sessions
    ProbeInterval   \* d.probeInterval, in units of time

ASSUME FailOpenAssumption ==
    /\ ProbeInterval \in Nat \ {0}
    /\ Streams \cap Packets = {}

VARIABLES
    pc,             \* where each dial stands
    probeRunning,   \* d.probeRunning
    probeLeft,      \* d.nextProbe - now, 0 once nextProbe has passed
    probing,        \* probe goroutines whose dial is pending
    finishing,      \* probe goroutines that have recorded their result
    relay           \* the environment

dialerVars == <<pc, probeRunning, probeLeft, probing, finishing, relay>>
failOpenVars == <<controllerVars, dialerVars>>

Steps == {"idle", "probeMode", "cas", "gate", "proxy", "proxyOK", "proxyErr",
          "direct", "session", "stale", "broken"}

\* Every variable holds a value of its type: the controller's counters and
\* timers stay within their limits (controller.go:49-78).
FailOpenTypeOK ==
    /\ ControllerTypeOK
    /\ pc \in [Streams \cup Packets -> Steps]
    /\ probeRunning \in BOOLEAN
    /\ probeLeft \in 0..ProbeInterval
    /\ probing \in Nat
    /\ finishing \in Nat
    /\ relay \in {"up", "flaky", "down"}

FailOpenInit ==
    /\ ControllerInit
    /\ pc = [d \in Streams \cup Packets |-> "idle"]
    /\ probeRunning = FALSE
    /\ probeLeft = 0
    /\ probing = 0
    /\ finishing = 0
    /\ relay = "up"

Goto(d, from, to) == pc[d] = from /\ pc' = [pc EXCEPT ![d] = to]
-----------------------------------------------------------------------------
\* failOpen.Dial: Mode() chooses between the relay and the direct path.
FailOpenDial(d) ==
    /\ Goto(d, "idle", IF CurrentMode = "Proxy" THEN "proxy" ELSE "probeMode")
    /\ ReadMode
    /\ UNCHANGED <<probeRunning, probeLeft, probing, finishing, relay>>

\* maybeProbe, its own call of Mode().
MaybeProbe(d) ==
    /\ Goto(d, "probeMode", IF CurrentMode = "DirectRecovery" THEN "cas" ELSE "direct")
    /\ ReadMode
    /\ UNCHANGED <<probeRunning, probeLeft, probing, finishing, relay>>

\* maybeProbe, probeRunning.CompareAndSwap(false, true); a faulty one sets the
\* flag without looking at it.
SwapsAlways == TRUE
Swaps == ~probeRunning
ClaimProbe(d) ==
    /\ Goto(d, "cas", IF Swaps THEN "gate" ELSE "direct")
    /\ probeRunning' = TRUE
    /\ UNCHANGED <<controllerVars, probeLeft, probing, finishing, relay>>

\* The early return of maybeProbe; a faulty one keeps the flag.
KeepProbe == UNCHANGED probeRunning
GiveProbeBack == probeRunning' = FALSE

\* maybeProbe, the interval: too early gives the flag back, otherwise the
\* next probe is put off and the goroutine starts.
GateProbe(d) ==
    /\ Goto(d, "gate", "direct")
    /\ IF probeLeft > 0
       THEN GiveProbeBack /\ UNCHANGED <<probeLeft, probing>>
       ELSE /\ probeLeft' = ProbeInterval
            /\ probing' = probing + 1
            /\ UNCHANGED probeRunning
    /\ UNCHANGED <<controllerVars, finishing, relay>>

\* proxy.Dial or proxy.OpenPacket returns to the dial that called it.
ProxyReturns(d) ==
    /\ \/ relay # "down" /\ Goto(d, "proxy", "proxyOK")
       \/ relay # "up" /\ Goto(d, "proxy", "proxyErr")
    /\ UNCHANGED <<controllerVars, probeRunning, probeLeft, probing, finishing, relay>>

\* The rest of Dial and OpenPacket: a relay connection is recorded and handed
\* out, a failure is recorded and followed by the direct dial.
ProxySucceeded(d) ==
    /\ Goto(d, "proxyOK", IF d \in Packets THEN "session" ELSE "idle")
    /\ RecordSuccess
    /\ UNCHANGED <<probeRunning, probeLeft, probing, finishing, relay>>

ProxyFailed(d) ==
    /\ Goto(d, "proxyErr", "direct")
    /\ RecordFailure
    /\ UNCHANGED <<probeRunning, probeLeft, probing, finishing, relay>>

\* The direct dial returns, or the direct packet session is closed.
DirectDone(d) ==
    /\ Goto(d, "direct", "idle")
    /\ UNCHANGED <<controllerVars, probeRunning, probeLeft, probing, finishing, relay>>
-----------------------------------------------------------------------------
\* failOpenPacketDialer.OpenPacket: like Dial, but never a probe.
OpenPacket(d) ==
    /\ Goto(d, "idle", IF CurrentMode = "Proxy" THEN "proxy" ELSE "direct")
    /\ ReadMode
    /\ UNCHANGED <<probeRunning, probeLeft, probing, finishing, relay>>

\* failOpenPacketSession.Send fails on the relay, or on a session that did not
\* survive a change of the relay, up again or not: the failure is recorded, the
\* session closed and a direct one opened; when that fails too the closed one
\* stays in place ("broken") and every later Send fails on it.
SendFails(d) ==
    /\ \/ pc[d] = "session" /\ relay # "up"
       \/ pc[d] \in {"stale", "broken"}
    /\ \E next \in {"direct", "broken"} : pc' = [pc EXCEPT ![d] = next]
    /\ RecordFailure
    /\ UNCHANGED <<probeRunning, probeLeft, probing, finishing, relay>>

\* The data plane closes the session, always after a Send has failed.
ClosePacket(d) ==
    /\ pc[d] \in {"session", "stale", "broken"}
    /\ pc' = [pc EXCEPT ![d] = "idle"]
    /\ UNCHANGED <<controllerVars, probeRunning, probeLeft, probing, finishing, relay>>
-----------------------------------------------------------------------------
\* The probe goroutine: its dial returns and is recorded, then the deferred
\* probeRunning.Store(false) runs.
ProbeReturns ==
    /\ probing > 0
    /\ \/ relay # "down" /\ RecordSuccess
       \/ relay # "up" /\ RecordFailure
    /\ probing' = probing - 1
    /\ finishing' = finishing + 1
    /\ UNCHANGED <<pc, probeRunning, probeLeft, relay>>

ProbeEnds ==
    /\ finishing > 0
    /\ finishing' = finishing - 1
    /\ probeRunning' = FALSE
    /\ UNCHANGED <<controllerVars, pc, probeLeft, probing, relay>>

\* application.snapshot asks for the mode at any time.
Snapshot ==
    /\ ReadMode
    /\ UNCHANGED dialerVars

Tick ==
    /\ Elapse
    /\ probeLeft' = IF probeLeft > 0 THEN probeLeft - 1 ELSE 0
    /\ UNCHANGED <<pc, probeRunning, probing, finishing, relay>>

\* A session opened before the change ("stale") may fail long after it.
RelayChanges ==
    /\ relay' \in {"up", "flaky", "down"} \ {relay}
    /\ pc' = [d \in Streams \cup Packets |-> IF pc[d] = "session" THEN "stale" ELSE pc[d]]
    /\ UNCHANGED <<controllerVars, probeRunning, probeLeft, probing, finishing>>

StreamStep(d) ==
    \/ FailOpenDial(d) \/ MaybeProbe(d) \/ ClaimProbe(d) \/ GateProbe(d)
    \/ ProxyReturns(d) \/ ProxySucceeded(d) \/ ProxyFailed(d) \/ DirectDone(d)

PacketStep(d) ==
    \/ OpenPacket(d) \/ ProxyReturns(d) \/ ProxySucceeded(d) \/ ProxyFailed(d)
    \/ DirectDone(d) \/ SendFails(d) \/ ClosePacket(d)

FailOpenNext ==
    \/ \E d \in Streams : StreamStep(d)
    \/ \E d \in Packets : PacketStep(d)
    \/ ProbeReturns \/ ProbeEnds
    \/ Snapshot \/ Tick \/ RelayChanges

FailOpenSpec == FailOpenInit /\ [][FailOpenNext]_failOpenVars
-----------------------------------------------------------------------------
\* Goroutines are scheduled, network operations return, time passes, and
\* stream dials keep arriving; a broken session is closed by its owner.
\* Nothing makes packet sessions open, fail or end, or the relay change.
Fairness ==
    /\ \A d \in Streams : WF_failOpenVars(StreamStep(d))
    /\ \A d \in Packets :
          /\ WF_failOpenVars(ProxyReturns(d) \/ ProxySucceeded(d) \/ ProxyFailed(d))
          /\ WF_failOpenVars(pc[d] = "broken" /\ ClosePacket(d))
    /\ WF_failOpenVars(ProbeReturns)
    /\ WF_failOpenVars(ProbeEnds)
    /\ WF_failOpenVars(Tick)

FailOpenFairSpec == FailOpenSpec /\ Fairness
-----------------------------------------------------------------------------
\* The counters and the mode agree with each other and with what was recorded
\* (controller.go:41-78): in proxy mode the failures are below the threshold,
\* out of it they are exactly the threshold; successes are counted in recovery
\* only, below their threshold and never more than have followed the last
\* failure; out of proxy mode the cooldown runs from the last failure.
CountersMatchMode ==
    /\ mode = "Proxy" => failures < Failures
    /\ mode # "Proxy" => failures = Failures /\ quiet = Cooldown - cooldownLeft
    /\ mode = "DirectRecovery" => cooldownLeft = 0
    /\ mode # "DirectRecovery" => successes = 0
    /\ successes < Successes /\ successes <= okStreak

\* However dials, sessions and probes interleave, at most one goroutine is
\* between the compare-and-swap of probeRunning and its Store(false), the one
\* that set it (failopen.go:51-77): two probes never run at once and the flag
\* is never left set with nobody to clear it.
ProbeHolders == {d \in Streams : pc[d] = "gate"}
SingleProbe ==
    /\ \A d, e \in ProbeHolders : d = e
    /\ ProbeHolders # {} => probing + finishing = 0
    /\ probing + finishing <= 1
    /\ probeRunning <=> (ProbeHolders # {} \/ probing + finishing = 1)

\* New connections return to the relay only when no dial, session or probe has
\* recorded a failure for a whole cooldown and the last Successes recorded
\* results were successes, whoever recorded them (controller.go:41-78).
RestoreAfterQuietStreak ==
    [][mode # "Proxy" /\ mode' = "Proxy" =>
           quiet = Cooldown /\ okStreak' = Successes]_failOpenVars

\* Once the relay is up for good and stream dials keep coming, new connections
\* are back on the relay for good: no straggling failure, lost probe flag or
\* postponed probe keeps them direct (failopen.go:36-77).
RelayRegained == <>[](relay = "up") => <>[](mode = "Proxy")
=============================================================================
