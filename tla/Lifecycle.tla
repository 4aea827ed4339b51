----------------------------- MODULE Lifecycle -----------------------------
(***************************************************************************)
(* The life of a core process: main's serve command, application.Run with  *)
(* its three listeners, the control socket and the heartbeat that keeps    *)
(* the kernel's redirect rules in force, under a supervisor that respawns  *)
(* it.                                                                     *)
(*                                                                         *)
(* The kernel redirects traffic to the core while the heartbeat element of *)
(* the nft table has not timed out.  Each refresh is an nft child process, *)
(* which outlives the core when the core dies first.  The process may      *)
(* crash between any two steps.                                            *)
(***************************************************************************)
EXTENDS Integers, FiniteSets, Sequences

CONSTANTS
    Period,         \* the heartbeat's ticker, 3 s
    TTL,            \* the element's timeout, 10 s
    NftTime,        \* how long an nft child may take (external)
    RespawnDelay,   \* procd's delay before a respawn, 5 s
    Retries         \* respawns in a row before procd gives up, 5

\* The element outlives the longest gap between two refreshes.
ASSUME LifecycleAssumption ==
    /\ Period \in Nat \ {0}
    /\ NftTime \in Nat \ {0}
    /\ TTL \in Nat
    /\ Period + NftTime < TTL
    /\ RespawnDelay \in Nat
    /\ Retries \in Nat

VARIABLES
    pc,         \* where application.Run stands, "down" without a process
    ready,      \* the readiness channels Run has seen closed
    ln,         \* each listener's Run
    bound,      \* the readiness channels closed by this process
    errs,       \* the channel of listener results
    done,       \* the context is cancelled
    sock,       \* what the control socket's path names
    hb,         \* the heartbeat goroutine
    ticker,     \* left until it fires, and whether a tick waits in its channel
    child,      \* time left to this process's nft child, -1 without one
    orphans,    \* time left to the nft children of processes that are gone
    guard,      \* time left to the heartbeat element
    table,      \* the nft table exists
    wanted,     \* procd has the instance registered
    respawn,    \* left of procd's delay
    tries,      \* respawns so far
    unserved    \* history: time since all three were up, or the last one bound

procVars == <<pc, ready, ln, bound, errs, done>>
beatVars == <<hb, ticker, child>>
kernelVars == <<orphans, guard, table>>
superVars == <<wanted, respawn, tries>>
vars == <<procVars, sock, beatVars, kernelVars, superVars, unserved>>

Listeners == {"dns", "tcp", "udp"}
AllUp(l) == \A k \in Listeners : l[k] \in {"bound", "up"}
None == -1
\* The history is counted no further than the properties look.
Horizon == TTL + NftTime + 1

\* Every variable holds a value of its type; the channel of results never
\* needs more than its capacity of three (application.go:134).
TypeOK ==
    /\ pc \in {"down", "ready", "listen", "serve", "return"}
    /\ ready \in 0..3
    /\ ln \in [Listeners -> {"off", "bind", "bound", "up", "missed", "ended"}]
    /\ bound \in SUBSET Listeners
    /\ errs \in Seq({"nil", "err"}) /\ Len(errs) <= 3
    /\ done \in BOOLEAN
    /\ sock \in {"none", "mine", "stale", "other"}
    /\ hb \in {"off", "first", "wait", "beat", "dead"}
    /\ ticker \in [left : 1..Period, fired : BOOLEAN]
    /\ child \in None..NftTime
    /\ orphans \in SUBSET (0..NftTime)
    /\ guard \in 0..TTL
    /\ table \in BOOLEAN
    /\ wanted \in BOOLEAN
    /\ respawn \in 0..RespawnDelay
    /\ tries \in 0..Retries
    /\ unserved \in 0..Horizon

Ticker0 == [left |-> Period, fired |-> FALSE]

\* The supervisor has been told to run the core; a file that is not a socket
\* may lie at the control path.
Init ==
    /\ pc = "down" /\ ready = 0 /\ bound = {} /\ errs = <<>> /\ done = FALSE
    /\ ln = [l \in Listeners |-> "off"]
    /\ sock \in {"none", "other"}
    /\ hb = "off" /\ ticker = Ticker0 /\ child = None
    /\ orphans = {} /\ guard = 0 /\ table = TRUE
    /\ wanted = TRUE /\ respawn = 0 /\ tries = 0
    /\ unserved = Horizon
-----------------------------------------------------------------------------
\* serve starts: Run makes its context and channels and starts the listeners.
Start ==
    /\ pc = "down" /\ wanted /\ respawn = 0
    /\ pc' = "ready"
    /\ ln' = [l \in Listeners |-> "bind"]
    /\ UNCHANGED <<ready, bound, errs, done, sock, beatVars, kernelVars, superVars, unserved>>

\* A listener's Run takes its sockets and closes its Ready channel.
Bind(l) ==
    /\ ln[l] = "bind"
    /\ ln' = [ln EXCEPT ![l] = IF l = "dns" THEN "bound" ELSE "up"]
    /\ bound' = bound \cup {l}
    /\ unserved' = IF bound' = Listeners THEN 0 ELSE unserved
    /\ UNCHANGED <<pc, ready, errs, done, sock, beatVars, kernelVars, superVars>>

\* The DNS server's two serving goroutines start.
Activate ==
    /\ ln["dns"] = "bound"
    /\ ln' = [ln EXCEPT !["dns"] = "up"]
    /\ UNCHANGED <<pc, ready, bound, errs, done, sock, beatVars, kernelVars, superVars, unserved>>

\* A listener's Run returns a result into the channel.
Ends(l, result) ==
    /\ ln' = [ln EXCEPT ![l] = "ended"]
    /\ errs' = Append(errs, result)
    /\ UNCHANGED <<pc, ready, bound, done, sock, beatVars, kernelVars, superVars, unserved>>

\* It cannot bind, or its socket fails while it serves.
ListenerFails(l) == ln[l] \in {"bind", "up"} /\ Ends(l, "err")

\* A variant of ListenerStops: the UDP listener does not watch the context.
ListenerStopsUnlessUdp(l) == done /\ ln[l] = "up" /\ l # "udp" /\ Ends(l, "nil")

\* It sees the context cancelled, closes its sockets and returns.
ListenerStops(l) == done /\ ln[l] = "up" /\ Ends(l, "nil")

\* The DNS server sees it before its serving goroutines have started:
\* ShutdownContext refuses a server that is not started, and Run then waits
\* for the results of servers nobody shuts down.
ShutdownMissed ==
    /\ done /\ ln["dns"] = "bound"
    /\ ln' = [ln EXCEPT !["dns"] = "missed"]
    /\ UNCHANGED <<pc, ready, bound, errs, done, sock, beatVars, kernelVars, superVars, unserved>>
-----------------------------------------------------------------------------
\* A variant of ReadyOrder: Run does not wait for the UDP listener.
ReadyOrderShort == <<"dns", "tcp">>

ReadyOrder == <<"dns", "tcp", "udp">>

\* Run waits for the three Ready channels in order; the select picks any
\* channel that has something.
AwaitReady ==
    /\ pc = "ready" /\ ReadyOrder[ready + 1] \in bound
    /\ ready' = ready + 1
    /\ pc' = IF ready' = Len(ReadyOrder) THEN "listen" ELSE pc
    /\ UNCHANGED <<ln, bound, errs, done, sock, beatVars, kernelVars, superVars, unserved>>

AwaitFails ==
    /\ pc = "ready"
    /\ errs # <<>> \/ done
    /\ pc' = "return"
    /\ UNCHANGED <<ready, ln, bound, errs, done, sock, beatVars, kernelVars, superVars, unserved>>

\* control.Listen replaces a socket left behind and refuses any other file;
\* with the socket open Run starts the heartbeat and its ticker.  Where it fails
\* the path keeps what it had (Lstat, Remove) or has nothing (ListenUnix, Chmod).
ControlListen ==
    /\ pc = "listen"
    /\ \/ /\ sock # "other"
          /\ pc' = "serve" /\ sock' = "mine" /\ hb' = "first" /\ ticker' = Ticker0
       \/ /\ pc' = "return"
          /\ sock' \in IF sock = "other" THEN {sock} ELSE {sock, "none"}
          /\ UNCHANGED <<hb, ticker>>
    /\ UNCHANGED <<ready, ln, bound, errs, done, child, kernelVars, superVars, unserved>>

\* A variant of EndsRun: the loop only waits for the channel to be closed.
EndsRunNever(result) == FALSE

EndsRun(result) == result = "err"

\* The loop over errs: an error ends Run, and so does the last listener's
\* result, after which the channel is closed.
Serve ==
    /\ pc = "serve"
    /\ \/ errs # <<>> /\ errs' = Tail(errs)
          /\ pc' = IF EndsRun(Head(errs)) THEN "return" ELSE pc
       \/ errs = <<>> /\ (\A l \in Listeners : ln[l] = "ended")
          /\ pc' = "return" /\ UNCHANGED errs
    /\ UNCHANGED <<ready, ln, bound, done, sock, beatVars, kernelVars, superVars, unserved>>

\* The process is gone: its sockets close and an nft child lives on.  procd
\* starts a core it has terminated anew at once and respawns one that ended
\* by itself after its delay, unless that happened too often; a long run
\* renews the budget.
Gone ==
    /\ pc' = "down" /\ ready' = 0 /\ bound' = {} /\ errs' = <<>> /\ done' = FALSE
    /\ ln' = [l \in Listeners |-> "off"]
    /\ hb' = "off" /\ ticker' = Ticker0 /\ child' = None
    /\ orphans' = orphans \cup ({child} \ {None})
    /\ \/ done /\ respawn' = 0 /\ UNCHANGED <<wanted, tries>>
       \/ ~done /\ respawn' = RespawnDelay
          /\ \E used \in {0, tries} :
              \/ used < Retries /\ tries' = used + 1 /\ UNCHANGED wanted
              \/ used = Retries /\ tries' = 0 /\ wanted' = FALSE
    /\ UNCHANGED <<guard, table, unserved>>

\* Run returns: the control server closes and unlinks its socket, the
\* context is cancelled, main exits.
Exit ==
    /\ pc = "return"
    /\ sock' = IF sock = "mine" THEN "none" ELSE sock
    /\ Gone

Crash ==
    /\ pc # "down"
    /\ sock' = IF sock = "mine" THEN "stale" ELSE sock
    /\ Gone
-----------------------------------------------------------------------------
\* Heartbeat checks its context and starts nft; the first at once, the
\* following ones when the ticker fires.
Beat ==
    /\ child = None
    /\ hb = "first" \/ (hb = "wait" /\ ticker.fired)
    /\ ticker' = IF done THEN Ticker0 ELSE [ticker EXCEPT !.fired = FALSE]
    /\ hb' = IF done THEN "dead" ELSE IF hb = "wait" THEN "beat" ELSE hb
    /\ child' = IF done THEN None ELSE NftTime
    /\ UNCHANGED <<procVars, sock, kernelVars, superVars, unserved>>

\* A variant of Lease: the element lives as long as the ticker's period.
LeaseShort == Period

\* The element's timeout.
Lease == TTL

\* nft commits the batch, which renews the element.
Applied ==
    /\ child # None /\ table
    /\ child' = None /\ guard' = Lease
    /\ hb' = "wait"
    /\ UNCHANGED <<procVars, sock, ticker, orphans, table, superVars, unserved>>

\* nft fails, without the table, killed with the context or for reasons of
\* its own, or the wait sees the context cancelled: the goroutine returns.
BeatEnds ==
    /\ child # None \/ (hb = "wait" /\ done)
    /\ child' = None
    /\ hb' = "dead" /\ ticker' = Ticker0
    /\ UNCHANGED <<procVars, sock, kernelVars, superVars, unserved>>

\* A child of a process that is gone ends, having committed its batch or not.
OrphanEnds(o) ==
    /\ o \in orphans
    /\ orphans' = orphans \ {o}
    /\ guard' \in IF table THEN {guard, TTL} ELSE {guard}
    /\ UNCHANGED <<procVars, sock, beatVars, table, superVars, unserved>>
-----------------------------------------------------------------------------
\* The init script's stop: the table and the control socket are removed and
\* the core gets SIGTERM.
StopService ==
    /\ wanted
    /\ wanted' = FALSE /\ table' = FALSE /\ guard' = 0
    /\ sock' = "none"
    /\ done' = (pc # "down")
    /\ UNCHANGED <<pc, ready, ln, bound, errs, beatVars, orphans, respawn, tries, unserved>>

\* Its reload keeps the policy: SIGTERM, then a fresh table with an empty
\* heartbeat map in one transaction.
ReloadService ==
    /\ wanted
    /\ guard' = 0 /\ tries' = 0
    /\ done' = (pc # "down")
    /\ UNCHANGED <<pc, ready, ln, bound, errs, sock, beatVars, orphans, table, wanted, respawn,
                   unserved>>

\* Its start.
StartService ==
    /\ ~wanted /\ pc = "down"
    /\ wanted' = TRUE /\ table' = TRUE /\ guard' = 0 /\ tries' = 0 /\ respawn' = 0
    /\ UNCHANGED <<procVars, sock, beatVars, orphans, unserved>>

\* Time passes, but not past a child's limit, and not while Run or the
\* heartbeat has something to do.
Idle ==
    /\ pc \notin {"listen", "return"}
    /\ pc = "serve" => errs = <<>> /\ \E l \in Listeners : ln[l] # "ended"
    /\ pc = "ready" => errs = <<>> /\ ~done /\ ReadyOrder[ready + 1] \notin bound
    /\ hb = "first" => child # None
    /\ hb = "wait" => ~ticker.fired /\ ~done
    /\ child # 0 /\ 0 \notin orphans

Less(n) == IF n > 0 THEN n - 1 ELSE n

Tick ==
    /\ Idle
    /\ ticker' = IF hb \in {"off", "dead"} THEN ticker
                 ELSE IF ticker.left > 1 THEN [ticker EXCEPT !.left = @ - 1]
                 ELSE [left |-> Period, fired |-> TRUE]
    /\ child' = Less(child) /\ orphans' = {o - 1 : o \in orphans}
    /\ guard' = Less(guard) /\ respawn' = Less(respawn)
    /\ unserved' = IF AllUp(ln) \/ unserved = Horizon THEN unserved ELSE unserved + 1
    /\ UNCHANGED <<procVars, sock, hb, table, wanted, tries>>

Next ==
    \/ Start \/ Activate \/ ShutdownMissed
    \/ \E l \in Listeners : Bind(l) \/ ListenerFails(l) \/ ListenerStops(l)
    \/ AwaitReady \/ AwaitFails \/ ControlListen \/ Serve \/ Exit \/ Crash
    \/ Beat \/ Applied \/ BeatEnds
    \/ \E o \in orphans : OrphanEnds(o)
    \/ StopService \/ ReloadService \/ StartService
    \/ Tick

Spec == Init /\ [][Next]_vars

\* Goroutines that can run are scheduled; nothing says that a core crashes,
\* that a listener fails, or that the service is stopped or started.
Fairness ==
    /\ WF_vars(AwaitReady \/ AwaitFails) /\ WF_vars(ControlListen)
    /\ WF_vars(Serve) /\ WF_vars(Exit)
    /\ WF_vars(Activate \/ ShutdownMissed)
    /\ \A l \in Listeners : WF_vars(ListenerStops(l))

FairSpec == Spec /\ Fairness
-----------------------------------------------------------------------------
\* Neither a refresh of the heartbeat nor the control socket appears before
\* all three listeners of this process are bound, in whatever order they
\* bind, fail and report (application.go:143-161).
ReadyFirst == hb # "off" \/ sock = "mine" => bound = Listeners

\* A heartbeat that runs never lets the element time out between two
\* refreshes, however late within its limit each nft child commits
\* (application.go:231-245, nft_linux.go:77-98).
GuardHeld == hb \in {"wait", "beat"} /\ ~done => guard > 0

\* The kernel redirects traffic that nobody serves for less than one timeout
\* and one nft run, whether a listener fails just as Run becomes ready, the
\* core crashes with a child in flight, or it comes back without binding.
RedirectServed == guard > 0 => unserved < TTL + NftTime

\* SIGTERM ends the process: Run waits for every listener's result, and gets
\* it unless the DNS server missed its shutdown (application.go:162).
StopEnds == done ~> pc = "down" \/ ln["dns"] = "missed"

\* A listener that fails takes the process down, for procd to respawn, also
\* when its error arrives while Run still waits for the other listeners
\* (application.go:143-166).
FailureEnds == "err" \in {errs[i] : i \in DOMAIN errs} ~> pc = "down"

\* While the core serves, the heartbeat keeps the element alive, as the plan
\* asks: "refresh `core_state` element `1 : jump active` every three seconds
\* with a ten-second timeout" (docs/superpowers/plans/
\* 2026-07-24-hy2route-core-transparent-dataplane.md:437).
RefreshedWhileServing == pc = "serve" /\ hb # "first" /\ ~done => guard > 0
=============================================================================
