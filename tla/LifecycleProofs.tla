-------------------------- MODULE LifecycleProofs ---------------------------
(***************************************************************************)
(* Proofs about Lifecycle for any period, timeout, length of an nft run,   *)
(* delay and number of respawns that LifecycleAssumption allows.  The      *)
(* inductive invariant has four parts: what has been bound where Run       *)
(* stands, what a listener that ended has left in the channel, the time    *)
(* the element has while the heartbeat runs, and the time since the        *)
(* listeners were last up against every batch that may still be committed. *)
(***************************************************************************)
EXTENDS Lifecycle, SequenceTheorems, TLAPS

LifeType ==
    /\ pc \in {"down", "ready", "listen", "serve", "return"}
    /\ ready \in 0..3
    /\ bound \in SUBSET Listeners
    /\ done \in BOOLEAN
    /\ table \in BOOLEAN
    /\ ln \in [Listeners -> {"off", "bind", "bound", "up", "missed", "ended"}]
    /\ errs \in Seq({"nil", "err"})
    /\ hb \in {"off", "first", "wait", "beat", "dead"}

ClockType ==
    /\ ticker \in [left : 1..Period, fired : BOOLEAN]
    /\ child \in None..NftTime
    /\ orphans \in SUBSET (0..NftTime)
    /\ guard \in 0..TTL
    /\ unserved \in 0..Horizon

\* Run has seen the readiness it counts; the heartbeat and the control socket
\* belong to a Run that has passed it.
ReadyInv ==
    /\ pc = "ready" => ready < 3
    /\ ready >= 1 => "dns" \in bound
    /\ ready >= 2 => "tcp" \in bound
    /\ ready >= 3 => "udp" \in bound
    /\ pc \in {"listen", "serve"} => bound = Listeners
    /\ hb # "off" => bound = Listeners /\ pc \in {"serve", "return"}
    /\ sock = "mine" => bound = Listeners /\ pc \in {"serve", "return"}
    /\ pc = "down" => bound = {} /\ ready = 0 /\ ~done /\ \A l \in Listeners : ln[l] = "off"

\* Without SIGTERM a listener that has ended has left an error, which Run still
\* has to receive; so Run, waiting or serving with nothing to receive, has all
\* the listeners it had bound.
ChannelInv ==
    ~done =>
    /\ \A l \in Listeners : ln[l] # "missed"
    /\ \A l \in bound : ln[l] \notin {"off", "bind"}
    /\ \A i \in 1..Len(errs) : errs[i] = "err"
    /\ pc \in {"ready", "listen", "serve"} /\ errs = <<>> =>
         \A l \in Listeners : ln[l] # "ended"

\* The element's time against the ticker's and the child's.
BeatInv ==
    /\ hb = "beat" => child # None
    /\ hb \in {"off", "wait", "dead"} => child = None
    /\ ~done =>
        /\ hb = "wait" /\ ~ticker.fired => guard + Period >= TTL + ticker.left
        /\ hb = "wait" => guard + Period >= TTL
        /\ hb = "beat" => guard + Period + NftTime >= TTL + child

\* A batch is committed before an nft run has passed without the listeners,
\* and the element lives for a timeout after that.
ServedInv ==
    /\ ~done /\ (hb # "off" \/ (bound = Listeners /\ pc \in {"ready", "listen", "serve"}))
         => unserved = 0
    /\ child # None => unserved + child <= NftTime
    /\ \A o \in orphans : unserved + o <= NftTime
    /\ guard > 0 => unserved + guard <= TTL + NftTime

LifeInv == LifeType /\ ClockType /\ ReadyInv /\ ChannelInv /\ BeatInv /\ ServedInv

LEMMA Times == /\ Period \in Nat /\ Period >= 1 /\ NftTime \in Nat /\ NftTime >= 1
               /\ TTL \in Nat /\ Period + NftTime < TTL /\ Horizon = TTL + NftTime + 1
               /\ None = 0 - 1
  BY LifecycleAssumption DEF Horizon, None

\* What counts down makes room for what counts up.
LEMMA Slide == \A u, v, c, m \in Nat : v <= u + 1 /\ u + c <= m => v + (c - 1) <= m
  OBVIOUS

LEMMA TickerOK == Ticker0 \in [left : 1..Period, fired : BOOLEAN]
  BY Times DEF Ticker0

LEMMA InitInv == Init => LifeInv
<1> SUFFICES ASSUME Init PROVE LifeInv
  OBVIOUS
<1>1. LifeType
  <2>1. done \in BOOLEAN /\ table \in BOOLEAN
    BY DEF Init
  <2>2. errs \in Seq({"nil", "err"}) /\ ln \in [Listeners -> {"off", "bind", "bound", "up",
                                                            "missed", "ended"}]
    BY DEF Init
  <2> QED BY <2>1, <2>2 DEF Init, LifeType
<1>2. ClockType /\ child = None /\ guard = 0 /\ orphans = {}
  BY Times DEF Init, ClockType, Ticker0
<1>3. ReadyInv
  BY DEF Init, ReadyInv
<1>4. ChannelInv
  BY DEF Init, ChannelInv
<1>5. BeatInv /\ ServedInv
  BY <1>2 DEF Init, BeatInv, ServedInv, Listeners
<1> QED BY <1>1, <1>2, <1>3, <1>4, <1>5 DEF LifeInv
-----------------------------------------------------------------------------
\* The listeners.
LEMMA StartKeeps ==
  ASSUME LifeInv, Start
  PROVE  LifeInv'
<1>1. /\ pc = "down" /\ pc' = "ready" /\ ln' = [l \in Listeners |-> "bind"]
      /\ UNCHANGED <<ready, bound, errs, done, sock, hb, ticker, child, orphans, guard, table,
                     unserved>>
  BY DEF Start, beatVars, kernelVars
<1>2. LifeType' /\ ClockType'
  BY <1>1 DEF LifeInv, LifeType, ClockType
<1>3. ReadyInv' /\ bound = {}
  BY <1>1 DEF LifeInv, ReadyInv
<1>4. ChannelInv'
  BY <1>1, <1>3 DEF LifeInv, ChannelInv
<1>5. BeatInv'
  BY <1>1 DEF LifeInv, BeatInv
<1>6. ServedInv'
  BY <1>1, <1>3 DEF LifeInv, ServedInv, ReadyInv, Listeners
<1> QED BY <1>2, <1>3, <1>4, <1>5, <1>6 DEF LifeInv

LEMMA BindKeeps ==
  ASSUME LifeInv, NEW l \in Listeners, Bind(l)
  PROVE  LifeInv'
<1>1. /\ ln[l] = "bind" /\ bound' = bound \cup {l}
      /\ ln' = [ln EXCEPT ![l] = IF l = "dns" THEN "bound" ELSE "up"]
      /\ unserved' = IF bound' = Listeners THEN 0 ELSE unserved
      /\ UNCHANGED <<pc, ready, errs, done, sock, hb, ticker, child, orphans, guard, table>>
  BY DEF Bind, beatVars, kernelVars
<1>2. LifeType'
  BY <1>1 DEF LifeInv, LifeType
<1>3. ClockType'
  BY <1>1, Times DEF LifeInv, ClockType
<1>4. pc # "down"
  BY <1>1 DEF LifeInv, ReadyInv
<1>5. ReadyInv'
  BY <1>1, <1>4 DEF LifeInv, ReadyInv, LifeType
<1>6. ChannelInv'
  BY <1>1 DEF LifeInv, LifeType, ChannelInv
<1>7. BeatInv'
  BY <1>1 DEF LifeInv, BeatInv
<1>8. ServedInv'
  BY <1>1, Times DEF LifeInv, ServedInv, ReadyInv, ClockType
<1> QED BY <1>2, <1>3, <1>5, <1>6, <1>7, <1>8 DEF LifeInv

\* A listener changes its state, with or without leaving a result.
LEMMA ListenerKeeps ==
  ASSUME LifeInv, NEW l \in Listeners,
         \/ ListenerFails(l) \/ ListenerStops(l)
         \/ l = "dns" /\ (Activate \/ ShutdownMissed)
  PROVE  LifeInv'
<1>1. /\ ln[l] \in {"bind", "bound", "up"}
      /\ \/ /\ ln' = [ln EXCEPT ![l] = "ended"] /\ errs' = Append(errs, "err")
         \/ /\ ln' = [ln EXCEPT ![l] = "ended"] /\ errs' = Append(errs, "nil") /\ done
         \/ /\ ln' = [ln EXCEPT ![l] = "up"] /\ errs' = errs
         \/ /\ ln' = [ln EXCEPT ![l] = "missed"] /\ errs' = errs /\ done
      /\ UNCHANGED <<pc, ready, bound, done, sock, hb, ticker, child, orphans, guard, table,
                     unserved>>
  BY DEF ListenerFails, ListenerStops, Activate, ShutdownMissed, Ends, beatVars, kernelVars
<1>2. errs' \in Seq({"nil", "err"})
  BY <1>1 DEF LifeInv, LifeType
<1>3. LifeType' /\ ClockType'
  BY <1>1, <1>2 DEF LifeInv, LifeType, ClockType
<1>4. ReadyInv'
  BY <1>1 DEF LifeInv, LifeType, ReadyInv
<1>5. ChannelInv'
  <2> SUFFICES ASSUME ~done PROVE ChannelInv'
    BY <1>1 DEF ChannelInv
  <2>1. CASE ln' = [ln EXCEPT ![l] = "ended"] /\ errs' = Append(errs, "err")
    <3>1. errs' # <<>> /\ \A i \in 1..Len(errs') : errs'[i] = "err"
      BY <2>1 DEF LifeInv, LifeType, ChannelInv
    <3> QED BY <1>1, <2>1, <3>1 DEF LifeInv, LifeType, ChannelInv
  <2>2. CASE ln' = [ln EXCEPT ![l] = "up"] /\ errs' = errs
    BY <1>1, <2>2 DEF LifeInv, LifeType, ChannelInv
  <2> QED BY <1>1, <2>1, <2>2
<1>6. BeatInv'
  BY <1>1 DEF LifeInv, BeatInv
<1>7. ServedInv'
  BY <1>1 DEF LifeInv, ServedInv
<1> QED BY <1>3, <1>4, <1>5, <1>6, <1>7 DEF LifeInv
-----------------------------------------------------------------------------
\* Run.
LEMMA AwaitKeeps ==
  ASSUME LifeInv, AwaitReady \/ AwaitFails
  PROVE  LifeInv'
<1>1. /\ pc = "ready" /\ pc' \in {"ready", "listen", "return"}
      /\ UNCHANGED <<ln, bound, errs, done, sock, hb, ticker, child, orphans, guard, table,
                     unserved>>
  BY DEF AwaitReady, AwaitFails, beatVars, kernelVars
<1>2. \/ pc' = "return" /\ ready' = ready
      \/ ready = 0 /\ ready' = 1 /\ pc' = "ready" /\ "dns" \in bound
      \/ ready = 1 /\ ready' = 2 /\ pc' = "ready" /\ "tcp" \in bound
      \/ ready = 2 /\ ready' = 3 /\ pc' = "listen" /\ "udp" \in bound
  <2>1. ready \in {0, 1, 2}
    BY <1>1 DEF LifeInv, LifeType, ReadyInv
  <2>2. ReadyOrder[1] = "dns" /\ ReadyOrder[2] = "tcp" /\ ReadyOrder[3] = "udp"
        /\ Len(ReadyOrder) = 3
    BY DEF ReadyOrder
  <2> QED BY <1>1, <2>1, <2>2 DEF AwaitReady, AwaitFails
<1>3. LifeType' /\ ClockType'
  BY <1>1, <1>2 DEF LifeInv, LifeType, ClockType
<1>4. ReadyInv'
  <2>1. ready' = 3 => bound = Listeners
    <3> SUFFICES ASSUME ready' = 3 PROVE bound = Listeners
      OBVIOUS
    <3>1. ready = 2 /\ "udp" \in bound
      BY <1>1, <1>2 DEF LifeInv, LifeType, ReadyInv
    <3>2. "dns" \in bound /\ "tcp" \in bound /\ bound \in SUBSET Listeners
      BY <3>1 DEF LifeInv, LifeType, ReadyInv
    <3> QED BY <3>1, <3>2 DEF Listeners
  <2> QED BY <1>1, <1>2, <2>1 DEF LifeInv, LifeType, ReadyInv
<1>5. ChannelInv'
  BY <1>1 DEF LifeInv, ChannelInv
<1>6. BeatInv'
  BY <1>1 DEF LifeInv, BeatInv
<1>7. ServedInv'
  BY <1>1 DEF LifeInv, ServedInv
<1> QED BY <1>3, <1>4, <1>5, <1>6, <1>7 DEF LifeInv

LEMMA ControlKeeps ==
  ASSUME LifeInv, ControlListen
  PROVE  LifeInv'
<1>1. /\ pc = "listen"
      /\ \/ pc' = "return" /\ sock' \in {sock, "none"} /\ UNCHANGED <<hb, ticker>>
         \/ pc' = "serve" /\ sock' = "mine" /\ hb' = "first" /\ ticker' = Ticker0
      /\ UNCHANGED <<ready, ln, bound, errs, done, child, orphans, guard, table, unserved>>
  BY DEF ControlListen, kernelVars
<1>2. LifeType'
  BY <1>1 DEF LifeInv, LifeType
<1>3. ClockType'
  BY <1>1, TickerOK DEF LifeInv, ClockType
<1>4. ReadyInv'
  BY <1>1 DEF LifeInv, ReadyInv
<1>5. ChannelInv'
  BY <1>1 DEF LifeInv, ChannelInv
<1>6. BeatInv'
  BY <1>1 DEF LifeInv, LifeType, BeatInv, ReadyInv
<1>7. ServedInv'
  BY <1>1 DEF LifeInv, ServedInv, ReadyInv
<1> QED BY <1>2, <1>3, <1>4, <1>5, <1>6, <1>7 DEF LifeInv

LEMMA ServeKeeps ==
  ASSUME LifeInv, Serve
  PROVE  LifeInv'
<1>1. /\ pc = "serve" /\ pc' \in {"serve", "return"}
      /\ UNCHANGED <<ready, ln, bound, done, sock, hb, ticker, child, orphans, guard, table,
                     unserved>>
  BY DEF Serve, beatVars, kernelVars
<1>2. \/ errs # <<>> /\ errs' = Tail(errs) /\ pc' = (IF errs[1] = "err" THEN "return" ELSE pc)
      \/ errs' = errs /\ pc' = "return"
  BY DEF Serve, EndsRun, LifeInv, LifeType
<1>3. errs' \in Seq({"nil", "err"})
  BY <1>2 DEF LifeInv, LifeType
<1>4. LifeType' /\ ClockType'
  BY <1>1, <1>3 DEF LifeInv, LifeType, ClockType
<1>5. ReadyInv'
  BY <1>1 DEF LifeInv, ReadyInv
<1>6. ChannelInv'
  <2> SUFFICES ASSUME ~done PROVE ChannelInv'
    BY <1>1 DEF ChannelInv
  <2>1. errs \in Seq({"nil", "err"}) /\ \A i \in 1..Len(errs) : errs[i] = "err"
    BY DEF LifeInv, LifeType, ChannelInv
  <2>2. pc' = "return"
    <3>1. CASE errs # <<>>
      <4>1. 1 \in 1..Len(errs)
        BY <2>1, <3>1
      <4> QED BY <1>2, <2>1, <4>1
    <3> QED BY <1>2, <3>1
  <2>3. \A i \in 1..Len(errs') : errs'[i] = "err"
    BY <1>2, <2>1
  <2> QED BY <1>1, <2>2, <2>3 DEF LifeInv, ChannelInv
<1>7. BeatInv'
  BY <1>1 DEF LifeInv, BeatInv
<1>8. ServedInv'
  BY <1>1 DEF LifeInv, ServedInv
<1> QED BY <1>4, <1>5, <1>6, <1>7, <1>8 DEF LifeInv

LEMMA GoneKeeps ==
  ASSUME LifeInv, Exit \/ Crash
  PROVE  LifeInv'
<1>1. /\ pc' = "down" /\ ready' = 0 /\ bound' = {} /\ errs' = <<>> /\ done' = FALSE
      /\ ln' = [l \in Listeners |-> "off"] /\ hb' = "off" /\ ticker' = Ticker0
      /\ child' = None /\ orphans' = orphans \cup ({child} \ {None})
      /\ sock' # "mine" /\ UNCHANGED <<guard, table, unserved>>
  BY DEF Exit, Crash, Gone
<1>2. LifeType'
  <2>1. done' \in BOOLEAN
    BY <1>1
  <2>2. errs' \in Seq({"nil", "err"})
    BY <1>1
  <2> QED BY <1>1, <2>1, <2>2 DEF LifeInv, LifeType
<1>3. ClockType'
  <2>1. orphans' \in SUBSET (0..NftTime)
    BY <1>1, Times DEF LifeInv, ClockType
  <2> QED BY <1>1, <2>1, Times DEF LifeInv, ClockType, Ticker0
<1>4. ReadyInv'
  BY <1>1 DEF ReadyInv
<1>5. ChannelInv'
  BY <1>1 DEF ChannelInv
<1>6. BeatInv'
  BY <1>1 DEF BeatInv
<1>7. ServedInv'
  BY <1>1 DEF LifeInv, ServedInv
<1> QED BY <1>2, <1>3, <1>4, <1>5, <1>6, <1>7 DEF LifeInv
-----------------------------------------------------------------------------
\* The heartbeat and the nft children.
LEMMA BeatKeeps ==
  ASSUME LifeInv, Beat
  PROVE  LifeInv'
<1>1. /\ hb \in {"first", "wait"} /\ (hb = "wait" => ticker.fired) /\ child = None
      /\ ticker' = (IF done THEN Ticker0 ELSE [ticker EXCEPT !.fired = FALSE])
      /\ hb' = (IF done THEN "dead" ELSE IF hb = "wait" THEN "beat" ELSE hb)
      /\ child' = (IF done THEN None ELSE NftTime)
      /\ UNCHANGED <<pc, ready, ln, bound, errs, done, sock, orphans, guard, table, unserved>>
  BY DEF Beat, procVars, kernelVars
<1>2. LifeType'
  BY <1>1 DEF LifeInv, LifeType
<1>3. ClockType'
  <2>1. [ticker EXCEPT !.fired = FALSE] \in [left : 1..Period, fired : BOOLEAN]
    BY DEF LifeInv, ClockType
  <2>2. child' \in None..NftTime
    BY <1>1, Times
  <2> QED BY <1>1, <2>1, <2>2, TickerOK DEF LifeInv, ClockType
<1>4. ReadyInv'
  BY <1>1 DEF LifeInv, ReadyInv
<1>5. ChannelInv'
  BY <1>1 DEF LifeInv, ChannelInv
<1>6. BeatInv'
  <2>1. CASE done
    BY <1>1, <2>1 DEF BeatInv
  <2>2. CASE ~done
    <3>1. NftTime # None /\ guard \in Nat
      BY Times DEF LifeInv, ClockType
    <3>2. hb = "wait" => guard + Period >= TTL
      BY <2>2 DEF LifeInv, BeatInv
    <3> QED BY <1>1, <2>2, <3>1, <3>2, Times DEF BeatInv
  <2> QED BY <2>1, <2>2
<1>7. ServedInv'
  <2>1. ~done => unserved = 0
    BY <1>1 DEF LifeInv, ServedInv
  <2> QED BY <1>1, <2>1, Times DEF LifeInv, ServedInv
<1> QED BY <1>2, <1>3, <1>4, <1>5, <1>6, <1>7 DEF LifeInv

LEMMA AppliedKeeps ==
  ASSUME LifeInv, Applied
  PROVE  LifeInv'
<1>1. /\ child # None /\ child' = None /\ guard' = TTL /\ hb' = "wait"
      /\ UNCHANGED <<pc, ready, ln, bound, errs, done, sock, ticker, orphans, table, unserved>>
  BY DEF Applied, Lease, procVars
<1>2. hb \notin {"off", "dead"}
  BY <1>1 DEF LifeInv, BeatInv
<1>3. LifeType' /\ ClockType'
  BY <1>1, Times DEF LifeInv, LifeType, ClockType
<1>4. ReadyInv'
  BY <1>1, <1>2 DEF LifeInv, LifeType, ReadyInv
<1>5. ChannelInv'
  BY <1>1 DEF LifeInv, ChannelInv
<1>6. BeatInv'
  <2>1. ticker.left \in 1..Period
    BY DEF LifeInv, ClockType
  <2> QED BY <1>1, <2>1, Times DEF BeatInv
<1>7. ServedInv'
  <2>1. unserved \in Nat /\ child \in Nat
    BY <1>1, Times DEF LifeInv, ClockType
  <2> QED BY <1>1, <1>2, <2>1, Times DEF LifeInv, LifeType, ServedInv
<1> QED BY <1>3, <1>4, <1>5, <1>6, <1>7 DEF LifeInv

LEMMA BeatEndsKeeps ==
  ASSUME LifeInv, BeatEnds
  PROVE  LifeInv'
<1>1. /\ child # None \/ hb = "wait"
      /\ child' = None /\ hb' = "dead" /\ ticker' = Ticker0
      /\ UNCHANGED <<pc, ready, ln, bound, errs, done, sock, orphans, guard, table, unserved>>
  BY DEF BeatEnds, procVars, kernelVars
<1>2. hb # "off"
  BY <1>1 DEF LifeInv, BeatInv
<1>3. LifeType' /\ ClockType'
  BY <1>1, Times, TickerOK DEF LifeInv, LifeType, ClockType
<1>4. ReadyInv'
  BY <1>1, <1>2 DEF LifeInv, ReadyInv
<1>5. ChannelInv'
  BY <1>1 DEF LifeInv, ChannelInv
<1>6. BeatInv' /\ ServedInv'
  BY <1>1, <1>2 DEF LifeInv, BeatInv, ServedInv
<1> QED BY <1>3, <1>4, <1>5, <1>6 DEF LifeInv

LEMMA OrphanKeeps ==
  ASSUME LifeInv, NEW o \in orphans, OrphanEnds(o)
  PROVE  LifeInv'
<1>1. /\ orphans' = orphans \ {o} /\ guard' \in {guard, TTL}
      /\ UNCHANGED <<pc, ready, ln, bound, errs, done, sock, hb, ticker, child, table, unserved>>
  BY DEF OrphanEnds, procVars, beatVars
<1>2. LifeType' /\ ClockType'
  BY <1>1, Times DEF LifeInv, LifeType, ClockType
<1>3. ReadyInv'
  BY <1>1 DEF LifeInv, ReadyInv
<1>4. ChannelInv'
  BY <1>1 DEF LifeInv, ChannelInv
<1>5. BeatInv'
  <2>1. ticker.left \in 1..Period /\ child \in None..NftTime
    BY DEF LifeInv, ClockType
  <2> QED BY <1>1, <2>1, Times DEF LifeInv, BeatInv
<1>6. ServedInv'
  <2>1. unserved \in Nat /\ o \in Nat /\ unserved + o <= NftTime
    BY Times DEF LifeInv, ClockType, ServedInv
  <2> QED BY <1>1, <2>1, Times DEF LifeInv, ServedInv
<1> QED BY <1>2, <1>3, <1>4, <1>5, <1>6 DEF LifeInv
-----------------------------------------------------------------------------
\* The init script; each of its calls empties the heartbeat map.
LEMMA ServiceKeeps ==
  ASSUME LifeInv, StopService \/ ReloadService \/ StartService
  PROVE  LifeInv'
<1>1. /\ guard' = 0 /\ sock' \in {sock, "none"}
      /\ UNCHANGED <<pc, ready, ln, bound, errs, hb, ticker, child, orphans, unserved>>
  BY DEF StopService, ReloadService, StartService, procVars, beatVars
<1>2. done' \in BOOLEAN /\ table' \in BOOLEAN
  BY Zenon DEF LifeInv, LifeType, StopService, ReloadService, StartService, procVars
<1>5. pc # "down" <=> done'
  <2>1. CASE StopService \/ ReloadService
    BY <2>1, Zenon DEF StopService, ReloadService
  <2>2. CASE StartService
    BY <2>2 DEF StartService, procVars, LifeInv, ReadyInv
  <2> QED BY <2>1, <2>2
<1>3. LifeType' /\ ClockType'
  BY <1>1, <1>2, Times DEF LifeInv, LifeType, ClockType
<1>4. ReadyInv'
  BY <1>1, <1>5 DEF LifeInv, ReadyInv
<1>6. ChannelInv'
  BY <1>1, <1>5 DEF LifeInv, ChannelInv, ReadyInv
<1>7. BeatInv' /\ ServedInv'
  BY <1>1, <1>5 DEF LifeInv, BeatInv, ServedInv, ReadyInv
<1> QED BY <1>3, <1>4, <1>6, <1>7 DEF LifeInv

\* Time passes: the element loses as much as the ticker and the child do, and
\* no time without the listeners while the heartbeat may start a child.
LEMMA TickKeeps ==
  ASSUME LifeInv, Tick
  PROVE  LifeInv'
<1>1. /\ Idle
      /\ ticker' = (IF hb \in {"off", "dead"} THEN ticker
                    ELSE IF ticker.left > 1 THEN [ticker EXCEPT !.left = @ - 1]
                    ELSE [left |-> Period, fired |-> TRUE])
      /\ child' = Less(child) /\ orphans' = {o - 1 : o \in orphans} /\ guard' = Less(guard)
      /\ unserved' = IF AllUp(ln) \/ unserved = Horizon THEN unserved ELSE unserved + 1
      /\ UNCHANGED <<pc, ready, ln, bound, errs, done, sock, hb, table>>
  BY DEF Tick, procVars
<1>2. /\ child # 0 /\ 0 \notin orphans /\ (hb = "wait" => ~ticker.fired /\ ~done)
      /\ pc \notin {"listen", "return"} /\ (pc \in {"ready", "serve"} => errs = <<>>)
  BY <1>1 DEF Idle
<1>3. /\ guard \in Nat /\ guard <= TTL /\ child \in None..NftTime /\ unserved \in 0..Horizon
      /\ orphans \in SUBSET (0..NftTime) /\ ticker \in [left : 1..Period, fired : BOOLEAN]
      /\ ticker.left \in 1..Period
  BY Times DEF LifeInv, ClockType
<1>4. /\ guard' \in Nat /\ guard' <= TTL /\ (guard > 0 => guard' = guard - 1)
      /\ (guard = 0 => guard' = 0)
  BY <1>1, <1>3, Times DEF Less
<1>5. /\ child' \in None..NftTime /\ (child = None <=> child' = None)
      /\ child # None => child' = child - 1 /\ child \in Nat /\ child' \in Nat
  BY <1>1, <1>2, <1>3, Times DEF Less
<1>6. orphans' \in SUBSET (0..NftTime)
  BY <1>1, <1>2, <1>3, Times
<1>7. unserved \in Nat /\ unserved' \in Nat /\ unserved' \in 0..Horizon
      /\ unserved' <= unserved + 1
      /\ (AllUp(ln) => unserved' = unserved)
  BY <1>1, <1>3, Times
<1>8. /\ ticker' \in [left : 1..Period, fired : BOOLEAN]
      /\ hb = "wait" /\ ~ticker'.fired => ticker'.left = ticker.left - 1
  <2>1. CASE hb \in {"off", "dead"}
    BY <1>1, <1>3, <2>1
  <2>2. CASE hb \notin {"off", "dead"} /\ ticker.left > 1
    <3>1. ticker' = [ticker EXCEPT !.left = @ - 1] /\ ticker.left - 1 \in 1..Period
      BY <1>1, <1>3, <2>2, Times
    <3> QED BY <1>3, <3>1
  <2>3. CASE hb \notin {"off", "dead"} /\ ~(ticker.left > 1)
    <3>1. ticker' = [left |-> Period, fired |-> TRUE]
      BY <1>1, <2>3
    <3> QED BY <3>1, Times
  <2> QED BY <2>1, <2>2, <2>3
<1>9. LifeType' /\ ClockType'
  <2>1. LifeType'
    BY <1>1 DEF LifeInv, LifeType
  <2> QED BY <2>1, <1>4, <1>5, <1>6, <1>7, <1>8, Times DEF ClockType
<1>10. ReadyInv'
  BY <1>1 DEF LifeInv, ReadyInv
<1>11. ChannelInv'
  BY <1>1 DEF LifeInv, ChannelInv
<1>12. BeatInv'
  <2>1. hb = "beat" => child # None
    BY DEF LifeInv, BeatInv
  <2>2. ~done /\ hb = "wait" =>
          guard + Period >= TTL + ticker.left /\ guard > 0 /\ guard' = guard - 1
    BY <1>2, <1>3, <1>4, Times DEF LifeInv, BeatInv
  <2>3. ~done /\ hb = "beat" =>
          guard + Period + NftTime >= TTL + child /\ guard > 0 /\ guard' = guard - 1
    BY <1>3, <1>4, <1>5, <2>1, Times DEF LifeInv, BeatInv
  <2>4. ~done /\ hb = "wait" => guard' + Period >= TTL
                               /\ (~ticker'.fired => guard' + Period >= TTL + ticker'.left)
    BY <1>3, <1>8, <2>2, Times
  <2>5. ~done /\ hb = "beat" => guard' + Period + NftTime >= TTL + child'
    BY <1>3, <1>5, <2>1, <2>3, Times
  <2> QED BY <1>1, <1>5, <2>1, <2>4, <2>5 DEF LifeInv, BeatInv
<1>13. ServedInv'
  <2>1. ASSUME ~done, hb # "off" \/ (bound = Listeners /\ pc \in {"ready", "listen", "serve"})
        PROVE  unserved' = 0
    <3>1. bound = Listeners /\ pc \in {"ready", "serve"} /\ errs = <<>>
      BY <1>2, <2>1 DEF LifeInv, ReadyInv
    <3>2. \A l \in Listeners : ln[l] \in {"bound", "up"}
      BY <2>1, <3>1 DEF LifeInv, LifeType, ChannelInv
    <3>3. AllUp(ln)
      BY <3>2 DEF AllUp
    <3> QED BY <1>7, <2>1, <3>3 DEF LifeInv, ServedInv
  <2>2. child' # None => unserved' + child' <= NftTime
    <3>1. child # None => unserved + child <= NftTime
      BY DEF LifeInv, ServedInv
    <3> QED BY <1>5, <1>7, <3>1, Slide, Times
  <2>3. \A o \in orphans' : unserved' + o <= NftTime
    <3> SUFFICES ASSUME NEW p \in orphans PROVE unserved' + (p - 1) <= NftTime
      BY <1>1
    <3>1. p \in Nat /\ unserved + p <= NftTime
      BY <1>3, Times DEF LifeInv, ServedInv
    <3> QED BY <1>7, <3>1, Slide, Times
  <2>4. guard' > 0 => unserved' + guard' <= TTL + NftTime
    <3>1. guard > 0 => unserved + guard <= TTL + NftTime
      BY DEF LifeInv, ServedInv
    <3>2. TTL + NftTime \in Nat /\ guard \in Nat
      BY <1>3, Times
    <3> QED BY <1>4, <1>7, <3>1, <3>2, Slide
  <2> QED BY <1>1, <2>1, <2>2, <2>3, <2>4 DEF ServedInv
<1> QED BY <1>9, <1>10, <1>11, <1>12, <1>13 DEF LifeInv

LEMMA Step == LifeInv /\ [Next]_vars => LifeInv'
<1> SUFFICES ASSUME LifeInv, [Next]_vars PROVE LifeInv'
  OBVIOUS
<1>1. CASE UNCHANGED vars
  <2>1. UNCHANGED <<pc, ready, ln, bound, errs, done, sock, hb, ticker, child, orphans, guard,
                    table, unserved>>
    BY <1>1 DEF vars, procVars, beatVars, kernelVars
  <2> QED BY <2>1 DEF LifeInv, LifeType, ClockType, ReadyInv, ChannelInv, BeatInv, ServedInv
<1>2. CASE Activate \/ ShutdownMissed
  BY <1>2, ListenerKeeps DEF Listeners
<1> QED BY <1>1, <1>2, StartKeeps, BindKeeps, ListenerKeeps, AwaitKeeps, ControlKeeps, ServeKeeps,
           GoneKeeps, BeatKeeps, AppliedKeeps, BeatEndsKeeps, OrphanKeeps, ServiceKeeps, TickKeeps
        DEF Next
-----------------------------------------------------------------------------
\* Neither the heartbeat nor the control socket is there before all three
\* listeners are bound (application.go:143-161).
THEOREM ReadyCorrect == Spec => []ReadyFirst
<1>1. LifeInv => ReadyFirst
  BY DEF LifeInv, ReadyInv, ReadyFirst
<1> QED BY <1>1, InitInv, Step, PTL DEF Spec

\* A running heartbeat keeps the element, for every period, timeout and length
\* of an nft run with Period + NftTime < TTL (application.go:231-245,
\* nft_linux.go:77-98).
THEOREM GuardCorrect == Spec => []GuardHeld
<1>1. LifeInv => GuardHeld
  <2> SUFFICES ASSUME LifeInv, hb \in {"wait", "beat"}, ~done PROVE guard > 0
    BY DEF GuardHeld
  <2>1. guard \in Nat /\ child \in None..NftTime
    BY DEF LifeInv, ClockType
  <2>2. hb = "wait" => guard + Period >= TTL
    BY DEF LifeInv, BeatInv
  <2>3. hb = "beat" => guard + Period + NftTime >= TTL + child /\ child # None
    BY DEF LifeInv, BeatInv
  <2> QED BY <2>1, <2>2, <2>3, Times
<1> QED BY <1>1, InitInv, Step, PTL DEF Spec

\* Redirected traffic is without a listener for less than a timeout and an nft
\* run, wherever the process crashes (application.go:127-168, 231-245).
THEOREM RedirectCorrect == Spec => []RedirectServed
<1>1. LifeInv => RedirectServed
  BY Times DEF LifeInv, ClockType, ServedInv, RedirectServed
<1> QED BY <1>1, InitInv, Step, PTL DEF Spec
-----------------------------------------------------------------------------
\* What a listener may have put into the channel.
Given(l) == IF ln[l] = "ended" THEN 1 ELSE 0

RestType ==
    /\ sock \in {"none", "mine", "stale", "other"}
    /\ wanted \in BOOLEAN
    /\ respawn \in 0..RespawnDelay
    /\ tries \in 0..Retries
    /\ Len(errs) <= Given("dns") + Given("tcp") + Given("udp")

\* The actions that may change how many results wait in the channel.
LEMMA RoomKeeps ==
  ASSUME LifeInv, RestType, [Next]_vars
  PROVE  Len(errs)' <= Given("dns")' + Given("tcp")' + Given("udp")'
<1>1. /\ errs \in Seq({"nil", "err"}) /\ Len(errs) \in Nat
      /\ DOMAIN ln = Listeners
      /\ Given("dns") \in 0..1 /\ Given("tcp") \in 0..1 /\ Given("udp") \in 0..1
  BY DEF LifeInv, LifeType, Given
<1>2. ASSUME NEW l \in Listeners, NEW r \in {"nil", "err"}, ln[l] # "ended", Ends(l, r)
      PROVE  Len(errs)' <= Given("dns")' + Given("tcp")' + Given("udp")'
  <2>1. Len(errs') = Len(errs) + 1
    BY <1>1, <1>2 DEF Ends
  <2>2. \A k \in Listeners : Given(k)' = IF k = l THEN 1 ELSE Given(k)
    BY <1>1, <1>2 DEF Ends, Given, LifeInv, LifeType
  <2>3. Given(l) = 0
    BY <1>2 DEF Given
  <2> QED BY <1>1, <2>1, <2>2, <2>3 DEF RestType, Listeners
<1>3. ASSUME NEW l \in Listeners, ListenerFails(l) \/ ListenerStops(l)
      PROVE  Len(errs)' <= Given("dns")' + Given("tcp")' + Given("udp")'
  BY <1>2, <1>3 DEF ListenerFails, ListenerStops
<1>4. CASE Start
  <2>1. Given("dns") = 0 /\ Given("tcp") = 0 /\ Given("udp") = 0 /\ errs' = errs
    BY <1>4 DEF Start, LifeInv, ReadyInv, Given, Listeners
  <2>2. Given("dns")' = 0 /\ Given("tcp")' = 0 /\ Given("udp")' = 0
    BY <1>4 DEF Start, Given, Listeners
  <2> QED BY <1>1, <2>1, <2>2 DEF RestType
<1>5. ASSUME NEW l \in Listeners, NEW v, v # "ended", ln[l] # "ended", UNCHANGED errs,
             ln' = [ln EXCEPT ![l] = v]
      PROVE  Len(errs)' <= Given("dns")' + Given("tcp")' + Given("udp")'
  <2>1. \A k \in Listeners : Given(k)' = Given(k)
    BY <1>1, <1>5 DEF Given
  <2> QED BY <1>1, <1>5, <2>1 DEF RestType, Listeners
<1>6. ASSUME NEW l \in Listeners, Bind(l)
      PROVE  Len(errs)' <= Given("dns")' + Given("tcp")' + Given("udp")'
  BY <1>5, <1>6 DEF Bind
<1>7. CASE Activate \/ ShutdownMissed
  BY <1>5, <1>7 DEF Activate, ShutdownMissed, Listeners
<1>8. CASE Serve
  <2>1. UNCHANGED ln /\ (UNCHANGED errs \/ (errs # <<>> /\ errs' = Tail(errs)))
    BY <1>8 DEF Serve
  <2>2. Len(errs') <= Len(errs) /\ Len(errs') \in Nat
    BY <1>1, <2>1
  <2>3. \A k \in Listeners : Given(k)' = Given(k)
    BY <2>1 DEF Given
  <2> QED BY <1>1, <2>2, <2>3 DEF RestType, Listeners
<1>9. CASE Exit \/ Crash
  <2>1. errs' = <<>> /\ ln' = [l \in Listeners |-> "off"]
    BY <1>9 DEF Exit, Crash, Gone
  <2> QED BY <2>1 DEF Given, Listeners
<1>10. CASE UNCHANGED <<ln, errs>>
  BY <1>10 DEF RestType, Given
<1>11. CASE \/ AwaitReady \/ AwaitFails \/ ControlListen \/ Beat \/ Applied \/ BeatEnds
            \/ (\E o \in orphans : OrphanEnds(o))
            \/ StopService \/ ReloadService \/ StartService \/ Tick \/ UNCHANGED vars
  BY <1>10, <1>11 DEF AwaitReady, AwaitFails, ControlListen, Beat, Applied, BeatEnds, OrphanEnds,
        StopService, ReloadService, StartService, Tick, vars, procVars
<1> QED BY <1>3, <1>4, <1>6, <1>7, <1>8, <1>9, <1>11 DEF Next

LEMMA RestKeeps == LifeInv /\ RestType /\ [Next]_vars => RestType'
<1> SUFFICES ASSUME LifeInv, RestType, [Next]_vars PROVE RestType'
  OBVIOUS
<1>1. Retries \in Nat /\ RespawnDelay \in Nat
  BY LifecycleAssumption
<1>2. (sock \in {"none", "mine", "stale", "other"})'
  BY DEF RestType, Next, Start, Bind, Activate, Ends, ListenerFails, ListenerStops,
         ShutdownMissed, AwaitReady, AwaitFails, ControlListen, Serve, Exit, Crash, Beat, Applied,
         BeatEnds, OrphanEnds, StopService, ReloadService, StartService, Tick, vars
<1>3. CASE Exit \/ Crash
  <2>1. Gone
    BY <1>3 DEF Exit, Crash
  <2>2. (wanted \in BOOLEAN)'
    BY <2>1, Zenon DEF Gone, RestType
  <2>3. (respawn \in 0..RespawnDelay /\ tries \in 0..Retries)'
    BY <1>1, <2>1 DEF Gone, RestType
  <2> QED BY <1>2, <2>2, <2>3, RoomKeeps DEF RestType
<1>4. CASE StopService \/ ReloadService \/ StartService
  <2>1. (wanted \in BOOLEAN)'
    BY <1>4, Zenon DEF StopService, ReloadService, StartService, RestType
  <2>2. (respawn \in 0..RespawnDelay /\ tries \in 0..Retries)'
    BY <1>1, <1>4 DEF StopService, ReloadService, StartService, RestType
  <2> QED BY <1>2, <2>1, <2>2, RoomKeeps DEF RestType
<1>5. CASE Tick
  BY <1>1, <1>2, <1>5, RoomKeeps DEF Tick, Less, RestType
<1>6. CASE UNCHANGED superVars
  BY <1>2, <1>6, RoomKeeps DEF RestType, superVars
<1> QED BY <1>3, <1>4, <1>5, <1>6
        DEF Next, Start, Bind, Activate, Ends, ListenerFails, ListenerStops, ShutdownMissed,
            AwaitReady, AwaitFails, ControlListen, Serve, Beat, Applied, BeatEnds, OrphanEnds, vars

\* Every variable keeps its type; the channel of results never holds more than
\* one result of each listener, so that no send to it blocks
\* (application.go:134-140).
THEOREM TypeCorrect == Spec => []TypeOK
<1>1. Init => RestType
  <2> SUFFICES ASSUME Init PROVE RestType
    OBVIOUS
  <2>1. errs = <<>> /\ Given("dns") = 0 /\ Given("tcp") = 0 /\ Given("udp") = 0
    BY DEF Init, Given, Listeners
  <2>2. wanted \in BOOLEAN
    BY DEF Init
  <2> QED BY <2>1, <2>2, LifecycleAssumption DEF Init, RestType
<1>2. LifeInv /\ RestType => TypeOK
  <2> SUFFICES ASSUME LifeInv, RestType PROVE TypeOK
    OBVIOUS
  <2>1. Len(errs) <= 3
    <3>1. Len(errs) \in Nat
      BY DEF LifeInv, LifeType
    <3> QED BY <3>1 DEF RestType, Given
  <2> QED BY <2>1 DEF LifeInv, LifeType, ClockType, RestType, TypeOK
<1> QED BY <1>1, <1>2, InitInv, Step, RestKeeps, PTL DEF Spec
=============================================================================
