--------------------------- MODULE TransportProofs ---------------------------
(***************************************************************************)
(* Proofs about the transports, for any number of concurrent operations:   *)
(* FailOpen with any thresholds, cooldown and probe interval, then         *)
(* Hy2Client with any capacity and number of handshakes.                   *)
(*                                                                         *)
(* The controller's part of FailOpen's invariant is proved once per method *)
(* of the controller, the probe's part once per action of the dialers;     *)
(* Hy2Client's invariant has a part about generations and one about slots. *)
(***************************************************************************)
EXTENDS FailOpen, Hy2Client, FiniteSetTheorems, TLAPS

ControllerInv == ControllerTypeOK /\ CountersMatchMode

DialerTypeOK ==
    /\ pc \in [Streams \cup Packets -> Steps]
    /\ probeRunning \in BOOLEAN
    /\ probeLeft \in 0..ProbeInterval
    /\ probing \in Nat
    /\ finishing \in Nat
    /\ relay \in {"up", "flaky", "down"}

Restores == mode # "Proxy" /\ mode' = "Proxy" =>
                quiet = Cooldown /\ okStreak' = Successes

\* The thresholds New computes are positive whatever is configured.
LEMMA ThresholdTypes == Failures \in Nat \ {0} /\ Successes \in Nat \ {0}
  BY ControllerAssumption DEF Failures, Successes

LEMMA InitController == FailOpenInit => ControllerInv
  BY ThresholdTypes, ControllerAssumption
  DEF FailOpenInit, ControllerInit, ControllerInv, ControllerTypeOK, CountersMatchMode, Modes

\* Every method of the controller keeps its invariant and restores the relay
\* only after a quiet cooldown and a streak of successes.
LEMMA ReadModeStep == ControllerInv /\ ReadMode => ControllerInv' /\ Restores
  BY ThresholdTypes, ControllerAssumption
  DEF ReadMode, CurrentMode, ControllerInv, ControllerTypeOK, CountersMatchMode,
      Modes, Restores

LEMMA RecordFailureStep == ControllerInv /\ RecordFailure => ControllerInv' /\ Restores
  BY ThresholdTypes, ControllerAssumption
  DEF RecordFailure, Counted, Trips, UpTo, ControllerInv, ControllerTypeOK, CountersMatchMode,
      Modes, Restores

LEMMA RecordSuccessStep == ControllerInv /\ RecordSuccess => ControllerInv' /\ Restores
  BY ThresholdTypes, ControllerAssumption
  DEF RecordSuccess, Recovered, CurrentMode, UpTo, ControllerInv, ControllerTypeOK,
      CountersMatchMode, Modes, Restores

LEMMA ElapseStep == ControllerInv /\ Elapse => ControllerInv' /\ Restores
  BY ThresholdTypes, ControllerAssumption
  DEF Elapse, UpTo, ControllerInv, ControllerTypeOK, CountersMatchMode,
      Modes, Restores

LEMMA ControllerStutters == ControllerInv /\ UNCHANGED controllerVars => ControllerInv' /\ Restores
  BY DEF controllerVars, ControllerInv, ControllerTypeOK, CountersMatchMode, Modes, Restores

\* Every action makes at most one call of the controller.
LEMMA NextCallsController ==
  [FailOpenNext]_failOpenVars =>
      \/ ReadMode \/ RecordFailure \/ RecordSuccess \/ Elapse \/ UNCHANGED controllerVars
  BY DEF FailOpenNext, failOpenVars, StreamStep, PacketStep, FailOpenDial, MaybeProbe,
         ClaimProbe, GateProbe, ProxyReturns, ProxySucceeded, ProxyFailed, DirectDone,
         OpenPacket, SendFails, ClosePacket, ProbeReturns, ProbeEnds, Snapshot, Tick, RelayChanges

LEMMA ControllerStep == ControllerInv /\ [FailOpenNext]_failOpenVars => ControllerInv' /\ Restores
  BY NextCallsController, ReadModeStep, RecordFailureStep, RecordSuccessStep,
     ElapseStep, ControllerStutters
-----------------------------------------------------------------------------
\* A move of one dial between steps other than the gate concerns no probe.
LEMMA GotoElsewhere ==
  ASSUME NEW d, NEW from, NEW to,
         pc \in [Streams \cup Packets -> Steps], d \in Streams \cup Packets,
         from # "gate", to # "gate", to \in Steps, Goto(d, from, to)
  PROVE  ProbeHolders' = ProbeHolders /\ pc' \in [Streams \cup Packets -> Steps]
  BY DEF Goto, ProbeHolders

LEMMA InitDialer == FailOpenInit => DialerTypeOK /\ SingleProbe
<1> SUFFICES ASSUME FailOpenInit PROVE DialerTypeOK /\ SingleProbe
  OBVIOUS
<1>1. DialerTypeOK
  <2>1. pc \in [Streams \cup Packets -> Steps]
    BY DEF FailOpenInit, Steps
  <2>2. probeRunning = FALSE
    BY DEF FailOpenInit
  <2>3. probeLeft \in 0..ProbeInterval /\ probing \in Nat /\ finishing \in Nat
    BY FailOpenAssumption DEF FailOpenInit
  <2> QED BY <2>1, <2>2, <2>3, Zenon DEF FailOpenInit, DialerTypeOK
<1>2. ProbeHolders = {} /\ ~probeRunning /\ probing + finishing = 0
  BY DEF FailOpenInit, ProbeHolders
<1> QED BY <1>1, <1>2 DEF SingleProbe

\* The dials' own moves that neither claim nor release the probe.
LEMMA QuietMoves ==
  ASSUME DialerTypeOK, SingleProbe, NEW d \in Streams \cup Packets,
         \/ FailOpenDial(d) \/ MaybeProbe(d) \/ ProxyReturns(d) \/ ProxySucceeded(d)
         \/ ProxyFailed(d) \/ DirectDone(d) \/ OpenPacket(d) \/ SendFails(d)
         \/ ClosePacket(d)
  PROVE  DialerTypeOK' /\ SingleProbe'
<1>1. ProbeHolders' = ProbeHolders /\ pc' \in [Streams \cup Packets -> Steps]
  <2>1. ASSUME NEW from, NEW to, from # "gate", to # "gate", to \in Steps,
               Goto(d, from, to)
        PROVE  ProbeHolders' = ProbeHolders /\ pc' \in [Streams \cup Packets -> Steps]
    BY <2>1, GotoElsewhere DEF DialerTypeOK
  <2>2. CASE FailOpenDial(d) \/ MaybeProbe(d) \/ OpenPacket(d)
    BY <2>1, <2>2 DEF FailOpenDial, MaybeProbe, OpenPacket, Steps
  <2>3. CASE ProxyReturns(d) \/ ProxySucceeded(d) \/ ProxyFailed(d) \/ DirectDone(d)
    BY <2>1, <2>3 DEF ProxyReturns, ProxySucceeded, ProxyFailed, DirectDone, Steps
  <2>4. CASE SendFails(d) \/ ClosePacket(d)
    BY <2>1, <2>4 DEF SendFails, ClosePacket, Steps, Goto
  <2> QED BY <2>2, <2>3, <2>4
<1>2. UNCHANGED <<probeRunning, probeLeft, probing, finishing, relay>>
  BY DEF FailOpenDial, MaybeProbe, ProxyReturns, ProxySucceeded, ProxyFailed, DirectDone,
         OpenPacket, SendFails, ClosePacket
<1> QED BY <1>1, <1>2 DEF DialerTypeOK, SingleProbe

\* The compare-and-swap lets a dial through the gate only when nobody holds
\* the probe.
LEMMA ClaimStep ==
  ASSUME DialerTypeOK, SingleProbe, NEW d \in Streams, ClaimProbe(d)
  PROVE  DialerTypeOK' /\ SingleProbe'
<1>1. pc[d] = "cas" /\ probeRunning' = TRUE
      /\ UNCHANGED <<probeLeft, probing, finishing, relay>>
  BY DEF ClaimProbe, Goto
<1>2. CASE probeRunning
  <2>1. Goto(d, "cas", "direct")
    BY <1>2 DEF ClaimProbe, Swaps
  <2>2. ProbeHolders' = ProbeHolders /\ pc' \in [Streams \cup Packets -> Steps]
    BY <2>1, GotoElsewhere DEF DialerTypeOK, Steps
  <2> QED BY <1>1, <1>2, <2>2 DEF DialerTypeOK, SingleProbe
<1>3. CASE ~probeRunning
  <2>1. pc' = [pc EXCEPT ![d] = "gate"]
    BY <1>3 DEF ClaimProbe, Swaps, Goto
  <2>2. ProbeHolders = {} /\ probing + finishing = 0
    BY <1>3 DEF SingleProbe, DialerTypeOK
  <2>3. ProbeHolders' = {d}
    BY <2>1, <2>2 DEF ProbeHolders, DialerTypeOK
  <2>4. pc' \in [Streams \cup Packets -> Steps]
    BY <2>1 DEF DialerTypeOK, Steps
  <2> QED BY <1>1, <2>2, <2>3, <2>4 DEF DialerTypeOK, SingleProbe
<1> QED BY <1>2, <1>3

\* The gate passes the probe on to the goroutine, or gives it back.
LEMMA GateStep ==
  ASSUME DialerTypeOK, SingleProbe, NEW d \in Streams, GateProbe(d)
  PROVE  DialerTypeOK' /\ SingleProbe'
<1>1. pc[d] = "gate" /\ pc' = [pc EXCEPT ![d] = "direct"]
      /\ UNCHANGED <<finishing, relay>>
  BY DEF GateProbe, Goto
<1>2. ProbeHolders = {d} /\ probing + finishing = 0 /\ probeRunning
  BY <1>1 DEF SingleProbe, ProbeHolders
<1>3. ProbeHolders' = {} /\ pc' \in [Streams \cup Packets -> Steps]
  BY <1>1, <1>2 DEF ProbeHolders, DialerTypeOK, Steps
<1>4. CASE probeLeft > 0
  <2>1. probeRunning' = FALSE /\ probing' = probing /\ probeLeft' = probeLeft
    BY <1>4 DEF GateProbe, GiveProbeBack
  <2>2. DialerTypeOK'
    BY <1>1, <1>3, <2>1, Zenon DEF DialerTypeOK
  <2>3. ~probeRunning' /\ (probing + finishing)' = 0
    BY <1>1, <1>2, <2>1
  <2> QED BY <1>3, <2>2, <2>3 DEF SingleProbe
<1>5. CASE ~(probeLeft > 0)
  <2>1. probeRunning' = probeRunning /\ probing' = probing + 1 /\ probeLeft' = ProbeInterval
    BY <1>5 DEF GateProbe
  <2>2. probing' \in Nat /\ probeLeft' \in 0..ProbeInterval /\ (probing + finishing)' = 1
    BY <1>1, <1>2, <2>1, FailOpenAssumption DEF DialerTypeOK
  <2>3. DialerTypeOK'
    BY <1>1, <1>3, <2>1, <2>2, Zenon DEF DialerTypeOK
  <2>4. probeRunning'
    BY <1>2, <2>1
  <2> QED BY <1>3, <2>2, <2>3, <2>4 DEF SingleProbe
<1> QED BY <1>4, <1>5

LEMMA OtherSteps ==
  ASSUME DialerTypeOK, SingleProbe,
         ProbeReturns \/ ProbeEnds \/ Snapshot \/ Tick \/ RelayChanges \/ UNCHANGED failOpenVars
  PROVE  DialerTypeOK' /\ SingleProbe'
<1>1. pc' \in [Streams \cup Packets -> Steps]
      /\ \A d \in Streams : pc'[d] = "gate" <=> pc[d] = "gate"
  <2>1. CASE pc' = pc
    BY <2>1 DEF DialerTypeOK
  <2>2. CASE RelayChanges
    <3>1. pc' = [d \in Streams \cup Packets |-> IF pc[d] = "session" THEN "stale" ELSE pc[d]]
      BY <2>2 DEF RelayChanges
    <3> QED BY <3>1 DEF DialerTypeOK, Steps
  <2> QED BY <2>1, <2>2 DEF ProbeReturns, ProbeEnds, Snapshot, Tick, failOpenVars, dialerVars
<1>2. ProbeHolders' = ProbeHolders
  BY <1>1 DEF ProbeHolders
<1>3. CASE ProbeReturns
  BY <1>1, <1>2, <1>3 DEF ProbeReturns, DialerTypeOK, SingleProbe
<1>4. CASE ProbeEnds
  <2>1. finishing = 1 /\ probing = 0 /\ ProbeHolders = {}
    BY <1>4 DEF ProbeEnds, DialerTypeOK, SingleProbe
  <2>2. finishing' = 0 /\ probing' = 0 /\ probeRunning' = FALSE
        /\ UNCHANGED <<probeLeft, relay>>
    BY <1>4, <2>1 DEF ProbeEnds
  <2>3. DialerTypeOK'
    BY <1>1, <2>2, Zenon DEF DialerTypeOK
  <2>4. ProbeHolders' = {} /\ ~probeRunning' /\ (probing + finishing)' = 0
    BY <1>2, <2>1, <2>2
  <2> QED BY <2>3, <2>4 DEF SingleProbe
<1>5. CASE Snapshot \/ UNCHANGED failOpenVars
  BY <1>1, <1>2, <1>5 DEF Snapshot, failOpenVars, dialerVars, DialerTypeOK, SingleProbe
<1>6. CASE Tick
  BY <1>1, <1>2, <1>6, FailOpenAssumption DEF Tick, DialerTypeOK, SingleProbe
<1>7. CASE RelayChanges
  BY <1>1, <1>2, <1>7 DEF RelayChanges, DialerTypeOK, SingleProbe
<1> QED BY <1>3, <1>4, <1>5, <1>6, <1>7

LEMMA DialerStep ==
  DialerTypeOK /\ SingleProbe /\ [FailOpenNext]_failOpenVars => DialerTypeOK' /\ SingleProbe'
<1> SUFFICES ASSUME DialerTypeOK, SingleProbe, [FailOpenNext]_failOpenVars
             PROVE  DialerTypeOK' /\ SingleProbe'
  OBVIOUS
<1>1. CASE \E d \in Streams : StreamStep(d)
  BY <1>1, QuietMoves, ClaimStep, GateStep DEF StreamStep
<1>2. CASE \E d \in Packets : PacketStep(d)
  BY <1>2, QuietMoves DEF PacketStep
<1>3. CASE ProbeReturns \/ ProbeEnds \/ Snapshot \/ Tick \/ RelayChanges \/ UNCHANGED failOpenVars
  BY <1>3, OtherSteps
<1> QED BY <1>1, <1>2, <1>3 DEF FailOpenNext
-----------------------------------------------------------------------------
\* Every reachable state has its type (controller.go, failopen.go,
\* failopen_packet.go): in particular the counters never pass their thresholds.
THEOREM FailOpenTypeCorrect == FailOpenSpec => []FailOpenTypeOK
<1>1. FailOpenInit => ControllerInv /\ DialerTypeOK /\ SingleProbe
  BY InitController, InitDialer
<1>2. ControllerInv /\ DialerTypeOK /\ SingleProbe /\ [FailOpenNext]_failOpenVars
        => (ControllerInv /\ DialerTypeOK /\ SingleProbe)'
  BY ControllerStep, DialerStep
<1>3. ControllerInv /\ DialerTypeOK => FailOpenTypeOK
  BY DEF ControllerInv, DialerTypeOK, FailOpenTypeOK
<1> QED BY <1>1, <1>2, <1>3, PTL DEF FailOpenSpec

\* The controller's counters, mode and cooldown agree with what was recorded,
\* however many dials, sessions and probes record (controller.go:41-78).
THEOREM CountersCorrect == FailOpenSpec => []CountersMatchMode
<1>1. ControllerInv => CountersMatchMode
  BY DEF ControllerInv
<1> QED BY <1>1, InitController, ControllerStep, PTL DEF FailOpenSpec

\* At most one probe runs, and probeRunning is set exactly while somebody is
\* there to clear it, for any number of dials (failopen.go:51-77).
THEOREM SingleProbeCorrect == FailOpenSpec => []SingleProbe
  BY InitDialer, DialerStep, PTL DEF FailOpenSpec

\* New connections return to the relay only after a cooldown without a failure
\* and Successes successes in a row (controller.go:41-78).
THEOREM RestoreCorrect == FailOpenSpec => RestoreAfterQuietStreak
<1>1. ControllerInv /\ [FailOpenNext]_failOpenVars =>
        [mode # "Proxy" /\ mode' = "Proxy" =>
            quiet = Cooldown /\ okStreak' = Successes]_failOpenVars
  BY ControllerStep DEF Restores
<1> QED BY <1>1, InitController, ControllerStep, PTL DEF FailOpenSpec, RestoreAfterQuietStreak
-----------------------------------------------------------------------------
\* The HY2 client.
Generations == 0..MaxSequence

GenerationTypeOK ==
    /\ client \in Generations
    /\ sequence \in Generations
    /\ closed \in BOOLEAN
    /\ used \in [Ops -> Generations]
    /\ result \in [Ops -> Results]
    /\ status \in {"idle", "connected", "degraded"}
    /\ statusSeq \in Generations

\* A core without a client has handshakes left, by the bound on the model.
HandshakesLeft == ~closed /\ client = 0 => sequence < MaxSequence

GenerationInv == GenerationTypeOK /\ StatusOfCurrentGeneration /\ HandshakesLeft

generationVars == <<client, sequence, closed, used, result, status, statusSeq>>

LEMMA InitGeneration == Init => GenerationInv
<1> SUFFICES ASSUME Init PROVE GenerationInv
  OBVIOUS
<1>1. closed \in BOOLEAN
  BY Zenon DEF Init
<1>2. client = 0 /\ sequence = 0 /\ statusSeq = 0 /\ status = "idle"
      /\ used = [d \in Ops |-> 0] /\ result = [d \in Ops |-> "ok"]
  BY DEF Init
<1> QED BY <1>1, <1>2, Hy2Assumption
        DEF GenerationInv, GenerationTypeOK, Generations, StatusOfCurrentGeneration,
            HandshakesLeft, Results

LEMMA GenerationStutters ==
  GenerationInv /\ UNCHANGED generationVars => GenerationInv'
  BY DEF GenerationInv, GenerationTypeOK, StatusOfCurrentGeneration, HandshakesLeft,
         generationVars

\* Steps of a caller change no generation; a late failure is only accepted for
\* the newest one.
LEMMA CallerGeneration ==
  ASSUME GenerationInv, NEW d \in Ops, CallerStep(d)
  PROVE  GenerationInv'
<1>1. CASE Dial(d) \/ CancelWaiting(d) \/ GiveUp(d) \/ AcquireSlot(d)
  <2>1. UNCHANGED generationVars
    BY <1>1 DEF Dial, CancelWaiting, GiveUp, AcquireSlot,
                generationVars, coreVars, statusVars
  <2> QED BY <2>1, GenerationStutters
<1>2. ASSUME UNCHANGED <<client, sequence, closed>>, Forget(d),
             \/ status' = status /\ statusSeq' = statusSeq
             \/ ~(used[d] < statusSeq) /\ status' = "degraded" /\ statusSeq' = used[d]
      PROVE  GenerationInv'
  <2>1. used' = [used EXCEPT ![d] = 0] /\ result' = [result EXCEPT ![d] = "ok"]
    BY <1>2 DEF Forget
  <2>2. used' \in [Ops -> Generations] /\ \A x \in Ops : used'[x] <= sequence
    BY <2>1, Hy2Assumption DEF GenerationInv, GenerationTypeOK, Generations,
                               StatusOfCurrentGeneration
  <2>3. result' \in [Ops -> Results]
    BY <2>1 DEF GenerationInv, GenerationTypeOK, Results
  <2>4. GenerationTypeOK'
    BY <1>2, <2>2, <2>3 DEF GenerationInv, GenerationTypeOK
  <2>5. StatusOfCurrentGeneration'
    BY <1>2, <2>2 DEF GenerationInv, GenerationTypeOK, Generations, StatusOfCurrentGeneration
  <2> QED BY <1>2, <2>4, <2>5 DEF GenerationInv, HandshakesLeft
<1>3. CASE TakeResult(d)
  <2>1. \/ UNCHANGED generationVars
        \/ UNCHANGED <<client, sequence, closed, status, statusSeq>> /\ Forget(d)
    BY <1>3 DEF TakeResult, generationVars, coreVars, statusVars
  <2> QED BY <1>2, <2>1, GenerationStutters
<1>4. CASE Reap(d)
  BY <1>2, <1>4 DEF Reap, coreVars, statusVars
<1>5. CASE EmitFailure(d)
  BY <1>2, <1>5 DEF EmitFailure, Emit, coreVars, statusVars
<1> QED BY <1>1, <1>3, <1>4, <1>5 DEF CallerStep

\* Steps of a worker: only a handshake makes a generation, and only the
\* generation's own operations drop it.
LEMMA WorkerGeneration ==
  ASSUME GenerationInv, NEW d \in Ops, WorkerStep(d)
  PROVE  GenerationInv'
<1> USE DEF GenerationInv, GenerationTypeOK, Generations
<1>1. CASE CoreClosed(d) \/ CoreReady(d)
  <2>1. UNCHANGED <<client, sequence, closed, status, statusSeq>>
        /\ used' = [used EXCEPT ![d] = sequence]
        /\ result' \in [Ops -> Results]
    BY <1>1 DEF CoreClosed, CoreReady, WorkerDone, coreVars, statusVars, Results
  <2> QED BY <2>1 DEF StatusOfCurrentGeneration, HandshakesLeft
<1>2. CASE Reconnect(d)
  <2>1. sequence' = sequence + 1 /\ used' = [used EXCEPT ![d] = sequence + 1]
        /\ closed' = closed /\ ~closed /\ client = 0
    BY <1>2 DEF Reconnect
  <2>2. sequence < MaxSequence
    BY <2>1 DEF HandshakesLeft
  <2>3. sequence' \in Generations /\ used' \in [Ops -> Generations]
        /\ \A e \in Ops : used'[e] <= sequence'
    BY <2>1, <2>2, Hy2Assumption DEF StatusOfCurrentGeneration
  <2>4. CASE client' = sequence + 1 /\ Emit("connected", sequence + 1) /\ UNCHANGED result
    <3>1. ~(sequence + 1 < statusSeq)
      BY DEF StatusOfCurrentGeneration
    <3>2. status' = "connected" /\ statusSeq' = sequence + 1
      BY <2>4, <3>1 DEF Emit
    <3> QED BY <2>1, <2>3, <2>4, <3>2 DEF StatusOfCurrentGeneration, HandshakesLeft
  <2>5. CASE sequence + 1 < MaxSequence /\ WorkerDone(d, "connect")
             /\ UNCHANGED <<client, statusVars>>
    <3>1. result' \in [Ops -> Results]
      BY <2>5 DEF WorkerDone, Results
    <3> QED BY <2>1, <2>3, <2>5, <3>1
            DEF StatusOfCurrentGeneration, HandshakesLeft, statusVars
  <2> QED BY <1>2, <2>4, <2>5 DEF Reconnect
<1>3. CASE CallReturns(d)
  <2>1. PICK r \in {"ok", "dial", "other", "closed"} :
          /\ r = "closed" => used[d] < MaxSequence \/ closed
          /\ WorkerDone(d, r)
          /\ client' = IF Drops(d, r) THEN 0 ELSE client
    BY <1>3 DEF CallReturns
  <2>2. UNCHANGED <<sequence, closed, used, status, statusSeq>>
    BY <1>3 DEF CallReturns, statusVars
  <2>3. result' \in [Ops -> Results]
    BY <2>1 DEF WorkerDone, Results
  <2>4. CASE client' = client
    BY <2>2, <2>3, <2>4 DEF StatusOfCurrentGeneration, HandshakesLeft
  <2>5. CASE client # 0 /\ client' = 0 /\ client = used[d] /\ (used[d] < MaxSequence \/ closed)
    BY <2>2, <2>3, <2>5, Hy2Assumption DEF StatusOfCurrentGeneration, HandshakesLeft
  <2> QED BY <2>1, <2>4, <2>5 DEF Drops
<1> QED BY <1>1, <1>2, <1>3 DEF WorkerStep

LEMMA GenerationStep == GenerationInv /\ [Next]_vars => GenerationInv'
<1> SUFFICES ASSUME GenerationInv, [Next]_vars PROVE GenerationInv'
  OBVIOUS
<1>1. CASE Close
  <2>1. closed' = TRUE /\ UNCHANGED <<client, sequence, used, result, status, statusSeq>>
    BY <1>1 DEF Close, opVars, statusVars
  <2> QED BY <2>1 DEF GenerationInv, GenerationTypeOK, StatusOfCurrentGeneration, HandshakesLeft
<1>2. CASE UNCHANGED vars
  BY <1>2, GenerationStutters DEF vars, coreVars, opVars, statusVars, generationVars
<1> QED BY <1>1, <1>2, CallerGeneration, WorkerGeneration DEF Next
-----------------------------------------------------------------------------
SlotInv ==
    /\ caller \in [Ops -> {"idle", "sem", "wait", "emit", "gone"}]
    /\ worker \in [Ops -> {"none", "start", "call", "done"}]
    /\ slots \in Nat
    /\ SlotsAccounted

LEMMA InitSlots == Init => SlotInv
<1> SUFFICES ASSUME Init PROVE SlotInv
  OBVIOUS
<1>1. Workers = {}
  BY DEF Init, Workers
<1>2. Cardinality(Workers) = 0
  BY <1>1, FS_EmptySet
<1> QED BY <1>2, Hy2Assumption DEF Init, SlotInv, SlotsAccounted, Workers

LEMMA WorkersFinite == IsFiniteSet(Workers) /\ IsFiniteSet(Workers)'
<1>1. Workers \subseteq Ops /\ Workers' \subseteq Ops
  BY DEF Workers
<1> QED BY <1>1, FS_Subset, Hy2Assumption

\* A caller and its worker move without touching the slots.
LEMMA SlotsKept ==
  ASSUME SlotInv, Workers' = Workers, slots' = slots,
         caller' \in [Ops -> {"idle", "sem", "wait", "emit", "gone"}],
         worker' \in [Ops -> {"none", "start", "call", "done"}],
         \A d \in Ops : worker'[d] # "none" <=> caller'[d] \in {"wait", "gone"}
  PROVE  SlotInv'
  BY DEF SlotInv, SlotsAccounted, Workers

\* A slot is taken by exactly one more worker.
LEMMA AcquireKeepsSlots ==
  ASSUME SlotInv, NEW d \in Ops, AcquireSlot(d)
  PROVE  SlotInv'
<1>1. /\ caller[d] = "sem" /\ slots < MaxConcurrentDials /\ slots' = slots + 1
      /\ caller' = [caller EXCEPT ![d] = "wait"]
      /\ worker' = [worker EXCEPT ![d] = "start"]
  BY DEF AcquireSlot
<1>2. d \notin Workers
  BY <1>1 DEF SlotInv, SlotsAccounted, Workers
<1>3. Workers' = Workers \cup {d}
  BY <1>1 DEF SlotInv, Workers
<1>4. Cardinality(Workers') = Cardinality(Workers) + 1
  BY <1>2, <1>3, WorkersFinite, FS_AddElement
<1>5. slots' = Cardinality(Workers') /\ slots' \in Nat /\ slots' <= MaxConcurrentDials
  BY <1>1, <1>4, Hy2Assumption DEF SlotInv, SlotsAccounted, Workers
<1> QED BY <1>1, <1>5 DEF SlotInv, SlotsAccounted, Workers

\* The result is received once, by the caller or by the goroutine it left
\* behind, and that receive frees the worker's slot.
LEMMA ReleaseKeepsSlots ==
  ASSUME SlotInv, NEW d \in Ops, TakeResult(d) \/ Reap(d)
  PROVE  SlotInv'
<1>1. /\ worker[d] = "done" /\ slots' = slots - 1
      /\ worker' = [worker EXCEPT ![d] = "none"]
      /\ \/ caller' = [caller EXCEPT ![d] = "emit"]
         \/ caller' = [caller EXCEPT ![d] = "idle"]
  BY DEF TakeResult, Reap, Release, Forget
<1>2. d \in Workers /\ Workers' = Workers \ {d}
  BY <1>1 DEF SlotInv, Workers
<1>3. Cardinality(Workers') = Cardinality(Workers) - 1 /\ Cardinality(Workers) \in Nat
      /\ Cardinality(Workers') \in Nat
  BY <1>2, WorkersFinite, FS_RemoveElement, FS_CardinalityType
<1>4. slots' = Cardinality(Workers') /\ slots' \in Nat /\ slots' <= MaxConcurrentDials
  BY <1>1, <1>3, Hy2Assumption DEF SlotInv, SlotsAccounted, Workers
<1> QED BY <1>1, <1>4 DEF SlotInv, SlotsAccounted, Workers

LEMMA SlotStep == SlotInv /\ [Next]_vars => SlotInv'
<1> SUFFICES ASSUME SlotInv, [Next]_vars PROVE SlotInv'
  OBVIOUS
<1>1. ASSUME NEW d \in Ops, AcquireSlot(d) PROVE SlotInv'
  BY <1>1, AcquireKeepsSlots
<1>2. ASSUME NEW d \in Ops, TakeResult(d) \/ Reap(d) PROVE SlotInv'
  BY <1>2, ReleaseKeepsSlots
<1>3. ASSUME NEW d \in Ops, Dial(d) \/ CancelWaiting(d) \/ EmitFailure(d) \/ GiveUp(d)
      PROVE  SlotInv'
  <2>1. UNCHANGED <<worker, slots>>
        /\ \/ caller[d] = "idle" /\ caller' = [caller EXCEPT ![d] = "sem"]
           \/ caller[d] \in {"sem", "emit"} /\ caller' = [caller EXCEPT ![d] = "idle"]
           \/ caller[d] = "wait" /\ caller' = [caller EXCEPT ![d] = "gone"]
    BY <1>3 DEF Dial, CancelWaiting, EmitFailure, GiveUp, Forget
  <2>2. Workers' = Workers
    BY <2>1 DEF Workers
  <2> QED BY <2>1, <2>2, SlotsKept DEF SlotInv, SlotsAccounted
<1>4. ASSUME NEW d \in Ops, WorkerStep(d) PROVE SlotInv'
  <2>1. /\ worker[d] \in {"start", "call"}
        /\ \/ worker' = [worker EXCEPT ![d] = "call"]
           \/ worker' = [worker EXCEPT ![d] = "done"]
        /\ UNCHANGED <<caller, slots>>
    BY <1>4 DEF WorkerStep, CoreClosed, CoreReady, Reconnect, CallReturns, WorkerDone
  <2>2. Workers' = Workers
    BY <2>1 DEF Workers, SlotInv
  <2> QED BY <2>1, <2>2, SlotsKept DEF SlotInv, SlotsAccounted
<1>5. CASE Close \/ UNCHANGED vars
  <2>1. UNCHANGED <<caller, worker, slots>>
    BY <1>5 DEF Close, vars, opVars
  <2> QED BY <2>1 DEF SlotInv, SlotsAccounted, Workers
<1> QED BY <1>1, <1>2, <1>3, <1>4, <1>5 DEF Next, CallerStep
-----------------------------------------------------------------------------
\* Every reachable state has its type; no receive from client.sem finds it
\* empty (client.go, reconnect.go, hy2_status.go).
THEOREM TypeCorrect == Spec => []TypeOK
<1>1. GenerationInv /\ SlotInv => TypeOK
  BY DEF GenerationInv, GenerationTypeOK, Generations, SlotInv, TypeOK
<1> QED BY <1>1, InitGeneration, GenerationStep, InitSlots, SlotStep, PTL DEF Spec

\* The status shown is about the generation in use, for any number of
\* operations and handshakes (hy2_status.go:43-82, reconnect.go:30-76).
THEOREM StatusCorrect == Spec => []StatusOfCurrentGeneration
<1>1. GenerationInv => StatusOfCurrentGeneration
  BY DEF GenerationInv
<1> QED BY <1>1, InitGeneration, GenerationStep, PTL DEF Spec

\* Every slot in use belongs to exactly one worker, and there are never more
\* than MaxConcurrentDials, whoever gives up when (client.go:65-130).
THEOREM SlotsCorrect == Spec => []SlotsAccounted
<1>1. SlotInv => SlotsAccounted
  BY DEF SlotInv
<1> QED BY <1>1, InitSlots, SlotStep, PTL DEF Spec

\* Only an operation of the same generation takes a client out of service, and
\* there is no handshake after Close (reconnect.go:49-106).
THEOREM DropsCorrect == Spec => OnlyOwnGenerationDrops
<1> DEFINE OwnDrops ==
       /\ client # 0 /\ client' # client =>
            client' = 0 /\ \E d \in Ops : worker[d] = "call" /\ used[d] = client
                                          /\ worker'[d] = "done" /\ result'[d] = "closed"
       /\ closed => sequence' = sequence /\ closed'
<1>1. GenerationInv /\ SlotInv /\ [Next]_vars => [OwnDrops]_vars
  <2> SUFFICES ASSUME GenerationInv, SlotInv, Next PROVE OwnDrops
    OBVIOUS
  <2>1. ASSUME NEW d \in Ops, CallReturns(d) PROVE OwnDrops
    <3>1. PICK r \in {"ok", "dial", "other", "closed"} :
            /\ WorkerDone(d, r)
            /\ client' = IF Drops(d, r) THEN 0 ELSE client
      BY <2>1 DEF CallReturns
    <3>2. UNCHANGED <<sequence, closed>> /\ worker[d] = "call"
      BY <2>1 DEF CallReturns
    <3>3. worker'[d] = "done" /\ result'[d] = r
      BY <3>1 DEF WorkerDone, SlotInv, GenerationInv, GenerationTypeOK
    <3> QED BY <3>1, <3>2, <3>3 DEF Drops
  <2>2. ASSUME NEW d \in Ops, Reconnect(d) PROVE OwnDrops
    BY <2>2 DEF Reconnect
  <2>3. ASSUME NEW d \in Ops, CallerStep(d) \/ CoreClosed(d) \/ CoreReady(d) PROVE OwnDrops
    <3>1. UNCHANGED <<client, sequence, closed>>
      BY <2>3 DEF CallerStep, Dial, AcquireSlot, CancelWaiting, TakeResult, EmitFailure,
                  GiveUp, Reap, CoreClosed, CoreReady, coreVars
    <3> QED BY <3>1
  <2>4. CASE Close
    BY <2>4 DEF Close
  <2> QED BY <2>1, <2>2, <2>3, <2>4 DEF Next, WorkerStep
<1> QED BY <1>1, InitGeneration, GenerationStep, InitSlots, SlotStep, PTL
        DEF Spec, OnlyOwnGenerationDrops

\* client.sem is a pool of slots, each held by the worker it was taken for and
\* given back once (client.go:65-130, SlotPool).
THEOREM PoolRefined == Spec => WorkersPooled
<1>1. Init => Pool!Init
  BY DEF Init, Pool!Init, Workers
<1>2. SlotInv /\ [Next]_vars => [Pool!Next]_Workers
  <2> SUFFICES ASSUME SlotInv, [Next]_vars, Workers' # Workers PROVE Pool!Next
    OBVIOUS
  <2>1. ASSUME NEW d \in Ops, AcquireSlot(d) PROVE Pool!Next
    <3>1. d \notin Workers /\ Workers' = Workers \cup {d}
      BY <2>1 DEF AcquireSlot, SlotInv, SlotsAccounted, Workers
    <3>2. Cardinality(Workers) < MaxConcurrentDials
      BY <2>1 DEF AcquireSlot, SlotInv, SlotsAccounted
    <3>3. Pool!Cardinality(Workers) = Cardinality(Workers)
      BY Zenon DEF Pool!Cardinality, Cardinality
    <3> QED BY <3>1, <3>2, <3>3 DEF Pool!Next, Pool!Acquire
  <2>2. ASSUME NEW d \in Ops, TakeResult(d) \/ Reap(d) PROVE Pool!Next
    <3>1. worker[d] = "done" /\ worker' = [worker EXCEPT ![d] = "none"]
      BY <2>2, Zenon DEF TakeResult, Reap, Release
    <3>2. d \in Workers /\ Workers' = Workers \ {d}
      BY <3>1 DEF SlotInv, Workers
    <3> QED BY <3>2 DEF Pool!Next, Pool!Release
  <2>3. ASSUME NEW d \in Ops,
               WorkerStep(d) \/ Dial(d) \/ CancelWaiting(d) \/ EmitFailure(d) \/ GiveUp(d)
        PROVE  FALSE
    <3>1. \/ worker' = worker
          \/ /\ worker[d] \in {"start", "call"}
             /\ \/ worker' = [worker EXCEPT ![d] = "call"]
                \/ worker' = [worker EXCEPT ![d] = "done"]
      BY <2>3, Zenon DEF WorkerStep, CoreClosed, CoreReady, Reconnect, CallReturns, WorkerDone,
                  Dial, CancelWaiting, EmitFailure, GiveUp
    <3>2. Workers' = Workers
      BY <3>1 DEF Workers, SlotInv
    <3> QED BY <3>2
  <2>4. CASE Close \/ UNCHANGED vars
    BY <2>4 DEF Close, vars, opVars, Workers
  <2> QED BY <2>1, <2>2, <2>3, <2>4 DEF Next, CallerStep
<1> QED BY <1>1, <1>2, InitSlots, SlotStep, PTL DEF Spec, WorkersPooled, Pool!Spec
=============================================================================
