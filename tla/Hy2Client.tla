----------------------------- MODULE Hy2Client ------------------------------
(***************************************************************************)
(* The HY2 transport: Client.Dial and Client.OpenPacket (which differ only *)
(* in the operation they ask for) with their bounded number of handshakes, *)
(* the reconnecting core under them, and the status tracker the core and   *)
(* the client report to.                                                   *)
(*                                                                         *)
(* An operation is two goroutines: the caller, who may give up when its    *)
(* context ends, and the worker, which goes on inside the hysteria client. *)
(* A generation of the connection is the sequence number of the handshake  *)
(* that made it; 0 stands for no client.  The hysteria client is external. *)
(***************************************************************************)
EXTENDS Integers, FiniteSets

CONSTANTS
    Ops,                \* slots for concurrent operations
    MaxConcurrentDials, \* capacity of client.sem
    MaxSequence         \* bound: the last handshake succeeds and is not lost

ASSUME Hy2Assumption ==
    /\ IsFiniteSet(Ops)
    /\ MaxConcurrentDials \in Nat \ {0}
    /\ MaxSequence \in Nat \ {0}

VARIABLES
    client,     \* core.client: its generation, 0 when nil
    sequence,   \* core.sequence
    closed,     \* core.closed
    caller,     \* where each caller of Dial or OpenPacket stands
    worker,     \* where its worker goroutine stands
    used,       \* the generation (sequence) the worker has read
    result,     \* what the worker puts into the result channel
    slots,      \* length of client.sem
    status,     \* tracker.snapshot.State; Connected is status = "connected"
    statusSeq   \* tracker.sequence

coreVars == <<client, sequence, closed>>
opVars == <<caller, worker, used, result, slots>>
statusVars == <<status, statusSeq>>
vars == <<coreVars, opVars, statusVars>>

Results == {"ok", "closed", "dial", "connect", "other"}

\* Every variable holds a value of its type: no slot is given back that was
\* not taken, and no generation is passed (client.go:65-130).
TypeOK ==
    /\ client \in 0..MaxSequence
    /\ sequence \in 0..MaxSequence
    /\ closed \in BOOLEAN
    /\ caller \in [Ops -> {"idle", "sem", "wait", "emit", "gone"}]
    /\ worker \in [Ops -> {"none", "start", "call", "done"}]
    /\ used \in [Ops -> 0..MaxSequence]
    /\ result \in [Ops -> Results]
    /\ slots \in Nat
    /\ status \in {"idle", "connected", "degraded"}
    /\ statusSeq \in 0..MaxSequence

Init ==
    /\ client = 0 /\ sequence = 0 /\ closed = FALSE
    /\ caller = [d \in Ops |-> "idle"]
    /\ worker = [d \in Ops |-> "none"]
    /\ used = [d \in Ops |-> 0]
    /\ result = [d \in Ops |-> "ok"]
    /\ slots = 0
    /\ status = "idle" /\ statusSeq = 0
-----------------------------------------------------------------------------
\* A faulty Emit that accepts events of any generation.
EmitAnyGeneration(state, seq) == status' = state /\ statusSeq' = seq

\* hy2StatusTracker.Emit: an event older than the newest accepted is dropped.
Emit(state, seq) ==
    IF seq < statusSeq
    THEN UNCHANGED statusVars
    ELSE status' = state /\ statusSeq' = seq

\* isTransportFailure: everything but the target's own DialError.
TransportFailure(r) == r \notin {"ok", "dial"}

\* The receive from client.sem; a faulty one is done twice.
ReleaseTwice == slots' = slots - 2
Release == slots' = slots - 1

\* The operation is over, and its locals with it.
Forget(d) ==
    /\ caller' = [caller EXCEPT ![d] = "idle"]
    /\ used' = [used EXCEPT ![d] = 0]
    /\ result' = [result EXCEPT ![d] = "ok"]

\* Dial, the select on client.sem.
Dial(d) ==
    /\ caller[d] = "idle" /\ worker[d] = "none"
    /\ caller' = [caller EXCEPT ![d] = "sem"]
    /\ UNCHANGED <<coreVars, worker, used, result, slots, statusVars>>

AcquireSlot(d) ==
    /\ caller[d] = "sem"
    /\ slots < MaxConcurrentDials
    /\ slots' = slots + 1
    /\ caller' = [caller EXCEPT ![d] = "wait"]
    /\ worker' = [worker EXCEPT ![d] = "start"]
    /\ UNCHANGED <<coreVars, used, result, statusVars>>

CancelWaiting(d) ==
    /\ caller[d] = "sem"
    /\ caller' = [caller EXCEPT ![d] = "idle"]
    /\ UNCHANGED <<coreVars, worker, used, result, slots, statusVars>>

\* The select on the result channel: the result, which frees the slot before
\* a transport failure is reported, ...
TakeResult(d) ==
    /\ caller[d] = "wait" /\ worker[d] = "done"
    /\ Release
    /\ worker' = [worker EXCEPT ![d] = "none"]
    /\ \/ /\ TransportFailure(result[d])
          /\ caller' = [caller EXCEPT ![d] = "emit"]
          /\ UNCHANGED <<used, result>>
       \/ ~TransportFailure(result[d]) /\ Forget(d)
    /\ UNCHANGED <<coreVars, statusVars>>

EmitFailure(d) ==
    /\ caller[d] = "emit"
    /\ Emit("degraded", used[d])
    /\ Forget(d)
    /\ UNCHANGED <<coreVars, worker, slots>>

\* ... or the end of the context, after which another goroutine waits for the
\* result, closes what it carries and frees the slot.
GiveUp(d) ==
    /\ caller[d] = "wait"
    /\ caller' = [caller EXCEPT ![d] = "gone"]
    /\ UNCHANGED <<coreVars, worker, used, result, slots, statusVars>>

\* A faulty Dial starts no such goroutine.
ReapForgotten(d) == FALSE /\ UNCHANGED vars

Reap(d) ==
    /\ caller[d] = "gone" /\ worker[d] = "done"
    /\ Release
    /\ worker' = [worker EXCEPT ![d] = "none"]
    /\ Forget(d)
    /\ UNCHANGED <<coreVars, statusVars>>
-----------------------------------------------------------------------------
WorkerDone(d, r) ==
    /\ worker' = [worker EXCEPT ![d] = "done"]
    /\ result' = [result EXCEPT ![d] = r]

\* clientDo under core.mu, a closed core.
CoreClosed(d) ==
    /\ worker[d] = "start"
    /\ closed
    /\ used' = [used EXCEPT ![d] = sequence]
    /\ WorkerDone(d, "closed")
    /\ UNCHANGED <<coreVars, caller, slots, statusVars>>

\* clientDo under core.mu, the client there is.
CoreReady(d) ==
    /\ worker[d] = "start"
    /\ ~closed /\ client # 0
    /\ used' = [used EXCEPT ![d] = sequence]
    /\ worker' = [worker EXCEPT ![d] = "call"]
    /\ UNCHANGED <<coreVars, caller, result, slots, statusVars>>

\* clientDo with reconnectLocked, under core.mu: a new sequence number, then
\* the handshake, which emits hy2.connected before the lock is given up.
Reconnect(d) ==
    /\ worker[d] = "start"
    /\ ~closed /\ client = 0
    /\ sequence' = sequence + 1
    /\ used' = [used EXCEPT ![d] = sequence + 1]
    /\ \/ /\ client' = sequence + 1
          /\ Emit("connected", sequence + 1)
          /\ worker' = [worker EXCEPT ![d] = "call"]
          /\ UNCHANGED result
       \/ /\ sequence + 1 < MaxSequence
          /\ WorkerDone(d, "connect")
          /\ UNCHANGED <<client, statusVars>>
    /\ UNCHANGED <<closed, caller, slots>>

\* Whether a result takes the client out of service; a faulty clientDo drops
\* whatever client there is.
DropsAny(d, r) == r = "closed"
Drops(d, r) == r = "closed" /\ client = used[d]

\* The operation of the hysteria client returns; ClosedError drops the client
\* if it is still the one the operation used.
CallReturns(d) ==
    /\ worker[d] = "call"
    /\ \E r \in {"ok", "dial", "other", "closed"} :
          /\ r = "closed" => used[d] < MaxSequence \/ closed
          /\ WorkerDone(d, r)
          /\ client' = IF Drops(d, r) THEN 0 ELSE client
    /\ UNCHANGED <<sequence, closed, caller, used, slots, statusVars>>

\* reconnectableCore.Close.
Close ==
    /\ closed' = TRUE
    /\ UNCHANGED <<client, sequence, opVars, statusVars>>

CallerStep(d) ==
    \/ Dial(d) \/ AcquireSlot(d) \/ CancelWaiting(d) \/ TakeResult(d)
    \/ EmitFailure(d) \/ GiveUp(d) \/ Reap(d)

WorkerStep(d) == CoreClosed(d) \/ CoreReady(d) \/ Reconnect(d) \/ CallReturns(d)

Next == Close \/ \E d \in Ops : CallerStep(d) \/ WorkerStep(d)

Spec == Init /\ [][Next]_vars

\* Goroutines run and the hysteria client's operations return; senders blocked
\* on a channel are served in turn.  Nothing makes a caller dial, give up or
\* close.
FairSpec ==
    /\ Spec
    /\ \A d \in Ops :
          /\ WF_vars(WorkerStep(d))
          /\ WF_vars(TakeResult(d) \/ GiveUp(d))
          /\ WF_vars(EmitFailure(d))
          /\ WF_vars(Reap(d))
          /\ SF_vars(AcquireSlot(d))
-----------------------------------------------------------------------------
\* docs/hy2route-core-diagnostics.md:17-18: errors of older generations do not
\* overwrite a newer handshake.  While there is a client, the status shown is
\* about that very generation, however late other operations fail
\* (hy2_status.go:43-82, reconnect.go:30-76).
StatusOfCurrentGeneration ==
    /\ client # 0 => client = sequence /\ statusSeq = client
    /\ statusSeq <= sequence
    /\ \A d \in Ops : used[d] <= sequence
    /\ status = "idle" => statusSeq = 0
    /\ status = "connected" => statusSeq > 0

Workers == {d \in Ops : worker[d] # "none"}

\* Every slot of client.sem in use belongs to a worker that has not been
\* reaped, and there are never more than MaxConcurrentDials (client.go:65-130).
SlotsAccounted ==
    /\ slots = Cardinality(Workers)
    /\ slots <= MaxConcurrentDials
    /\ \A d \in Ops : worker[d] # "none" <=> caller[d] \in {"wait", "gone"}

\* A client leaves service only because an operation on that same generation
\* found it closed: a late error of an old connection never drops its
\* successor, and no handshake follows Close (reconnect.go:49-106).
OnlyOwnGenerationDrops ==
    [][/\ client # 0 /\ client' # client =>
            client' = 0 /\ \E d \in Ops : worker[d] = "call" /\ used[d] = client
                                          /\ worker'[d] = "done" /\ result'[d] = "closed"
       /\ closed => sequence' = sequence /\ closed']_vars

\* No dial waits for a slot for ever, even when the callers ahead of it gave up
\* (client_test.go, "UDP handshake slot leaked").
WaitersServed == \A d \in Ops : caller[d] = "sem" ~> caller[d] # "sem"

\* client.sem is a pool of MaxConcurrentDials slots held by the workers: the
\* slot of an operation is given back once, after its worker is done, whether
\* its caller waited or gave up (client.go:65-130).
Pool == INSTANCE SlotPool WITH Users <- Ops, Size <- MaxConcurrentDials, holders <- Workers
WorkersPooled == Pool!Spec
=============================================================================
