--------------------------- MODULE RelayFallback ---------------------------
(***************************************************************************)
(* RelayFallback.Dial of internal/transport/relay_fallback.go, with the    *)
(* Reality client as the primary relay and HY2 as the backup, as           *)
(* newApplication wires them for streams.  Any number of dials run at      *)
(* once; they share the cooldown.                                          *)
(*                                                                         *)
(* A dial stops while a network operation is pending; between two of them  *)
(* it takes the mutex once.  Timers hold what is left of them.  The name   *)
(* of the active relay, which only the status shows, is left out.          *)
(***************************************************************************)
EXTENDS Integers

CONSTANTS
    Dials,          \* slots for concurrent dials
    Budgets,        \* what is left to a caller's deadline, or NoDeadline
    Attempt,        \* the longest primary attempt, 4 s
    Cooldown        \* d.cooldown

NoDeadline == -1

ASSUME RelayAssumption ==
    /\ Budgets \subseteq Nat \cup {NoDeadline}
    /\ Attempt \in Nat \ {0}
    /\ Cooldown \in Nat \ {0}

VARIABLES
    retryLeft,      \* d.retryAt - now, 0 once it has passed
    dial,           \* the dials
    episode         \* history: age of the current cooldown

relayVars == <<retryLeft, dial, episode>>

Primary == {"connect", "vless"}
Pending == Primary \cup {"backup"}

\* ctx: what is left to the caller's context.  left: what is left to the
\* primary's attempt.  budget: history, what the caller's context had at first.
DialState == [at : Pending \cup {"idle", "ok", "err"}, ctx : Nat \cup {NoDeadline},
              left : Nat, budget : Nat \cup {NoDeadline}]

RelayTypeOK ==
    /\ retryLeft \in 0..Cooldown
    /\ dial \in [Dials -> DialState]
    /\ episode \in Nat

Idle == [at |-> "idle", ctx |-> NoDeadline, left |-> 0, budget |-> NoDeadline]

RelayInit ==
    /\ retryLeft = 0
    /\ dial = [d \in Dials |-> Idle]
    /\ episode = 0

DialBecomes(d, r) == dial' = [dial EXCEPT ![d] = r]
-----------------------------------------------------------------------------
\* A variant of TryPrimary: the cooldown is not looked at.
TryPrimaryAlways == TRUE

\* The primary is tried once retryAt has passed.
TryPrimary == retryLeft = 0

\* A variant of PrimaryTimeout: the attempt may use all of the caller's time.
PrimaryTimeoutWhole(budget) ==
    IF budget # NoDeadline /\ budget < Attempt THEN budget ELSE Attempt

\* Its attempt lasts at most 4 s and at most half of the caller's time.
PrimaryTimeout(budget) ==
    IF budget # NoDeadline /\ budget \div 2 < Attempt THEN budget \div 2 ELSE Attempt

StartDial(d, budget) ==
    /\ dial[d].at = "idle"
    /\ DialBecomes(d,
        [at     |-> IF TryPrimary THEN "connect" ELSE "backup",
         ctx    |-> budget,
         left   |-> IF TryPrimary THEN PrimaryTimeout(budget) ELSE 0,
         budget |-> budget])
    /\ UNCHANGED <<retryLeft, episode>>

\* The Reality client connects and shakes hands; the VLESS request that follows
\* has the attempt's deadline on its connection, and no longer the context.
RealityConnects(d) ==
    /\ dial[d].at = "connect"
    /\ DialBecomes(d, [dial[d] EXCEPT !.at = "vless"])
    /\ UNCHANGED <<retryLeft, episode>>

\* It succeeds: the cooldown is over.
PrimaryDials(d) ==
    /\ dial[d].at = "vless"
    /\ DialBecomes(d, [Idle EXCEPT !.at = "ok"])
    /\ retryLeft' = 0 /\ episode' = 0

\* It fails or times out.  With the caller's context ended the dial returns
\* its error; otherwise a cooldown starts and the backup is dialled with the
\* caller's context and no timer of its own.
PrimaryFails(d) ==
    /\ dial[d].at \in Primary
    /\ \/ /\ dial[d].ctx = 0
          /\ DialBecomes(d, [Idle EXCEPT !.at = "err"])
          /\ UNCHANGED <<retryLeft, episode>>
       \/ /\ dial[d].ctx # 0
          /\ DialBecomes(d, [dial[d] EXCEPT !.at = "backup", !.left = 0])
          /\ retryLeft' = Cooldown
          /\ episode' = IF retryLeft > 0 THEN episode ELSE 0

BackupDials(d) ==
    /\ dial[d].at = "backup"
    /\ DialBecomes(d, [Idle EXCEPT !.at = "ok"])
    /\ UNCHANGED <<retryLeft, episode>>

BackupFails(d) ==
    /\ dial[d].at = "backup"
    /\ DialBecomes(d, [Idle EXCEPT !.at = "err"])
    /\ UNCHANGED <<retryLeft, episode>>

\* The caller has the result.
DialReturns(d) == DialBecomes(d, Idle) /\ UNCHANGED <<retryLeft, episode>>

\* The caller's context is cancelled.
CancelDial(d) ==
    /\ dial[d].at \in Pending /\ dial[d].ctx # 0
    /\ DialBecomes(d, [dial[d] EXCEPT !.ctx = 0])
    /\ UNCHANGED <<retryLeft, episode>>

DialStep(d) ==
    \/ RealityConnects(d) \/ PrimaryDials(d) \/ PrimaryFails(d)
    \/ BackupDials(d) \/ BackupFails(d) \/ CancelDial(d)

\* A dial must go on before time does: the context or the timer that bounds what
\* it waits for is over.  The attempt's timer bounds the primary, the context the
\* connect and the backup.
Overdue(d) ==
    \/ dial[d].at \in Primary /\ dial[d].left = 0
    \/ dial[d].at \in {"connect", "backup"} /\ dial[d].ctx = 0

Less(n) == IF n > 0 THEN n - 1 ELSE n

RelayTick ==
    /\ \A d \in Dials : ~Overdue(d)
    /\ dial' = [d \in Dials |->
                  IF dial[d].at \in Pending
                  THEN [dial[d] EXCEPT !.ctx = Less(@), !.left = Less(@)] ELSE dial[d]]
    /\ retryLeft' = Less(retryLeft)
    /\ episode' = IF retryLeft > 1 THEN episode + 1 ELSE 0
-----------------------------------------------------------------------------
\* A cooldown lasts at most one attempt longer than it should: failures of
\* attempts that were under way when it began restart it, but no attempt
\* starts during it, so they run out (relay_fallback.go:25-52).
CooldownBounded == retryLeft > 0 => episode + retryLeft <= Cooldown + Attempt

\* A primary that answers nothing leaves the backup at least half of the time
\* the caller had, whatever its deadline (relay_fallback.go:31-35, 53).
BackupGetsHalf ==
    [][\A d \in Dials :
        dial[d].at \in Primary /\ dial'[d].at = "backup" /\ dial[d].budget # NoDeadline
            => 2 * dial'[d].ctx >= dial[d].budget]_relayVars
=============================================================================
