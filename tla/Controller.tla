----------------------------- MODULE Controller -----------------------------
(***************************************************************************)
(* The fail-open state machine of internal/failover: after enough failures *)
(* of the relay new connections leave directly for a cooldown, and after   *)
(* enough successes they use the relay again.  One controller is shared by *)
(* every goroutine that dials; its mutex makes each method one step.       *)
(*                                                                         *)
(* Time is relative: the code compares time.Now() with deadlines only, so  *)
(* a deadline is kept as the time left until it, and Elapse lets one unit  *)
(* of time pass.                                                           *)
(***************************************************************************)
EXTENDS Integers

CONSTANTS
    FailureThreshold,   \* cfg.Failures as configured
    SuccessThreshold,   \* cfg.Successes as configured
    Cooldown            \* cfg.Cooldown, in units of time

ASSUME ControllerAssumption ==
    /\ FailureThreshold \in Int
    /\ SuccessThreshold \in Int
    /\ Cooldown \in Nat

\* New: a threshold below one means one.
Failures == IF FailureThreshold < 1 THEN 1 ELSE FailureThreshold
Successes == IF SuccessThreshold < 1 THEN 1 ELSE SuccessThreshold

VARIABLES
    mode,           \* c.mode
    failures,       \* c.failures
    successes,      \* c.successes
    cooldownLeft,   \* c.until - now, 0 once until has passed
    (* History, read by properties only. *)
    okStreak,       \* successes recorded since the last failure, up to Successes
    quiet           \* time since the last recorded failure, up to Cooldown

controllerVars ==
    <<mode, failures, successes, cooldownLeft, okStreak, quiet>>

Modes == {"Proxy", "DirectCooldown", "DirectRecovery"}

ControllerTypeOK ==
    /\ mode \in Modes
    /\ failures \in 0..Failures
    /\ successes \in 0..Successes
    /\ cooldownLeft \in 0..Cooldown
    /\ okStreak \in 0..Successes
    /\ quiet \in 0..Cooldown

ControllerInit ==
    /\ mode = "Proxy"
    /\ failures = 0
    /\ successes = 0
    /\ cooldownLeft = 0
    /\ okStreak = 0
    /\ quiet = Cooldown
-----------------------------------------------------------------------------
\* The mode a call made now sees: a cooldown that is over is a recovery.
CurrentMode ==
    IF mode = "DirectCooldown" /\ cooldownLeft = 0 THEN "DirectRecovery" ELSE mode

\* Mode() stores what it returns.
ReadMode ==
    /\ mode' = CurrentMode
    /\ UNCHANGED <<failures, successes, cooldownLeft, okStreak, quiet>>

UpTo(n, max) == IF n < max THEN n ELSE max

\* Failures are counted in proxy mode only.
Counted == IF mode = "Proxy" THEN failures + 1 ELSE failures

\* A failure trips at the threshold, and restarts the cooldown out of proxy
\* mode; a faulty one lets one more failure pass.
TripsLate == mode # "Proxy" \/ failures >= Failures
Trips == mode # "Proxy" \/ failures + 1 >= Failures

RecordFailure ==
    /\ successes' = 0
    /\ failures' = Counted
    /\ IF Trips
       THEN mode' = "DirectCooldown" /\ cooldownLeft' = Cooldown
       ELSE UNCHANGED <<mode, cooldownLeft>>
    /\ okStreak' = 0
    /\ quiet' = 0

\* Whether one more success ends the recovery; a faulty one ends it early.
RecoveredEarly == successes + 2 >= Successes
Recovered == successes + 1 >= Successes

\* A success counts in recovery only; in proxy mode it leaves the failures
\* counted so far as they are.
RecordSuccess ==
    /\ IF CurrentMode = "DirectRecovery"
       THEN IF Recovered
            THEN mode' = "Proxy" /\ failures' = 0 /\ successes' = 0
            ELSE mode' = "DirectRecovery" /\ successes' = successes + 1 /\ UNCHANGED failures
       ELSE UNCHANGED <<mode, failures, successes>>
    /\ okStreak' = UpTo(okStreak + 1, Successes)
    /\ UNCHANGED <<cooldownLeft, quiet>>

Elapse ==
    /\ cooldownLeft' = IF cooldownLeft > 0 THEN cooldownLeft - 1 ELSE 0
    /\ quiet' = UpTo(quiet + 1, Cooldown)
    /\ UNCHANGED <<mode, failures, successes, okStreak>>
=============================================================================
