---------------------------- MODULE LandingProofs ----------------------------
(***************************************************************************)
(* Proofs about RelayFallback and Landing for any number of dials and      *)
(* operations, any destinations and any lengths of the timers.  The relay  *)
(* has an inductive invariant of its own; what an operation's record may   *)
(* look like is OpOK, and DialOK relates it to its dial.                   *)
(***************************************************************************)
EXTENDS Landing, TLAPS

\* An attempt under way during a cooldown began before it, so that the age of
\* the cooldown and what is left of the attempt are together at most one
\* attempt.  What is left to the caller exceeds what is left of the attempt by
\* half of what the caller had.
RelayInv ==
    /\ RelayTypeOK
    /\ CooldownBounded
    /\ \A d \in Dials : dial[d].at \in Primary =>
         /\ dial[d].left <= Attempt
         /\ retryLeft > 0 => episode + dial[d].left <= Attempt
         /\ dial[d].budget # NoDeadline =>
              /\ dial[d].ctx # NoDeadline
              /\ dial[d].ctx = 0 \/ 2 * dial[d].ctx >= 2 * dial[d].left + dial[d].budget

LEMMA Half == \A b \in Nat : b \div 2 \in Nat /\ 2 * (b \div 2) <= b
  OBVIOUS

LEMMA TimeoutOK ==
  ASSUME NEW b \in Nat \cup {NoDeadline}
  PROVE  /\ PrimaryTimeout(b) \in Nat /\ PrimaryTimeout(b) <= Attempt
         /\ b # NoDeadline => 2 * b >= 2 * PrimaryTimeout(b) + b
<1>1. CASE b # NoDeadline /\ b \div 2 < Attempt
  BY <1>1, Half, RelayAssumption DEF PrimaryTimeout, NoDeadline
<1>2. CASE ~(b # NoDeadline /\ b \div 2 < Attempt)
  <2>1. PrimaryTimeout(b) = Attempt
    BY <1>2 DEF PrimaryTimeout
  <2>2. b # NoDeadline => Attempt <= b \div 2 /\ b \div 2 \in Nat /\ 2 * (b \div 2) <= b
    BY <1>2, Half, RelayAssumption DEF NoDeadline
  <2> QED BY <2>1, <2>2, RelayAssumption DEF NoDeadline
<1> QED BY <1>1, <1>2

LEMMA RelayInitInv == RelayInit => RelayInv
<1> SUFFICES ASSUME RelayInit PROVE RelayInv
  OBVIOUS
<1>1. Idle \in DialState
  BY DEF Idle, DialState, NoDeadline
<1>2. \A d \in Dials : dial[d].at = "idle"
  BY Zenon DEF RelayInit, Idle
<1> QED BY <1>1, <1>2, RelayAssumption
        DEF RelayInit, RelayInv, RelayTypeOK, CooldownBounded, Primary

\* A step of one dial that leaves the cooldown alone.
LEMMA DialMoves ==
  ASSUME RelayInv, NEW d \in Dials, NEW n \in DialState, DialBecomes(d, n),
         UNCHANGED <<retryLeft, episode>>,
         n.at \in Primary =>
           /\ n.left <= Attempt
           /\ retryLeft > 0 => episode + n.left <= Attempt
           /\ n.budget # NoDeadline =>
                /\ n.ctx # NoDeadline
                /\ n.ctx = 0 \/ 2 * n.ctx >= 2 * n.left + n.budget
  PROVE  RelayInv'
<1>1. dial' = [dial EXCEPT ![d] = n]
  BY DEF DialBecomes
<1>2. dial' \in [Dials -> DialState]
  BY <1>1 DEF RelayInv, RelayTypeOK
<1>3. \A e \in Dials : dial'[e] = IF e = d THEN n ELSE dial[e]
  BY <1>1 DEF RelayInv, RelayTypeOK
<1> QED BY <1>2, <1>3 DEF RelayInv, RelayTypeOK, CooldownBounded

LEMMA IdleOK == \A at \in {"idle", "ok", "err"} :
                  /\ [Idle EXCEPT !.at = at] \in DialState
                  /\ [Idle EXCEPT !.at = at].at = at
                  /\ Idle \in DialState /\ Idle.at = "idle"
  BY DEF Idle, DialState, NoDeadline

LEMMA StartKeeps ==
  ASSUME RelayInv, NEW d \in Dials, NEW b \in Nat \cup {NoDeadline}, StartDial(d, b)
  PROVE  RelayInv'
<1> DEFINE n == [at     |-> IF TryPrimary THEN "connect" ELSE "backup",
                 ctx    |-> b,
                 left   |-> IF TryPrimary THEN PrimaryTimeout(b) ELSE 0,
                 budget |-> b]
<1>1. DialBecomes(d, n) /\ UNCHANGED <<retryLeft, episode>>
  BY DEF StartDial
<1>2. n \in DialState
  BY TimeoutOK, RelayAssumption DEF DialState, Pending, Primary
<1>3. n.at \in Primary => TryPrimary /\ n.left = PrimaryTimeout(b)
  BY DEF Primary
<1>4. TryPrimary => ~(retryLeft > 0)
  BY DEF TryPrimary, RelayInv, RelayTypeOK
<1> QED BY <1>1, <1>2, <1>3, <1>4, TimeoutOK, DialMoves DEF NoDeadline

LEMMA DialStepKeeps ==
  ASSUME RelayInv, NEW d \in Dials, DialStep(d) \/ DialReturns(d)
  PROVE  RelayInv'
<1> DEFINE r == dial[d]
<1>0. r \in DialState
  BY DEF RelayInv, RelayTypeOK
<1>1. CASE DialReturns(d) \/ BackupDials(d) \/ BackupFails(d)
  <2>1. PICK n \in DialState : n.at \notin Primary /\ DialBecomes(d, n)
    BY <1>1, IdleOK, Zenon DEF DialReturns, BackupDials, BackupFails, Primary
  <2> QED BY <1>1, <2>1, DialMoves DEF DialReturns, BackupDials, BackupFails
<1>2. CASE RealityConnects(d)
  <2> DEFINE n == [r EXCEPT !.at = "vless"]
  <2>1. r.at = "connect" /\ DialBecomes(d, n) /\ UNCHANGED <<retryLeft, episode>>
    BY <1>2 DEF RealityConnects
  <2>2. n \in DialState /\ n.left = r.left /\ n.ctx = r.ctx /\ n.budget = r.budget
    BY <1>0 DEF DialState, Pending, Primary
  <2> QED BY <2>1, <2>2, DialMoves, Zenon DEF RelayInv, Primary
<1>3. CASE CancelDial(d)
  <2> DEFINE n == [r EXCEPT !.ctx = 0]
  <2>1. DialBecomes(d, n) /\ UNCHANGED <<retryLeft, episode>>
    BY <1>3 DEF CancelDial
  <2>2. n \in DialState /\ n.left = r.left /\ n.ctx = 0 /\ n.budget = r.budget /\ n.at = r.at
    BY <1>0 DEF DialState
  <2>3. r.at \in Primary =>
          r.left <= Attempt /\ (retryLeft > 0 => episode + r.left <= Attempt)
    BY DEF RelayInv
  <2>4. n.ctx # NoDeadline
    BY <2>2 DEF NoDeadline
  <2> HIDE DEF n
  <2> QED BY <2>1, <2>2, <2>3, <2>4, DialMoves
<1>4. CASE PrimaryDials(d)
  <2>1. dial' = [dial EXCEPT ![d] = [Idle EXCEPT !.at = "ok"]] /\ retryLeft' = 0 /\ episode' = 0
    BY <1>4 DEF PrimaryDials, DialBecomes
  <2>2. dial' \in [Dials -> DialState]
        /\ \A e \in Dials : dial'[e].at \in Primary => dial'[e] = dial[e]
    BY <2>1, IdleOK DEF RelayInv, RelayTypeOK, Primary
  <2>3. RelayTypeOK' /\ CooldownBounded' /\ ~(retryLeft' > 0)
    BY <2>1, <2>2, RelayAssumption DEF RelayTypeOK, CooldownBounded
  <2> QED BY <2>2, <2>3 DEF RelayInv
<1>5. CASE PrimaryFails(d)
  <2>1. CASE r.ctx = 0
    <3>1. DialBecomes(d, [Idle EXCEPT !.at = "err"]) /\ UNCHANGED <<retryLeft, episode>>
      BY <1>5, <2>1 DEF PrimaryFails
    <3> QED BY <3>1, IdleOK, DialMoves, Zenon DEF Primary
  <2>2. CASE r.ctx # 0
    <3> DEFINE n == [r EXCEPT !.at = "backup", !.left = 0]
    <3>1. /\ r.at \in Primary /\ dial' = [dial EXCEPT ![d] = n] /\ retryLeft' = Cooldown
          /\ episode' = IF retryLeft > 0 THEN episode ELSE 0
      BY <1>5, <2>2 DEF PrimaryFails, DialBecomes
    <3>2. n \in DialState /\ n.at = "backup"
      BY <1>0, RelayAssumption, Zenon DEF DialState, Pending
    <3>3. dial' \in [Dials -> DialState]
          /\ \A e \in Dials : dial'[e].at \in Primary => dial'[e] = dial[e]
      BY <3>1, <3>2 DEF RelayInv, RelayTypeOK, Primary
    <3>4. r.left \in Nat /\ (retryLeft > 0 => episode + r.left <= Attempt)
      BY <1>0, <3>1 DEF RelayInv, DialState
    <3>5. episode' \in Nat /\ CooldownBounded'
      BY <3>1, <3>4, RelayAssumption DEF RelayInv, RelayTypeOK, CooldownBounded
    <3>6. \A e \in Dials : dial'[e].at \in Primary => episode' + dial'[e].left <= Attempt
      <4> SUFFICES ASSUME NEW e \in Dials, dial'[e].at \in Primary
                   PROVE  episode' + dial'[e].left <= Attempt
        OBVIOUS
      <4>1. dial'[e] = dial[e] /\ dial[e].at \in Primary /\ dial[e].left \in Nat
        BY <3>3 DEF RelayInv, RelayTypeOK, DialState
      <4>2. dial[e].left <= Attempt /\ (retryLeft > 0 => episode + dial[e].left <= Attempt)
        BY <4>1 DEF RelayInv
      <4>3. episode' = (IF retryLeft > 0 THEN episode ELSE 0) /\ Attempt \in Nat
        BY <3>1, RelayAssumption
      <4> QED BY <4>1, <4>2, <4>3
    <3>7. RelayTypeOK'
      BY <3>1, <3>3, <3>5, RelayAssumption DEF RelayTypeOK
    <3> QED BY <3>3, <3>5, <3>6, <3>7 DEF RelayInv
  <2> QED BY <2>1, <2>2
<1> QED BY <1>1, <1>2, <1>3, <1>4, <1>5 DEF DialStep

LEMMA LessOK == \A n \in Nat \cup {NoDeadline} :
                  /\ Less(n) \in Nat \cup {NoDeadline} /\ (n \in Nat => Less(n) \in Nat)
                  /\ n \in Nat /\ n # 0 => Less(n) = n - 1
                  /\ n = NoDeadline => Less(n) = NoDeadline
  BY DEF Less, NoDeadline

LEMMA RelayTickKeeps ==
  ASSUME RelayInv, RelayTick
  PROVE  RelayInv'
<1>1. \A d \in Dials :
        /\ dial[d] \in DialState
        /\ dial'[d] = IF dial[d].at \in Pending
                      THEN [dial[d] EXCEPT !.ctx = Less(@), !.left = Less(@)] ELSE dial[d]
        /\ dial[d].at \in Primary => dial[d].left # 0
  BY Zenon DEF RelayTick, Overdue, RelayInv, RelayTypeOK
<1>2. ASSUME NEW d \in Dials, dial[d].at \in Pending
      PROVE  /\ dial'[d] \in DialState
             /\ dial'[d].at = dial[d].at /\ dial'[d].budget = dial[d].budget
             /\ dial'[d].ctx = Less(dial[d].ctx) /\ dial'[d].left = Less(dial[d].left)
  <2> DEFINE r == dial[d]
             n == [r EXCEPT !.ctx = Less(@), !.left = Less(@)]
  <2>1. r \in DialState /\ dial'[d] = n
    BY <1>1, <1>2, Zenon
  <2>2. r.ctx \in Nat \cup {NoDeadline} /\ r.left \in Nat
    BY <2>1 DEF DialState
  <2>3. Less(r.ctx) \in Nat \cup {NoDeadline} /\ Less(r.left) \in Nat
    BY <2>1, <2>2, LessOK
  <2>4. n \in DialState /\ n.at = r.at /\ n.budget = r.budget /\ n.ctx = Less(r.ctx)
        /\ n.left = Less(r.left)
    BY <2>1, <2>3, Zenon DEF DialState
  <2> QED BY <2>1, <2>3, <2>4
<1>3. dial' \in [Dials -> DialState]
  <2>1. dial' = [d \in Dials |-> dial'[d]]
    BY Zenon DEF RelayTick
  <2>2. \A d \in Dials : dial'[d] \in DialState
    BY <1>1, <1>2, Zenon
  <2> QED BY <2>1, <2>2
<1>4. /\ retryLeft' = Less(retryLeft) /\ retryLeft' \in 0..Cooldown /\ episode' \in Nat
      /\ retryLeft' > 0 => retryLeft' = retryLeft - 1 /\ episode' = episode + 1
  <2>1. retryLeft' = Less(retryLeft) /\ episode' = IF retryLeft > 1 THEN episode + 1 ELSE 0
    BY Zenon DEF RelayTick
  <2>2. retryLeft \in 0..Cooldown /\ episode \in Nat /\ Cooldown \in Nat
    BY RelayAssumption DEF RelayInv, RelayTypeOK
  <2> QED BY <2>1, <2>2 DEF Less
<1>5. CooldownBounded'
  BY <1>4 DEF RelayInv, RelayTypeOK, CooldownBounded
<1>6. ASSUME NEW d \in Dials, dial'[d].at \in Primary
      PROVE  /\ dial'[d].left <= Attempt
             /\ retryLeft' > 0 => episode' + dial'[d].left <= Attempt
             /\ dial'[d].budget # NoDeadline =>
                  /\ dial'[d].ctx # NoDeadline
                  /\ dial'[d].ctx = 0 \/ 2 * dial'[d].ctx >= 2 * dial'[d].left + dial'[d].budget
  <2>1. dial[d].at \in Primary /\ dial[d].at \in Pending
    BY <1>1, <1>2, <1>6, Zenon DEF Pending
  <2>2. /\ dial[d].left \in Nat \ {0} /\ dial[d].budget \in Nat \cup {NoDeadline}
        /\ dial[d].ctx \in Nat \cup {NoDeadline}
    BY <1>1, <2>1, Zenon DEF DialState
  <2>3. dial'[d].left = dial[d].left - 1
    BY <1>2, <2>1, <2>2, LessOK
  <2>4. dial[d].budget # NoDeadline =>
          /\ dial[d].ctx \in Nat
          /\ dial[d].ctx = 0 => dial'[d].ctx = 0
          /\ dial[d].ctx # 0 => /\ dial'[d].ctx = dial[d].ctx - 1
                                /\ 2 * dial[d].ctx >= 2 * dial[d].left + dial[d].budget
    BY <1>2, <2>1, <2>2 DEF RelayInv, Less
  <2>5. dial'[d].budget # NoDeadline =>
          /\ dial'[d].ctx # NoDeadline
          /\ dial'[d].ctx = 0 \/ 2 * dial'[d].ctx >= 2 * dial'[d].left + dial'[d].budget
    BY <1>2, <2>1, <2>2, <2>3, <2>4 DEF NoDeadline
  <2>6. /\ dial'[d].left <= Attempt
        /\ retryLeft' > 0 => episode' + dial'[d].left <= Attempt
    BY <1>4, <2>1, <2>2, <2>3, RelayAssumption DEF RelayInv, RelayTypeOK
  <2> QED BY <2>5, <2>6
<1> QED BY <1>3, <1>4, <1>5, <1>6 DEF RelayInv, RelayTypeOK
-----------------------------------------------------------------------------
\* By when an association that is being set up is done with a stage.
Due(at) ==
    Handshake + (IF at \in Exchange THEN 0 ELSE IF at = "hy2" THEN Attempt
                 ELSE IF at = "connect" THEN 2 * Attempt ELSE 3 * Attempt)

\* Only the payload that had passed its check when the first Send bound the
\* association is of another origin.
StraysOK(r) ==
    /\ r.strays \in {0, 1}
    /\ r.strays = 1 => r.bound # None
    /\ r.recv = "pass" /\ Stray(r) => r.strays = 0

\* The control stream of an association is open, without a deadline, until the
\* association is closed; a Send in progress goes to the bound destination.
OpOK(r) ==
    /\ r.at \notin Association => ~r.watching /\ r.recv = "done" /\ r.sending = None
    /\ r.at \in Setup \cup {"open"} => r.conn
    /\ r.at = "open" => r.left = Off
    /\ r.at \in {"closing", "closed"} => r.ended \/ r.asked
    /\ r.sent \subseteq {r.bound}
    /\ r.sending \in {None, r.bound}
    /\ r.at \in {"dial", "direct"} => r.age = 0
    /\ r.at \in Setup => r.left \in Nat /\ r.age + r.left <= Due(r.at)
    /\ StraysOK(r)

\* An operation dials the landing through the relay in one stage and in no other.
DialOK(r, d) == r.at = "dial" <=> d.at # "idle"

LandingInv ==
    /\ RelayInv
    /\ landing \in {"http", "socks5"} /\ failOpen \in BOOLEAN
    /\ op \in [Ops -> Operation]
    /\ \A o \in Ops : OpOK(op[o]) /\ DialOK(op[o], dial[o])

LEMMA NoOpOK == NoOp \in Operation /\ OpOK(NoOp) /\ NoOp.at = "none"
<1>1. NoOp \in Operation /\ NoOp.at = "none"
  BY DEF NoOp, Operation, Off
<1>2. NoOp.sending = None /\ ~NoOp.watching /\ NoOp.recv = "done" /\ NoOp.sent = {}
      /\ NoOp.strays = 0
  BY DEF NoOp
<1> QED BY <1>1, <1>2 DEF OpOK, StraysOK, Setup, Exchange, PacketPath

LEMMA InitInv == Init => LandingInv
<1> SUFFICES ASSUME Init PROVE LandingInv
  OBVIOUS
<1>1. \A o \in Ops : op[o] = NoOp /\ dial[o].at = "idle"
  BY LandingAssumption DEF Init, RelayInit, Idle
<1>2. op \in [Ops -> Operation]
  BY NoOpOK DEF Init
<1>3. RelayInv /\ landing \in {"http", "socks5"} /\ failOpen \in BOOLEAN
  BY RelayInitInv DEF Init
<1>4. \A o \in Ops : OpOK(op[o]) /\ DialOK(op[o], dial[o])
  BY <1>1, NoOpOK DEF DialOK
<1> QED BY <1>2, <1>3, <1>4 DEF LandingInv

\* A step of one operation past its dial.
LEMMA OpMoves ==
  ASSUME LandingInv, NEW o \in Ops, NEW n \in Operation, OpOK(n), Becomes(o, n),
         op[o].at # "dial", n.at # "dial", UNCHANGED <<relayVars, config>>
  PROVE  LandingInv'
<1>1. op' = [op EXCEPT ![o] = n] /\ dial' = dial
  BY DEF Becomes, relayVars
<1>2. op' \in [Ops -> Operation] /\ \A p \in Ops : op'[p] = IF p = o THEN n ELSE op[p]
  BY <1>1 DEF LandingInv
<1>3. \A p \in Ops : OpOK(op'[p]) /\ DialOK(op'[p], dial'[p])
  BY <1>1, <1>2 DEF LandingInv, DialOK
<1>4. RelayInv'
  BY DEF LandingInv, RelayInv, RelayTypeOK, CooldownBounded, relayVars
<1> QED BY <1>2, <1>3, <1>4 DEF LandingInv, config

LEMMA SetClosedOK ==
  ASSUME NEW r \in Operation
  PROVE  LET q == SetClosed(r) IN
         /\ q \in Operation
         /\ q.at = IF r.at = "open" THEN "closing" ELSE r.at
         /\ q.conn = r.conn /\ q.left = r.left /\ q.age = r.age /\ q.ended = r.ended
         /\ q.asked = r.asked /\ q.recv = r.recv /\ q.origin = r.origin
         /\ q.bound = r.bound /\ q.sending = r.sending /\ q.sent = r.sent
         /\ q.strays = r.strays
  BY DEF SetClosed, Operation, Association

\* What an operation has received is as before, unless it has a payload more in hand.
LEMMA SameStrays ==
  ASSUME NEW r, NEW n, StraysOK(r), n.strays = r.strays, n.bound = r.bound,
         (n.recv = r.recv /\ n.origin = r.origin) \/ n.recv # "pass"
  PROVE  StraysOK(n)
  BY DEF StraysOK, Stray

\* The exchange with the landing and the opening of the packet path: each stage
\* is left before it is due.
LEMMA SetupKeeps ==
  ASSUME LandingInv, NEW o \in Ops,
         \/ Answer(o) \/ Refused(o) \/ PacketAdvances(o) \/ PacketFallsOpen(o)
         \/ PacketFails(o) \/ PacketOpens(o)
  PROVE  LandingInv'
<1> DEFINE r == op[o]
           S == {"none", "dial", "direct", "stream"} \cup Setup \cup Association
           L == Nat \cup {Off}
           R == {"wait", "check", "pass", "done"}
           T == Targets \cup {None}
           U == SUBSET Targets
<1>0. r \in Operation /\ OpOK(r) /\ UNCHANGED <<relayVars, config>> /\ r.at \in Setup
  BY Zenon DEF LandingInv, Answer, Refused, PacketAdvances, PacketFallsOpen, PacketFails,
         PacketOpens, Setup, PacketPath
<1>1. /\ Attempt \in Nat /\ Handshake \in Nat
      /\ r.age \in Nat /\ r.left \in Nat /\ r.age + r.left <= Due(r.at) /\ r.conn
  BY <1>0, RelayAssumption, LandingAssumption DEF Operation, OpOK
\* The sets of the fields matter to no step; hidden, they spare the provers.
<1>6. Operation = [at : S, udp : BOOLEAN, conn : BOOLEAN, packet : BOOLEAN, left : L, age : Nat,
                   ended : BOOLEAN, asked : BOOLEAN, watching : BOOLEAN, recv : R, origin : T,
                   sending : T, bound : T, sent : U, strays : Nat]
  BY DEF Operation
<1>7. Setup \subseteq S /\ "stream" \in S /\ "open" \in S /\ Nat \subseteq L /\ Off \in L
      /\ "wait" \in R
  BY DEF Association
<1> HIDE DEF S, L, R, T, U
\* A stage that is not due before the last one, or none.
<1>8. ASSUME NEW s \in Setup \cup {"stream"}, NEW l \in L, NEW a \in Nat,
             Becomes(o, [r EXCEPT !.at = s, !.left = l, !.age = a]),
             s \in Setup => l \in Nat /\ a + l <= Due(s)
      PROVE  LandingInv'
  <2> DEFINE n == [r EXCEPT !.at = s, !.left = l, !.age = a]
  <2>1. s \in S /\ r \in Operation
    BY <1>0, <1>7
  <2>2. n \in Operation /\ n.at = s /\ n.left = l /\ n.age = a /\ n.conn = r.conn
    BY <1>6, <2>1, Zenon
  <2>3. n.sent = r.sent /\ n.bound = r.bound /\ n.sending = r.sending
        /\ n.watching = r.watching /\ n.recv = r.recv /\ n.origin = r.origin
        /\ n.strays = r.strays
    BY <1>6, <2>1
  <2>4. Becomes(o, n)
    BY <1>8
  <2> HIDE DEF n
  <2>5. StraysOK(n)
    BY <1>0, <2>3, SameStrays DEF OpOK
  <2>6. r.at \notin Association /\ s \notin Association \cup {"dial", "direct"}
    BY <1>0 DEF Setup, Exchange, PacketPath, Association
  <2>7. OpOK(n)
    BY <1>0, <1>1, <1>8, <2>2, <2>3, <2>5, <2>6 DEF OpOK, Association
  <2>8. r.at # "dial" /\ n.at # "dial"
    BY <1>0, <2>2, <2>6 DEF Setup, Exchange, PacketPath
  <2> QED BY <1>0, <2>2, <2>4, <2>7, <2>8, OpMoves
<1>2. CASE Refused(o) \/ PacketFails(o)
  <2>1. Becomes(o, NoOp)
    BY <1>2 DEF Refused, PacketFails
  <2>2. r.at # "dial"
    BY <1>0 DEF Setup, Exchange, PacketPath
  <2> QED BY <1>0, <2>1, <2>2, NoOpOK, OpMoves
<1>3. CASE Answer(o)
  <2>1. PICK s \in NextStage(o) :
          Becomes(o, [r EXCEPT !.at = s, !.left = DeadlineAt(o, s),
                               !.age = IF s = "stream" THEN 0 ELSE @])
    BY <1>3, Zenon DEF Answer
  <2> DEFINE l == DeadlineAt(o, s)
             a == IF s = "stream" THEN 0 ELSE r.age
  <2>2. r.at \in Exchange
    BY <1>3, Zenon DEF Answer
  <2>3. s \in {"auth", "request", "address", "hy2", "connect", "socket", "stream"}
    BY <2>2 DEF NextStage, Exchange
  <2>4. l = IF s \in {"hy2", "connect"} THEN Attempt ELSE IF s = "socket" THEN 0
            ELSE IF s = "stream" THEN Off ELSE r.left
    BY <2>3 DEF DeadlineAt, PacketTimer, PacketPath
  <2>5. Becomes(o, [r EXCEPT !.at = s, !.left = l, !.age = a])
    BY <2>1
  <2>6. l \in L /\ a \in Nat /\ s \in Setup \cup {"stream"}
    BY <1>1, <1>7, <2>3, <2>4 DEF Setup, Exchange, PacketPath
  <2>7. s \in Setup => l \in Nat /\ a + l <= Due(s)
    <3>1. r.age + r.left <= Handshake
      BY <1>1, <2>2 DEF Due
    <3> QED BY <1>1, <2>3, <2>4, <3>1 DEF Due, Exchange, Setup, PacketPath
  <2> HIDE DEF l, a
  <2> QED BY <1>8, <2>5, <2>6, <2>7, Zenon
<1>4. CASE PacketAdvances(o) \/ PacketFallsOpen(o)
  <2>1. PICK s \in {"connect", "xudp", "socket"}, l \in {0, Attempt} :
          /\ Becomes(o, [r EXCEPT !.at = s, !.left = l])
          /\ \/ r.at = "hy2" /\ s = "connect" /\ l = Attempt
             \/ r.at = "connect" /\ s = "xudp" /\ l = Attempt
             \/ r.at \in {"hy2", "connect", "xudp"} /\ s = "socket" /\ l = 0
    BY <1>4, Zenon DEF PacketAdvances, PacketFallsOpen, PacketTimer
  <2>2. [r EXCEPT !.at = s, !.left = l] = [r EXCEPT !.at = s, !.left = l, !.age = r.age]
    BY <1>0, <1>6, Zenon
  <2>3. l \in L /\ l \in Nat /\ s \in Setup
    BY <1>1, <1>7 DEF Setup, PacketPath
  <2>4. r.age + l <= Due(s)
    <3>1. CASE r.at = "hy2"
      BY <1>1, <2>1, <3>1 DEF Due, Exchange
    <3>2. CASE r.at = "connect"
      BY <1>1, <2>1, <3>2 DEF Due, Exchange
    <3>3. CASE r.at = "xudp"
      BY <1>1, <2>1, <3>3 DEF Due, Exchange
    <3> QED BY <2>1, <3>1, <3>2, <3>3
  <2> QED BY <1>1, <1>8, <2>1, <2>2, <2>3, <2>4, Zenon
<1>5. CASE PacketOpens(o)
  <2> DEFINE n == [r EXCEPT !.at = "open", !.packet = TRUE, !.left = Cleared(@),
                            !.age = 0, !.watching = TRUE, !.recv = "wait"]
  <2>1. Becomes(o, n)
    BY <1>5 DEF PacketOpens
  <2>2. n \in Operation /\ n.at = "open" /\ n.left = Off /\ n.conn = r.conn
    BY <1>0, <1>6, <1>7, Zenon DEF Cleared
  <2>3. n.sent = r.sent /\ n.bound = r.bound /\ n.sending = r.sending /\ n.recv = "wait"
        /\ n.strays = r.strays
    BY <1>0, <1>6
  <2> HIDE DEF n
  <2>4. StraysOK(n)
    BY <1>0, <2>3, SameStrays DEF OpOK
  <2>5. OpOK(n)
    BY <1>0, <1>1, <2>2, <2>3, <2>4 DEF OpOK, Setup, Exchange, PacketPath, Association
  <2>6. r.at # "dial"
    BY <1>0 DEF Setup, Exchange, PacketPath
  <2> QED BY <1>0, <2>1, <2>2, <2>5, <2>6, OpMoves
<1> QED BY <1>2, <1>3, <1>4, <1>5

\* A step of an association: what it was set up with is as before.
LEMMA AssociationMoves ==
  ASSUME LandingInv, NEW o \in Ops, NEW n \in Operation, Becomes(o, n),
         UNCHANGED <<relayVars, config>>, op[o].at \in Association, n.at \in Association,
         n.at = "open" => op[o].at = "open" /\ n.conn = op[o].conn /\ n.left = op[o].left,
         n.at \in {"closing", "closed"} => n.ended \/ n.asked,
         n.sent \subseteq {n.bound}, n.sending \in {None, n.bound}, StraysOK(n)
  PROVE  LandingInv'
<1>1. OpOK(op[o])
  BY DEF LandingInv
<1>2. OpOK(n)
  BY <1>1 DEF OpOK, Setup, Exchange, PacketPath, Association
<1> QED BY <1>2, OpMoves DEF Association

\* The association, its caller, its receiver and its watcher.
LEMMA SessionKeeps ==
  ASSUME LandingInv, NEW o \in Ops,
         \/ CloseHalves(o) \/ WatcherEnds(o) \/ CallerCloses(o)
         \/ \E t \in Targets : Send(o, t)
         \/ SendEnds(o) \/ ReceiveFails(o)
  PROVE  LandingInv'
<1> DEFINE r == op[o]
           q == SetClosed(r)
<1>0. r \in Operation /\ OpOK(r) /\ UNCHANGED <<relayVars, config>> /\ r.at \in Association
      /\ StraysOK(r)
  BY Zenon DEF LandingInv, OpOK, Association, CloseHalves, WatcherEnds, CallerCloses, Send, MaySend,
         SendEnds, ReceiveFails
<1>1. /\ q \in Operation
      /\ q.at = IF r.at = "open" THEN "closing" ELSE r.at
      /\ q.ended = r.ended /\ q.asked = r.asked /\ q.recv = r.recv /\ q.origin = r.origin
      /\ q.bound = r.bound /\ q.sending = r.sending /\ q.sent = r.sent
      /\ q.strays = r.strays
  BY <1>0, SetClosedOK
<1>2. q.at \in {"closing", "closed"}
  BY <1>0, <1>1 DEF Association
<1> HIDE DEF q
<1>3. CASE CloseHalves(o)
  <2> DEFINE n == [r EXCEPT !.at = "closed", !.conn = FALSE, !.packet = FALSE]
  <2>1. r.at = "closing" /\ Becomes(o, n)
    BY <1>3 DEF CloseHalves
  <2>2. n \in Operation /\ n.at = "closed" /\ n.ended = r.ended /\ n.asked = r.asked
    BY <1>0, Zenon DEF Operation, Association
  <2>3. n.sent = r.sent /\ n.bound = r.bound /\ n.sending = r.sending /\ n.recv = r.recv
        /\ n.origin = r.origin /\ n.strays = r.strays
    BY <1>0 DEF Operation
  <2> HIDE DEF n
  <2>4. StraysOK(n)
    BY <1>0, <2>3, SameStrays
  <2> QED BY <1>0, <2>1, <2>2, <2>3, <2>4, AssociationMoves DEF OpOK, Association
<1>4. CASE WatcherEnds(o)
  <2> DEFINE n == [q EXCEPT !.watching = FALSE]
  <2>1. r.watching /\ (r.ended \/ ~r.conn \/ r.left = 0) /\ Becomes(o, n)
    BY <1>4 DEF WatcherEnds, q
  <2>2. n \in Operation /\ n.at = q.at /\ n.ended = r.ended /\ n.asked = r.asked
    BY <1>1, Zenon DEF Operation
  <2>3. n.sent = r.sent /\ n.bound = r.bound /\ n.sending = r.sending /\ n.recv = r.recv
        /\ n.origin = r.origin /\ n.strays = r.strays
    BY <1>1 DEF Operation
  <2> HIDE DEF n
  <2>4. r.ended \/ r.asked
    BY <1>0, <2>1 DEF OpOK, Off, Association
  <2>5. StraysOK(n)
    BY <1>0, <2>3, SameStrays
  <2> QED BY <1>0, <1>2, <2>1, <2>2, <2>3, <2>4, <2>5, AssociationMoves DEF OpOK, Association
<1>5. CASE CallerCloses(o) \/ ReceiveFails(o)
  <2>1. PICK rec \in {r.recv, "done"} : Becomes(o, [q EXCEPT !.recv = rec, !.asked = TRUE])
    <3>1. CASE CallerCloses(o)
      <4>1. Becomes(o, [q EXCEPT !.asked = TRUE])
        BY <3>1 DEF CallerCloses, q
      <4>2. [q EXCEPT !.asked = TRUE] = [q EXCEPT !.recv = r.recv, !.asked = TRUE]
        BY <1>1, Zenon DEF Operation
      <4> QED BY <4>1, <4>2
    <3>2. CASE ReceiveFails(o)
      BY <3>2 DEF ReceiveFails, q
    <3> QED BY <1>5, <3>1, <3>2
  <2> DEFINE n == [q EXCEPT !.recv = rec, !.asked = TRUE]
  <2>2. rec \in {"wait", "check", "pass", "done"}
    BY <1>0 DEF Operation
  <2>3. n \in Operation /\ n.at = q.at /\ n.asked
    BY <1>1, <2>2, Zenon DEF Operation
  <2>4. n.sent = r.sent /\ n.bound = r.bound /\ n.sending = r.sending /\ n.recv = rec
        /\ n.origin = r.origin /\ n.strays = r.strays
    BY <1>1 DEF Operation
  <2>5. Becomes(o, n)
    BY <2>1
  <2> HIDE DEF n
  <2>6. StraysOK(n)
    BY <1>0, <2>4, SameStrays
  <2> QED BY <1>0, <1>2, <2>3, <2>4, <2>5, <2>6, AssociationMoves DEF OpOK, Association
<1>6. ASSUME NEW t \in Targets, Send(o, t) PROVE LandingInv'
  <2> DEFINE n == [r EXCEPT !.bound = t, !.sending = t]
  <2>1. r.at = "open" /\ r.bound \in {None, t} /\ Becomes(o, n)
    BY <1>6, Zenon DEF Send, MaySend
  <2>2. n \in Operation /\ n.at = r.at /\ n.conn = r.conn /\ n.left = r.left
    BY <1>0, Zenon DEF Operation
  <2>3. n.sent = r.sent /\ n.bound = t /\ n.sending = t /\ n.recv = r.recv
        /\ n.origin = r.origin /\ n.strays = r.strays
    BY <1>0 DEF Operation
  <2> HIDE DEF n
  <2>4. r.sent \subseteq {t} /\ t # None
    <3>1. r.sent \subseteq Targets /\ r.sent \subseteq {r.bound}
      BY <1>0 DEF Operation, OpOK
    <3> QED BY <2>1, <3>1, LandingAssumption
  <2>5. StraysOK(n)
    BY <1>0, <2>1, <2>3, <2>4 DEF StraysOK, Stray
  <2> QED BY <1>0, <2>1, <2>2, <2>3, <2>4, <2>5, AssociationMoves DEF Association
<1>7. CASE SendEnds(o)
  <2>0. r.sending # None /\ r.sending = r.bound
    BY <1>0, <1>7 DEF SendEnds, OpOK
  <2>1. CASE Becomes(o, [r EXCEPT !.sending = None, !.sent = @ \cup {r.sending}])
    <3> DEFINE n == [r EXCEPT !.sending = None, !.sent = @ \cup {r.sending}]
    <3>1. n \in Operation /\ n.at = r.at /\ n.conn = r.conn /\ n.left = r.left
          /\ n.ended = r.ended /\ n.asked = r.asked
      BY <1>0, <2>0, Zenon DEF Operation
    <3>2. n.sent = r.sent \cup {r.sending} /\ n.bound = r.bound /\ n.sending = None
          /\ n.recv = r.recv /\ n.origin = r.origin /\ n.strays = r.strays
      BY <1>0 DEF Operation
    <3>3. Becomes(o, n)
      BY <2>1
    <3> HIDE DEF n
    <3>4. StraysOK(n)
      BY <1>0, <3>2, SameStrays
    <3> QED BY <1>0, <2>0, <3>1, <3>2, <3>3, <3>4, AssociationMoves DEF OpOK, Association
  <2>2. CASE Becomes(o, [q EXCEPT !.sending = None, !.asked = TRUE])
    <3> DEFINE n == [q EXCEPT !.sending = None, !.asked = TRUE]
    <3>1. n \in Operation /\ n.at = q.at /\ n.asked
      BY <1>1, Zenon DEF Operation
    <3>2. n.sent = r.sent /\ n.bound = r.bound /\ n.sending = None
          /\ n.recv = r.recv /\ n.origin = r.origin /\ n.strays = r.strays
      BY <1>1 DEF Operation
    <3>3. Becomes(o, n)
      BY <2>2
    <3> HIDE DEF n
    <3>4. StraysOK(n)
      BY <1>0, <3>2, SameStrays
    <3> QED BY <1>0, <1>2, <3>1, <3>2, <3>3, <3>4, AssociationMoves DEF OpOK, Association
  <2> QED BY <1>7, <2>1, <2>2 DEF SendEnds, q
<1> QED BY <1>3, <1>4, <1>5, <1>6, <1>7

\* Receive: a payload is stray only when it had passed its check before the
\* association was bound.
LEMMA ReceiveKeeps ==
  ASSUME LandingInv, NEW o \in Ops,
         (\E t \in Targets : Arrives(o, t)) \/ Checks(o) \/ Delivers(o)
  PROVE  LandingInv'
<1> DEFINE r == op[o]
<1>0. r \in Operation /\ OpOK(r) /\ UNCHANGED <<relayVars, config>> /\ r.at \in Association
      /\ StraysOK(r) /\ r.strays \in Nat
  BY Zenon DEF LandingInv, OpOK, Arrives, Checks, Delivers, Operation
<1>1. ASSUME NEW rec \in {"wait", "check", "pass", "done"}, NEW t \in Targets \cup {None},
             NEW k \in Nat, Becomes(o, [r EXCEPT !.recv = rec, !.origin = t, !.strays = k]),
             k \in {0, 1}, k = 1 => r.bound # None,
             rec # "pass" \/ ~(r.bound \in Numeric /\ t # r.bound)
      PROVE  LandingInv'
  <2> DEFINE n == [r EXCEPT !.recv = rec, !.origin = t, !.strays = k]
  <2>1. n \in Operation /\ n.at = r.at /\ n.conn = r.conn /\ n.left = r.left
        /\ n.ended = r.ended /\ n.asked = r.asked
    BY <1>0, Zenon DEF Operation
  <2>2. n.sent = r.sent /\ n.bound = r.bound /\ n.sending = r.sending /\ n.recv = rec
        /\ n.origin = t /\ n.strays = k
    BY <1>0 DEF Operation
  <2>3. Becomes(o, n)
    BY <1>1
  <2> HIDE DEF n
  <2>4. StraysOK(n)
    BY <1>1, <2>2 DEF StraysOK, Stray
  <2> QED BY <1>0, <2>1, <2>2, <2>3, <2>4, AssociationMoves DEF OpOK, Association
<1>2. /\ \A rec, t : [r EXCEPT !.recv = rec, !.origin = t]
                     = [r EXCEPT !.recv = rec, !.origin = t, !.strays = r.strays]
      /\ \A rec : [r EXCEPT !.recv = rec]
                  = [r EXCEPT !.recv = rec, !.origin = r.origin, !.strays = r.strays]
  BY <1>0, Zenon DEF Operation
<1>3. r.strays \in {0, 1} /\ (r.strays = 1 => r.bound # None) /\ r.origin \in Targets \cup {None}
  BY <1>0 DEF StraysOK, Operation
<1>4. CASE \E t \in Targets : Arrives(o, t)
  <2>1. PICK t \in Targets : Becomes(o, [r EXCEPT !.recv = "check", !.origin = t])
    BY <1>4, Zenon DEF Arrives
  <2>2. Becomes(o, [r EXCEPT !.recv = "check", !.origin = t, !.strays = r.strays])
    BY <1>2, <2>1, Zenon
  <2> QED BY <1>0, <1>1, <1>3, <2>2, Zenon
<1>5. CASE Checks(o)
  <2>1. \/ Becomes(o, [r EXCEPT !.recv = "done", !.origin = None])
        \/ Becomes(o, [r EXCEPT !.recv = "wait", !.origin = None])
        \/ Becomes(o, [r EXCEPT !.recv = "pass"]) /\ ~Stray(r)
    BY <1>5 DEF Checks
  <2>2. ASSUME NEW rec \in {"done", "wait"}, Becomes(o, [r EXCEPT !.recv = rec, !.origin = None])
        PROVE  LandingInv'
    <3>1. Becomes(o, [r EXCEPT !.recv = rec, !.origin = None, !.strays = r.strays])
      BY <1>2, <2>2, Zenon
    <3> QED BY <1>0, <1>1, <1>3, <3>1, Zenon
  <2>3. CASE Becomes(o, [r EXCEPT !.recv = "pass"]) /\ ~Stray(r)
    <3>1. Becomes(o, [r EXCEPT !.recv = "pass", !.origin = r.origin, !.strays = r.strays])
      BY <1>2, <2>3, Zenon
    <3> QED BY <1>0, <1>1, <1>3, <2>3, <3>1, Zenon DEF Stray
  <2> QED BY <2>1, <2>2, <2>3
<1>6. CASE Delivers(o)
  <2> DEFINE k == IF Stray(r) THEN r.strays + 1 ELSE r.strays
  <2>1. r.recv = "pass" /\ Becomes(o, [r EXCEPT !.recv = "wait", !.origin = None, !.strays = k])
    BY <1>6 DEF Delivers
  <2>2. k \in {0, 1} /\ k \in Nat /\ (k = 1 => r.bound # None)
    BY <1>0, <2>1, LandingAssumption DEF StraysOK, Stray
  <2> HIDE DEF k
  <2> QED BY <1>1, <2>1, <2>2, Zenon
<1> QED BY <1>4, <1>5, <1>6

\* The landing ends a control stream, or an operation is over.
LEMMA EndsKeep ==
  ASSUME LandingInv, NEW o \in Ops, ControlEnds(o) \/ Over(o)
  PROVE  LandingInv'
<1> DEFINE r == op[o]
<1>1. CASE ControlEnds(o)
  <2> DEFINE n == [r EXCEPT !.ended = TRUE]
  <2>1. r.at \in PacketPath \cup {"open"} /\ Becomes(o, n) /\ UNCHANGED <<relayVars, config>>
        /\ r \in Operation /\ OpOK(r)
    BY <1>1 DEF ControlEnds, LandingInv
  <2>2. n \in Operation /\ n.at = r.at /\ n.conn = r.conn /\ n.left = r.left /\ n.age = r.age
    BY <2>1, Zenon DEF Operation
  <2>3. n.sent = r.sent /\ n.bound = r.bound /\ n.sending = r.sending /\ n.recv = r.recv
        /\ n.origin = r.origin /\ n.strays = r.strays /\ n.watching = r.watching
    BY <2>1 DEF Operation
  <2> HIDE DEF n
  <2>4. StraysOK(n)
    BY <2>1, <2>3, SameStrays DEF OpOK
  <2>5. r.at \notin {"dial", "closing", "closed"}
    BY <2>1 DEF PacketPath
  <2>6. OpOK(n)
    BY <2>1, <2>2, <2>3, <2>4, <2>5 DEF OpOK
  <2> QED BY <2>1, <2>2, <2>5, <2>6, OpMoves
<1>2. CASE Over(o)
  BY <1>2, NoOpOK, OpMoves DEF Over
<1> QED BY <1>1, <1>2

\* An operation and its dial.
LEMMA StandingOK ==
  ASSUME NEW r \in Operation, OpOK(r), r.at \in {"dial", "direct"}
  PROVE  Standing(r) \in Operation /\ OpOK(Standing(r)) /\ Standing(r).at # "dial"
<1> DEFINE s == IF landing = "http" THEN "request" ELSE "greeting"
           n == [r EXCEPT !.at = s, !.conn = TRUE, !.left = Handshake]
<1>1. Standing(r) = n /\ s \in {"request", "greeting"}
  BY DEF Standing
<1> HIDE DEF s
<1>2. s \in Setup /\ s \in Exchange /\ Handshake \in Nat
  BY <1>1, LandingAssumption DEF Setup, Exchange
<1>3. n \in Operation /\ n.at = s /\ n.conn /\ n.left = Handshake /\ n.age = r.age
  BY <1>2, Zenon DEF Operation
<1>4. n.sent = r.sent /\ n.bound = r.bound /\ n.sending = r.sending /\ n.recv = r.recv
      /\ n.origin = r.origin /\ n.strays = r.strays /\ n.watching = r.watching
  BY DEF Operation
<1> HIDE DEF n
<1>5. StraysOK(n)
  BY <1>4, SameStrays DEF OpOK
<1>6. n.age = 0 /\ n.age + n.left <= Due(s)
  BY <1>2, <1>3 DEF OpOK, Due
<1>7. OpOK(n)
  BY <1>1, <1>2, <1>3, <1>4, <1>5, <1>6 DEF OpOK, Association
<1> QED BY <1>1, <1>3, <1>7

\* An operation that is about to dial.
LEMMA BegunOK ==
  ASSUME NEW at \in {"dial", "direct"}, NEW udp \in BOOLEAN
  PROVE  LET n == [NoOp EXCEPT !.at = at, !.udp = udp]
         IN  n \in Operation /\ OpOK(n) /\ n.at = at
<1> DEFINE n == [NoOp EXCEPT !.at = at, !.udp = udp]
<1>1. n \in Operation
  BY NoOpOK, Zenon DEF Operation
<1>2. n.at = at /\ n.age = 0 /\ n.sending = None /\ ~n.watching /\ n.recv = "done"
      /\ n.sent = {} /\ n.strays = 0
  BY DEF NoOp
<1> HIDE DEF n
<1>3. OpOK(n)
  BY <1>2 DEF OpOK, StraysOK, Setup, Exchange, PacketPath, Association
<1> QED BY <1>1, <1>2, <1>3 DEF n

LEMMA BeginKeeps ==
  ASSUME LandingInv, NEW o \in Ops, NEW udp \in BOOLEAN, Begin(o, udp)
  PROVE  LandingInv'
<1> DEFINE n(at) == [NoOp EXCEPT !.at = at, !.udp = udp]
<1>0. op[o].at = "none" /\ UNCHANGED config /\ o \in Dials
  BY LandingAssumption DEF Begin
<1>1. CASE Becomes(o, n("direct")) /\ UNCHANGED relayVars
  <2>1. n("direct") \in Operation /\ OpOK(n("direct")) /\ n("direct").at = "direct"
    BY BegunOK, Zenon
  <2> HIDE DEF n
  <2> QED BY <1>0, <1>1, <2>1, OpMoves
<1>2. CASE StartDial(o, NoDeadline) /\ Becomes(o, n("dial"))
  <2>1. n("dial") \in Operation /\ OpOK(n("dial")) /\ n("dial").at = "dial"
    BY BegunOK, Zenon
  <2> HIDE DEF n
  <2>2. RelayInv'
    BY <1>0, <1>2, StartKeeps, Zenon DEF LandingInv
  <2>3. \E d : dial' = [dial EXCEPT ![o] = d] /\ d.at # "idle"
    <3> DEFINE d == [at     |-> IF TryPrimary THEN "connect" ELSE "backup",
                     ctx    |-> NoDeadline,
                     left   |-> IF TryPrimary THEN PrimaryTimeout(NoDeadline) ELSE 0,
                     budget |-> NoDeadline]
    <3>1. dial' = [dial EXCEPT ![o] = d]
      BY <1>2 DEF StartDial, DialBecomes
    <3>2. d.at # "idle"
      OBVIOUS
    <3> HIDE DEF d
    <3> QED BY <3>1, <3>2, Zenon
  <2>4. dial'[o].at # "idle" /\ \A p \in Ops : p # o => dial'[p] = dial[p]
    BY <1>0, <2>3, LandingAssumption DEF LandingInv, RelayInv, RelayTypeOK
  <2>5. op' \in [Ops -> Operation] /\ op'[o] = n("dial")
        /\ \A p \in Ops : p # o => op'[p] = op[p]
    BY <1>2, <2>1 DEF LandingInv, Becomes
  <2>6. \A p \in Ops : OpOK(op'[p]) /\ DialOK(op'[p], dial'[p])
    BY <2>1, <2>4, <2>5 DEF LandingInv, DialOK
  <2> QED BY <1>0, <2>2, <2>5, <2>6 DEF LandingInv, config
<1> QED BY <1>1, <1>2 DEF Begin

LEMMA DialledKeeps ==
  ASSUME LandingInv, NEW o \in Ops, Dialled(o) \/ DialFailed(o) \/ DirectEnds(o)
  PROVE  LandingInv'
<1> DEFINE r == op[o]
<1>1. r \in Operation /\ OpOK(r) /\ o \in Dials /\ UNCHANGED config
  BY LandingAssumption DEF LandingInv, Dialled, DialFailed, DirectEnds
<1>2. CASE DirectEnds(o)
  <2>1. r.at = "direct" /\ (Becomes(o, Standing(r)) \/ Becomes(o, NoOp)) /\ UNCHANGED relayVars
    BY <1>2 DEF DirectEnds
  <2> QED BY <1>1, <2>1, StandingOK, NoOpOK, OpMoves
<1>3. CASE Dialled(o) \/ DialFailed(o)
  <2>1. r.at = "dial" /\ DialReturns(o)
    BY <1>3 DEF Dialled, DialFailed
  <2>2. \E n \in Operation : OpOK(n) /\ n.at # "dial" /\ op' = [op EXCEPT ![o] = n]
    <3>1. CASE Dialled(o)
      BY <1>1, <2>1, <3>1, StandingOK, Zenon DEF Dialled, Becomes
    <3>2. CASE DialFailed(o)
      <4> DEFINE n == [r EXCEPT !.at = "direct"]
      <4>1. op' = [op EXCEPT ![o] = n] \/ op' = [op EXCEPT ![o] = NoOp]
        BY <3>2, Zenon DEF DialFailed, Becomes
      <4>2. n \in Operation /\ n.at = "direct" /\ n.age = r.age
        BY <1>1 DEF Operation
      <4>3. n.sent = r.sent /\ n.bound = r.bound /\ n.sending = r.sending /\ n.recv = r.recv
            /\ n.origin = r.origin /\ n.strays = r.strays /\ n.watching = r.watching
        BY <1>1 DEF Operation
      <4> HIDE DEF n
      <4>4. StraysOK(n)
        BY <1>1, <4>3, SameStrays DEF OpOK
      <4>5. OpOK(n)
        BY <1>1, <2>1, <4>2, <4>3, <4>4
           DEF OpOK, Setup, Exchange, PacketPath, Association
      <4> QED BY <4>1, <4>2, <4>5, NoOpOK
    <3> QED BY <1>3, <3>1, <3>2
  <2>3. PICK n \in Operation : OpOK(n) /\ n.at # "dial" /\ op' = [op EXCEPT ![o] = n]
    BY <2>2, Zenon
  <2>4. RelayInv' /\ dial' = [dial EXCEPT ![o] = Idle]
    BY <1>1, <2>1, DialStepKeeps, Zenon DEF LandingInv, DialReturns, DialBecomes
  <2>5. dial'[o].at = "idle" /\ op'[o] = n /\ op' \in [Ops -> Operation]
        /\ \A p \in Ops : p # o => dial'[p] = dial[p] /\ op'[p] = op[p]
    BY <1>1, <2>3, <2>4, IdleOK, LandingAssumption DEF LandingInv, RelayInv, RelayTypeOK
  <2> QED BY <1>1, <2>3, <2>4, <2>5 DEF LandingInv, DialOK, config
<1> QED BY <1>2, <1>3

\* A dial moves: the landing's operation, if it has one, goes on waiting.
LEMMA DialsKeep ==
  ASSUME LandingInv, NEW d \in Dials, UNCHANGED <<config, op>>,
         DialStep(d) \/ (d \notin Ops /\ (OtherBegins(d) \/ OtherReturns(d)))
  PROVE  LandingInv'
<1>0. dial \in [Dials -> DialState] /\ dial[d] \in DialState
  BY DEF LandingInv, RelayInv, RelayTypeOK
<1>1. RelayInv'
  BY StartKeeps, DialStepKeeps, RelayAssumption
     DEF LandingInv, OtherBegins, OtherReturns
<1>2. PICK n : dial' = [dial EXCEPT ![d] = n]
  BY DEF OtherBegins, OtherReturns, StartDial, DialReturns, DialStep, RealityConnects,
         PrimaryDials, PrimaryFails, BackupDials, BackupFails, CancelDial, DialBecomes
<1>3. dial'[d] = n /\ \A p \in Ops : p # d => dial'[p] = dial[p]
  BY <1>0, <1>2, LandingAssumption
<1>4. DialStep(d) => dial[d].at # "idle" /\ n.at # "idle"
  <2> SUFFICES ASSUME DialStep(d) PROVE dial[d].at # "idle" /\ n.at # "idle"
    OBVIOUS
  <2>1. dial[d].at \in Pending
    BY DEF DialStep, RealityConnects, PrimaryDials, PrimaryFails, BackupDials, BackupFails,
           CancelDial, Pending, Primary
  <2>2. \/ n = [dial[d] EXCEPT !.at = "vless"] \/ n = [dial[d] EXCEPT !.ctx = 0]
        \/ n = [dial[d] EXCEPT !.at = "backup", !.left = 0]
        \/ n = [Idle EXCEPT !.at = "ok"] \/ n = [Idle EXCEPT !.at = "err"]
    BY <1>0, <1>3 DEF DialStep, RealityConnects, PrimaryDials, PrimaryFails, BackupDials,
                      BackupFails, CancelDial, DialBecomes
  <2>3. /\ [dial[d] EXCEPT !.at = "vless"].at = "vless"
        /\ [dial[d] EXCEPT !.ctx = 0].at = dial[d].at
        /\ [dial[d] EXCEPT !.at = "backup", !.left = 0].at = "backup"
    BY <1>0 DEF DialState
  <2> QED BY <2>1, <2>2, <2>3, IdleOK, Zenon DEF Pending, Primary
<1>5. d \in Ops => DialOK(op[d], n)
  BY <1>4 DEF LandingInv, DialOK
<1> QED BY <1>1, <1>3, <1>5 DEF LandingInv, config

\* Time passes for every operation and dial at once.
LEMMA TickKeeps ==
  ASSUME LandingInv, Tick
  PROVE  LandingInv'
<1>1. RelayInv'
  BY RelayTickKeeps, Zenon DEF LandingInv, Tick
<1>2. \A o \in Ops :
        op'[o] = [op[o] EXCEPT !.left = Less(@),
                               !.age = IF op[o].at \in Setup THEN @ + 1 ELSE @]
  BY Zenon DEF Tick
<1>3. ASSUME NEW o \in Ops
      PROVE  op'[o] \in Operation /\ OpOK(op'[o]) /\ DialOK(op'[o], dial'[o])
  <2> DEFINE r == op[o]
             l == Less(r.left)
             a == IF r.at \in Setup THEN r.age + 1 ELSE r.age
             n == [r EXCEPT !.left = l, !.age = a]
  <2>1. r \in Operation /\ OpOK(r) /\ DialOK(r, dial[o]) /\ op'[o] = n
        /\ r.age \in Nat /\ r.left \in Nat \cup {Off}
    BY <1>2, Zenon DEF LandingInv, Operation
  <2>2. /\ l \in Nat \cup {Off} /\ a \in Nat
        /\ r.left = Off => l = Off
        /\ r.left \in Nat /\ r.left # 0 => l = r.left - 1 /\ l \in Nat
        /\ r.at \in Setup => a = r.age + 1
        /\ r.at \notin Setup => a = r.age
    BY <2>1 DEF Less, Off
  <2> HIDE DEF l, a
  <2>3. n \in Operation /\ n.at = r.at /\ n.left = l /\ n.age = a /\ n.conn = r.conn
        /\ n.ended = r.ended /\ n.asked = r.asked
    BY <2>1, <2>2, Zenon DEF Operation
  <2>4. n.sent = r.sent /\ n.bound = r.bound /\ n.sending = r.sending /\ n.recv = r.recv
        /\ n.origin = r.origin /\ n.strays = r.strays /\ n.watching = r.watching
    BY <2>1 DEF Operation
  <2> HIDE DEF n
  <2>5. StraysOK(n)
    BY <2>1, <2>4, SameStrays DEF OpOK
  <2>6. r.at \in Setup => n.left \in Nat /\ n.age + n.left <= Due(n.at)
    <3> SUFFICES ASSUME r.at \in Setup
                 PROVE  n.left \in Nat /\ n.age + n.left <= Due(n.at)
      OBVIOUS
    <3>1. r.left # 0
      BY Zenon DEF Tick
    <3>2. r.left \in Nat /\ r.age + r.left <= Due(r.at)
      BY <2>1 DEF OpOK
    <3>3. n.left = r.left - 1 /\ n.left \in Nat /\ n.age = r.age + 1
      BY <2>2, <2>3, <3>1, <3>2
    <3>4. n.age + n.left = r.age + r.left
      BY <2>1, <3>2, <3>3
    <3> QED BY <2>3, <3>2, <3>3, <3>4
  <2>7. r.at \in {"dial", "direct"} => n.age = r.age
    BY <2>2, <2>3 DEF Setup, Exchange, PacketPath
  <2>8. OpOK(n)
    BY <2>1, <2>2, <2>3, <2>4, <2>5, <2>6, <2>7 DEF OpOK
  <2>9. dial'[o].at = dial[o].at
    <3>1. dial'[o] = IF dial[o].at \in Pending
                     THEN [dial[o] EXCEPT !.ctx = Less(@), !.left = Less(@)] ELSE dial[o]
      BY LandingAssumption, Zenon DEF Tick, RelayTick
    <3>2. dial[o] \in DialState
      BY LandingAssumption DEF LandingInv, RelayInv, RelayTypeOK
    <3> QED BY <3>1, <3>2 DEF DialState
  <2> QED BY <2>1, <2>3, <2>8, <2>9 DEF DialOK
<1>4. op' = [o \in Ops |-> op'[o]] /\ UNCHANGED config
  BY Zenon DEF Tick
<1>5. op' \in [Ops -> Operation]
  BY <1>3, <1>4
<1> QED BY <1>1, <1>3, <1>4, <1>5 DEF LandingInv, config

LEMMA Step == LandingInv /\ [Next]_vars => LandingInv'
<1> SUFFICES ASSUME LandingInv, [Next]_vars PROVE LandingInv'
  OBVIOUS
<1>1. ASSUME NEW o \in Ops, OpStep(o) PROVE LandingInv'
  BY <1>1, BeginKeeps, DialledKeeps, SetupKeeps, SessionKeeps, ReceiveKeeps, EndsKeep DEF OpStep
<1>2. CASE UNCHANGED vars
  BY <1>2 DEF LandingInv, RelayInv, RelayTypeOK, CooldownBounded, vars, relayVars, config
<1> QED BY <1>1, <1>2, DialsKeep, TickKeeps DEF Next
-----------------------------------------------------------------------------
\* Every reachable state has its type (landing/udp.go:34-85,
\* relay_fallback.go:25-63).
THEOREM TypeCorrect == Spec => []TypeOK
<1>1. LandingInv => TypeOK
  BY DEF LandingInv, RelayInv, TypeOK
<1> QED BY <1>1, InitInv, Step, PTL DEF Spec

\* A cooldown is over after its length and one attempt, however many dials
\* fail in it (relay_fallback.go:25-52).
THEOREM CooldownCorrect == Spec => []CooldownBounded
<1>1. LandingInv => CooldownBounded
  BY DEF LandingInv, RelayInv
<1> QED BY <1>1, InitInv, Step, PTL DEF Spec

\* The backup gets half of the caller's time, whatever the deadline
\* (relay_fallback.go:31-35, 53).
THEOREM BackupCorrect == Spec => BackupGetsHalf
<1> DEFINE Gets == \A d \in Dials :
                     dial[d].at \in Primary /\ dial'[d].at = "backup"
                       /\ dial[d].budget # NoDeadline
                         => 2 * dial'[d].ctx >= dial[d].budget
<1>1. LandingInv /\ [Next]_vars => [Gets]_relayVars
  <2> SUFFICES ASSUME LandingInv, Next, NEW d \in Dials, dial[d].at \in Primary,
                      dial'[d].at = "backup", dial[d].budget # NoDeadline
               PROVE  2 * dial'[d].ctx >= dial[d].budget
    BY DEF vars
  <2>0. /\ dial[d] \in DialState /\ dial[d].left \in Nat /\ dial[d].budget \in Nat
        /\ dial[d].ctx \in Nat /\ dial \in [Dials -> DialState]
        /\ dial[d].ctx = 0 \/ 2 * dial[d].ctx >= 2 * dial[d].left + dial[d].budget
    BY DEF LandingInv, RelayInv, RelayTypeOK, DialState
  <2>1. CASE PrimaryFails(d)
    <3>1. dial[d].ctx # 0 /\ dial'[d] = [dial[d] EXCEPT !.at = "backup", !.left = 0]
      BY <2>0, <2>1, IdleOK, Zenon DEF PrimaryFails, DialBecomes
    <3>2. dial'[d].ctx = dial[d].ctx
      BY <2>0, <3>1 DEF DialState
    <3> QED BY <2>0, <3>1, <3>2
  <2>2. ASSUME NEW e \in Dials, NEW n, dial' = [dial EXCEPT ![e] = n],
               e = d => n.at # "backup"
        PROVE  FALSE
    BY <2>0, <2>2 DEF Primary
  <2>3. ASSUME NEW e \in Dials, DialStep(e), ~PrimaryFails(d) PROVE FALSE
    <3>1. CASE e = d
      <4>1. \/ dial' = [dial EXCEPT ![d] = [dial[d] EXCEPT !.at = "vless"]]
            \/ dial' = [dial EXCEPT ![d] = [Idle EXCEPT !.at = "ok"]]
            \/ dial' = [dial EXCEPT ![d] = [dial[d] EXCEPT !.ctx = 0]]
        BY <2>3, <3>1 DEF DialStep, RealityConnects, PrimaryDials, BackupDials, BackupFails,
                          CancelDial, DialBecomes, Primary
      <4>2. /\ [dial[d] EXCEPT !.at = "vless"].at = "vless"
            /\ [dial[d] EXCEPT !.ctx = 0].at = dial[d].at
        BY <2>0 DEF DialState
      <4> QED BY <2>2, <4>1, <4>2, IdleOK, Zenon DEF Primary
    <3>2. CASE e # d
      <4>1. \E n : dial' = [dial EXCEPT ![e] = n]
        BY <2>3 DEF DialStep, RealityConnects, PrimaryDials, PrimaryFails, BackupDials,
                    BackupFails, CancelDial, DialBecomes
      <4> QED BY <2>2, <3>2, <4>1, Zenon
    <3> QED BY <3>1, <3>2
  <2>4. ASSUME NEW e \in Dials,
               \/ \E b : StartDial(e, b)
               \/ dial[e].at \in {"ok", "err"} /\ DialReturns(e)
        PROVE  FALSE
    <3>1. e # d /\ \E n : dial' = [dial EXCEPT ![e] = n]
      BY <2>4 DEF StartDial, DialReturns, DialBecomes, Primary
    <3> QED BY <2>2, <3>1, Zenon
  <2>5. CASE Tick
    <3>1. dial'[d] = [dial[d] EXCEPT !.ctx = Less(@), !.left = Less(@)]
      BY <2>5, Zenon DEF Tick, RelayTick, Pending
    <3>2. dial'[d].at = dial[d].at
      BY <2>0, <3>1 DEF DialState
    <3> QED BY <3>2 DEF Primary
  <2>6. ASSUME NEW o \in Ops, OpStep(o) PROVE FALSE
    <3>1. \/ \E b : StartDial(o, b)
          \/ dial[o].at \in {"ok", "err"} /\ DialReturns(o)
          \/ dial' = dial
      BY <2>6, Zenon DEF OpStep, Begin, Dialled, DialFailed, DirectEnds, Answer, Refused,
                  PacketAdvances, PacketFallsOpen, PacketFails, PacketOpens, CloseHalves,
                  ControlEnds, WatcherEnds, CallerCloses, Send, Arrives, SendEnds, Checks,
                  Delivers, ReceiveFails, Over, relayVars
    <3> QED BY <2>4, <3>1, LandingAssumption DEF Primary
  <2>7. ASSUME NEW e \in Dials, OtherBegins(e) \/ OtherReturns(e) PROVE FALSE
    BY <2>4, <2>7 DEF OtherBegins, OtherReturns
  <2> QED BY <2>1, <2>3, <2>5, <2>6, <2>7 DEF Next
<1> QED BY <1>1, InitInv, Step, PTL DEF Spec, BackupGetsHalf

\* Setting up an association whose control stream stands holds its reader up for a
\* bounded time, whatever the landing and the relays answer
\* (landing/udp.go:34-85, socks5.go:24-88).
THEOREM SetupCorrect == Spec => []SetupBounded
<1>1. LandingInv => SetupBounded
  <2> SUFFICES ASSUME LandingInv, NEW o \in Ops, op[o].at \in Setup
               PROVE  op[o].age <= Handshake + 3 * Attempt
    BY DEF SetupBounded
  <2>1. /\ Attempt \in Nat /\ Handshake \in Nat /\ op[o].age \in Nat
        /\ op[o].left \in Nat /\ op[o].age + op[o].left <= Due(op[o].at)
    BY RelayAssumption, LandingAssumption DEF LandingInv, Operation, OpOK
  <2>2. Due(op[o].at) <= Handshake + 3 * Attempt /\ Due(op[o].at) \in Nat
    BY <2>1 DEF Due
  <2> QED BY <2>1, <2>2
<1> QED BY <1>1, InitInv, Step, PTL DEF Spec

\* An association sends to the destination it is bound to and no other, and of
\* another origin than a numeric one it returns at most the payload that had passed
\* its check before the first Send (landing/udp.go:166-223).
THEOREM DestinationCorrect == Spec => []OneDestination
<1>1. LandingInv => OneDestination
  BY DEF LandingInv, OneDestination, OpOK, StraysOK
<1> QED BY <1>1, InitInv, Step, PTL DEF Spec

\* The core does not cut an association by itself (landing/udp.go:76-83).
THEOREM KeptOpenCorrect == Spec => []KeptOpen
<1>1. LandingInv => KeptOpen
  BY DEF LandingInv, KeptOpen, OpOK
<1> QED BY <1>1, InitInv, Step, PTL DEF Spec
=============================================================================
