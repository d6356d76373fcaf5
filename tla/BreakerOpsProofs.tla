-------------------------- MODULE BreakerOpsProofs --------------------------
(***************************************************************************)
(* Lemmas about the methods of one breaker: what they return for every     *)
(* breaker, permit, clock reading, threshold and recovery interval.        *)
(***************************************************************************)
EXTENDS BreakerOps, TLAPS

(* The names of the three states. *)
LEMMA StateNames ==
  /\ "closed" \in CircuitStates /\ "open" \in CircuitStates
  /\ "half_open" \in CircuitStates
  /\ \A s \in CircuitStates : s = "closed" \/ s = "open" \/ s = "half_open"
BY DEF CircuitStates

(* The fields of a breaker. *)
LEMMA BreakerFields ==
  ASSUME NEW b \in Breaker
  PROVE  /\ b.state \in CircuitStates /\ b.failures \in Nat
         /\ b.openedUntil \in Nat /\ b.generation \in Nat
         /\ b.lastObserved \in Nat
         /\ b.lastObserved + RecoveryTimeout \in Nat
         /\ b.generation + 1 \in Nat /\ b.failures + 1 \in Nat
BY BreakerPolicyAssumption DEF Breaker

(* A fresh breaker, and no permit, have their types. *)
LEMMA NewBreakerType ==
  ASSUME NEW now \in Nat
  PROVE  NewBreaker(now) \in Breaker /\ NoPermit \in Permit
BY StateNames DEF NewBreaker, NoPermit, Breaker, Permit

(* _observe changes nothing but the time, and never turns it back. *)
LEMMA ObserveFacts ==
  ASSUME NEW b \in Breaker, NEW now \in Nat
  PROVE  LET o == Observe(b, now) IN
         /\ o \in Breaker
         /\ o.state = b.state /\ o.failures = b.failures
         /\ o.generation = b.generation /\ o.openedUntil = b.openedUntil
         /\ o.lastObserved >= b.lastObserved
BY DEF Observe, Breaker

(* _open starts a full interval in a new generation. *)
LEMMA OpenedFacts ==
  ASSUME NEW b \in Breaker
  PROVE  LET o == Opened(b) IN
         /\ o \in Breaker
         /\ o.state = "open" /\ o.generation = b.generation + 1
         /\ o.failures = b.failures /\ o.lastObserved = b.lastObserved
         /\ o.openedUntil = b.lastObserved + RecoveryTimeout
BY StateNames, BreakerFields DEF Opened, Breaker

(* acquire keeps the generation of a closed breaker, begins a new one with *)
(* the probe, and hands out a permit of the generation it leaves behind.   *)
LEMMA AcquireFacts ==
  ASSUME NEW b \in Breaker, NEW now \in Nat
  PROVE  LET a == Acquire(b, now)
             g == Granted(b, now)
         IN  /\ a \in Breaker
             /\ a.failures = b.failures
             /\ a.lastObserved >= b.lastObserved
             /\ b.state = "open" /\ Elapsed(b, now) =>
                  /\ a.state = "half_open"
                  /\ a.generation = b.generation + 1
             /\ ~(b.state = "open" /\ Elapsed(b, now)) =>
                  a.state = b.state /\ a.generation = b.generation
             /\ g \in Permit
             /\ g.generation = a.generation
             /\ g.probe = (b.state = "open")
<1> DEFINE o == Observe(b, now)
<1>1. /\ o \in Breaker
      /\ o.state = b.state /\ o.failures = b.failures
      /\ o.generation = b.generation
      /\ o.lastObserved >= b.lastObserved
  BY ObserveFacts
<1> HIDE DEF o
<1>2. Granted(b, now) \in Permit <=> Acquire(b, now).generation \in Nat \cup {-1}
  BY DEF Granted, Permit
<1>3. /\ Granted(b, now).generation = Acquire(b, now).generation
      /\ Granted(b, now).probe = (b.state = "open")
  BY DEF Granted
<1>4. CASE b.state = "open" /\ Elapsed(b, now)
  <2>1. Acquire(b, now) = [o EXCEPT !.state = "half_open", !.generation = o.generation + 1]
    BY <1>4 DEF Acquire, o
  <2>2. o.generation + 1 \in Nat
    BY <1>1, BreakerFields
  <2>3. /\ Acquire(b, now) \in Breaker
        /\ Acquire(b, now).state = "half_open"
        /\ Acquire(b, now).generation = b.generation + 1
        /\ Acquire(b, now).failures = b.failures
        /\ Acquire(b, now).lastObserved >= b.lastObserved
    BY <1>1, <2>1, <2>2, StateNames DEF Breaker
  <2> QED BY <1>2, <1>3, <1>4, <2>3, BreakerFields
<1>5. CASE ~(b.state = "open" /\ Elapsed(b, now))
  <2>1. Acquire(b, now) = o
    BY <1>5 DEF Acquire, o
  <2> QED BY <1>1, <1>2, <1>3, <1>5, <2>1, BreakerFields
<1> QED BY <1>4, <1>5

(***************************************************************************)
(* What an outcome does to a breaker.  A permit of another generation has  *)
(* no effect; a current ordinary permit resets or raises the streak, and   *)
(* opens the breaker at the threshold; a current probe always ends the     *)
(* half-open period.  Every change of state begins a new generation.       *)
(***************************************************************************)
LEMMA SettleFacts ==
  ASSUME NEW b \in Breaker, NEW p \in Permit, NEW now \in Nat, NEW outcome \in Outcomes
  PROVE  LET s == Settle(b, p, outcome, now) IN
         /\ s \in Breaker
         /\ s.lastObserved >= b.lastObserved
         /\ ~PermitIsCurrent(b, p) =>
              s = [b EXCEPT !.lastObserved = s.lastObserved]
         /\ PermitIsCurrent(b, p) /\ outcome = "succeed" /\ ~p.probe =>
              s.state = "closed" /\ s.generation = b.generation /\ s.failures = 0
         /\ PermitIsCurrent(b, p) /\ outcome = "succeed" /\ p.probe =>
              s.state = "closed" /\ s.generation = b.generation + 1 /\ s.failures = 0
         /\ PermitIsCurrent(b, p) /\ outcome = "fail" =>
              /\ s.failures = b.failures + (IF p.probe THEN 0 ELSE 1)
              /\ Trips(b, p) => /\ s.state = "open"
                                /\ s.generation = b.generation + 1
                                /\ s.openedUntil = s.lastObserved + RecoveryTimeout
              /\ ~Trips(b, p) => s.state = b.state /\ s.generation = b.generation
         /\ PermitIsCurrent(b, p) /\ outcome = "abandon" /\ ~p.probe =>
              s = [b EXCEPT !.lastObserved = s.lastObserved]
         /\ PermitIsCurrent(b, p) /\ outcome = "abandon" /\ p.probe =>
              /\ s.state = "open" /\ s.generation = b.generation + 1
              /\ s.failures = b.failures /\ s.openedUntil = s.lastObserved
<1> DEFINE o == Observe(b, now)
<1>1. /\ o \in Breaker
      /\ o.state = b.state /\ o.failures = b.failures
      /\ o.generation = b.generation /\ o.openedUntil = b.openedUntil
      /\ o.lastObserved >= b.lastObserved
  BY ObserveFacts
<1>2. o = [b EXCEPT !.lastObserved = o.lastObserved]
  BY DEF Observe, Breaker
<1>3. /\ b = [b EXCEPT !.lastObserved = b.lastObserved]
      /\ b.lastObserved >= b.lastObserved
  BY DEF Breaker
<1> DEFINE s == Settle(b, p, outcome, now)
<1> HIDE DEF o
<1>4. CASE ~PermitIsCurrent(b, p)
  <2>1. s = b \/ s = o
    BY <1>4 DEF Settle, Outcomes, Succeed, Fail, Abandon, o
  <2> QED BY <1>1, <1>2, <1>3, <1>4, <2>1
<1>5. CASE PermitIsCurrent(b, p)
  <2>1. p # NoPermit
    BY <1>5, BreakerFields DEF PermitIsCurrent, NoPermit
  <2>2. CASE outcome = "succeed"
    <3>1. s = IF p.probe
              THEN [o EXCEPT !.state = "closed", !.generation = o.generation + 1,
                             !.failures = 0]
              ELSE [o EXCEPT !.failures = 0]
      BY <1>5, <2>1, <2>2 DEF Settle, Succeed, o
    <3>2. o.generation + 1 \in Nat /\ 0 \in Nat /\ "closed" \in CircuitStates
      BY <1>1, BreakerFields, StateNames
    <3>3. s \in Breaker
      BY <1>1, <3>1, <3>2 DEF Breaker
    <3>4. s.failures = 0 /\ s.lastObserved = o.lastObserved
      BY <1>1, <3>1 DEF Breaker
    <3>5. p.probe => s.state = "closed" /\ s.generation = b.generation + 1
      BY <1>1, <3>1 DEF Breaker
    <3>6. ~p.probe => s.state = b.state /\ s.generation = b.generation
      BY <1>1, <3>1 DEF Breaker
    <3>7. ~p.probe => b.state = "closed"
      BY <1>5 DEF PermitIsCurrent
    <3> QED BY <1>1, <1>5, <2>2, <3>3, <3>4, <3>5, <3>6, <3>7
  <2>3. CASE outcome = "fail"
    <3> DEFINE c == [o EXCEPT !.failures = IF p.probe THEN @ ELSE @ + 1]
    <3>1. s = IF Trips(b, p) THEN Opened(c) ELSE c
      BY <1>5, <2>1, <2>3 DEF Settle, Fail, o
    <3>2. (IF p.probe THEN o.failures ELSE o.failures + 1) \in Nat
      BY <1>1, BreakerFields
    <3>3. /\ c \in Breaker
          /\ c.state = b.state /\ c.generation = b.generation
          /\ c.lastObserved = o.lastObserved
          /\ c.failures = b.failures + (IF p.probe THEN 0 ELSE 1)
      BY <1>1, <3>2, BreakerFields DEF Breaker
    <3> HIDE DEF c
    <3>4. /\ Opened(c) \in Breaker
          /\ Opened(c).state = "open" /\ Opened(c).generation = c.generation + 1
          /\ Opened(c).failures = c.failures
          /\ Opened(c).lastObserved = c.lastObserved
          /\ Opened(c).openedUntil = c.lastObserved + RecoveryTimeout
      BY <3>3, OpenedFacts
    <3>5. CASE Trips(b, p)
      <4>1. s = Opened(c)
        BY <3>1, <3>5
      <4> QED BY <1>1, <1>5, <2>3, <3>3, <3>4, <3>5, <4>1
    <3>6. CASE ~Trips(b, p)
      <4>1. s = c
        BY <3>1, <3>6
      <4> QED BY <1>1, <1>5, <2>3, <3>3, <3>6, <4>1
    <3> QED BY <3>5, <3>6
  <2>4. CASE outcome = "abandon"
    <3>1. s = IF p.probe
              THEN [o EXCEPT !.state = "open", !.openedUntil = o.lastObserved,
                             !.generation = o.generation + 1]
              ELSE o
      BY <1>5, <2>1, <2>4 DEF Settle, Abandon, o
    <3>2. o.generation + 1 \in Nat /\ o.lastObserved \in Nat /\ "open" \in CircuitStates
      BY <1>1, BreakerFields, StateNames
    <3>3. CASE p.probe
      <4>1. /\ s \in Breaker
            /\ s.state = "open" /\ s.generation = b.generation + 1
            /\ s.failures = b.failures /\ s.lastObserved = o.lastObserved
            /\ s.openedUntil = o.lastObserved
        BY <1>1, <3>1, <3>2, <3>3 DEF Breaker
      <4> QED BY <1>1, <1>5, <2>4, <3>3, <4>1
    <3>4. CASE ~p.probe
      <4>1. s = o
        BY <3>1, <3>4
      <4> QED BY <1>1, <1>2, <1>5, <2>4, <3>4, <4>1
    <3> QED BY <3>3, <3>4
  <2> QED BY <2>2, <2>3, <2>4 DEF Outcomes
<1> QED BY <1>4, <1>5

(* reset closes the breaker and begins a new generation. *)
LEMMA ResetFacts ==
  ASSUME NEW b \in Breaker, NEW now \in Nat
  PROVE  LET r == Reset(b, now) IN
         /\ r \in Breaker
         /\ r.state = "closed" /\ r.failures = 0
         /\ r.generation = b.generation + 1
         /\ r.lastObserved >= b.lastObserved
<1> DEFINE o == Observe(b, now)
<1>1. o \in Breaker /\ o.generation = b.generation /\ o.lastObserved >= b.lastObserved
  BY ObserveFacts
<1>2. o.generation + 1 \in Nat /\ 0 \in Nat /\ "closed" \in CircuitStates
  BY <1>1, BreakerFields, StateNames
<1>3. Reset(b, now) = [o EXCEPT !.state = "closed", !.failures = 0, !.openedUntil = 0,
                                !.generation = o.generation + 1]
  BY DEF Reset
<1> HIDE DEF o
<1> QED BY <1>1, <1>2, <1>3 DEF Breaker
=============================================================================
