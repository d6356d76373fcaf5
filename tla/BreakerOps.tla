----------------------------- MODULE BreakerOps -----------------------------
(***************************************************************************)
(* The data of _CircuitBreaker and _CircuitPermit (runtime.py:114-234) and *)
(* its methods, each as a function from a breaker record to the record the *)
(* method leaves behind.  A method body runs under the breaker's lock, so  *)
(* one application of an operator below is one atomic step.                *)
(*                                                                         *)
(* `now` is the argument the caller read from the monotonic clock before   *)
(* it got the lock: it may be older than what the breaker saw last.        *)
(***************************************************************************)
EXTENDS Integers

CONSTANTS
  FailureThreshold,   \* ToolCircuitBreaker.failure_threshold
  RecoveryTimeout     \* ToolCircuitBreaker.recovery_timeout_seconds, in ticks

ASSUME BreakerPolicyAssumption ==
  /\ FailureThreshold \in Nat \ {0}
  /\ RecoveryTimeout \in Nat \ {0}

CircuitStates == {"closed", "open", "half_open"}

Breaker == [state        : CircuitStates,
            failures     : Nat,
            openedUntil  : Nat,
            generation   : Nat,
            lastObserved : Nat]

Permit == [generation : Nat \cup {-1}, probe : BOOLEAN]

(* The `None` of _CircuitAttempt: no breaker ever has its generation. *)
NoPermit == [generation |-> -1, probe |-> FALSE]

NewBreaker(now) == [state        |-> "closed",
                    failures     |-> 0,
                    openedUntil  |-> 0,
                    generation   |-> 0,
                    lastObserved |-> now]

ObserveLast(b, now) ==                 \* mutant: a late reading turns time back
  [b EXCEPT !.lastObserved = now]

Observe(b, now) ==
  [b EXCEPT !.lastObserved = IF now > @ THEN now ELSE @]

StateMatches(b, p) ==                  \* mutant: the generation is not compared
  b.state = (IF p.probe THEN "half_open" ELSE "closed")

PermitIsCurrent(b, p) ==
  /\ p.generation = b.generation
  /\ b.state = (IF p.probe THEN "half_open" ELSE "closed")

Opened(b) == [b EXCEPT !.state       = "open",
                       !.openedUntil = b.lastObserved + RecoveryTimeout,
                       !.generation  = @ + 1]

(***************************************************************************)
(* acquire: a closed breaker grants an ordinary permit; an open one whose  *)
(* interval has elapsed becomes half open and grants the single probe.     *)
(***************************************************************************)
Elapsed(b, now) == Observe(b, now).lastObserved >= b.openedUntil

Admits(b, now) ==
  \/ b.state = "closed"
  \/ b.state = "open" /\ Elapsed(b, now)

Acquire(b, now) ==
  IF b.state = "open" /\ Elapsed(b, now)
  THEN [Observe(b, now) EXCEPT !.state = "half_open", !.generation = @ + 1]
  ELSE Observe(b, now)

Granted(b, now) == [generation |-> Acquire(b, now).generation,
                    probe      |-> b.state = "open"]

(* The outcome of a protected execution, applied to a permit it was given. *)
SucceedOnce(b, p, now) ==              \* mutant: the failure counter is not reset
  LET o == Observe(b, now)
  IN  IF PermitIsCurrent(b, p) /\ p.probe
      THEN [o EXCEPT !.state = "closed", !.generation = @ + 1, !.failures = 0]
      ELSE o

SucceedUnclosed(b, p, now) ==          \* mutant: a good probe does not close
  IF PermitIsCurrent(b, p) THEN [Observe(b, now) EXCEPT !.failures = 0]
  ELSE Observe(b, now)

Succeed(b, p, now) ==
  LET o == Observe(b, now)
  IN  IF ~PermitIsCurrent(b, p) THEN o
      ELSE IF p.probe
      THEN [o EXCEPT !.state = "closed", !.generation = @ + 1, !.failures = 0]
      ELSE [o EXCEPT !.failures = 0]

(* fail returns whether the circuit opened. *)
Trips(b, p) ==
  /\ PermitIsCurrent(b, p)
  /\ p.probe \/ b.failures + 1 >= FailureThreshold

Fail(b, p, now) ==
  LET o == Observe(b, now)
      c == [o EXCEPT !.failures = IF p.probe THEN @ ELSE @ + 1]
  IN  IF ~PermitIsCurrent(b, p) THEN o
      ELSE IF Trips(b, p) THEN Opened(c) ELSE c

AbandonSilently(b, p, now) == Observe(b, now)   \* mutant: the probe is kept

Abandon(b, p, now) ==
  LET o == Observe(b, now)
  IN  IF PermitIsCurrent(b, p) /\ p.probe
      THEN [o EXCEPT !.state = "open", !.openedUntil = o.lastObserved,
                     !.generation = @ + 1]
      ELSE o

Reset(b, now) == [Observe(b, now) EXCEPT !.state       = "closed",
                                         !.failures    = 0,
                                         !.openedUntil = 0,
                                         !.generation  = @ + 1]

(***************************************************************************)
(* _CircuitAttempt forwards an outcome only when it still holds a permit.  *)
(***************************************************************************)
Outcomes == {"succeed", "fail", "abandon"}

Settle(b, p, outcome, now) ==
  IF p = NoPermit THEN b
  ELSE CASE outcome = "succeed" -> Succeed(b, p, now)
         [] outcome = "fail"    -> Fail(b, p, now)
         [] outcome = "abandon" -> Abandon(b, p, now)
=============================================================================
