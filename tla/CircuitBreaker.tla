--------------------------- MODULE CircuitBreaker ---------------------------
(***************************************************************************)
(* One circuit breaker under concurrent invocations (runtime.py:122-278).  *)
(*                                                                         *)
(* Every invocation owns a _CircuitAttempt.  Two parties may settle it:    *)
(* the host coroutine (on the event loop, after a result, a timeout or a   *)
(* cancellation) and, for a synchronous tool, the worker thread that ran   *)
(* the function.  Each first takes the permit out of the attempt, under    *)
(* the attempt's lock, and then reports to the breaker, under the          *)
(* breaker's lock; other threads run between the two.                      *)
(***************************************************************************)
EXTENDS BreakerOps, FiniteSets

CONSTANTS
  Invocations,        \* calls of ToolRuntime.invoke on one registration
  SyncInvocations,    \* those whose tool runs in a worker thread
  MaxTime,            \* bound: the clock reads 0 .. MaxTime
  ResetGenerations    \* bound: the generations that a manual reset may end

ASSUME InvocationsAssumption ==
  /\ IsFiniteSet(Invocations)
  /\ SyncInvocations \subseteq Invocations
  /\ MaxTime \in Nat
  /\ ResetGenerations \subseteq Nat

VARIABLES
  breaker,   \* the _CircuitBreaker
  held,      \* where each invocation's permit is: in its attempt, or already
             \* taken out by the host or by the worker
  doing,     \* the outcome that each party is about to report
  stage,     \* how far each invocation has come
  thread,    \* the worker thread of a synchronous invocation
  charged    \* history: the invocations whose failures make up the streak

vars == <<breaker, held, doing, stage, thread, charged>>

Parties == {"host", "worker"}
Places  == {"attempt"} \cup Parties
Stages  == {"new", "admitted", "refused", "executing", "settled", "escaped"}
Threads == {"none", "running", "recording", "done"}

Clock == 0 .. MaxTime

TypeOK ==
  /\ breaker \in Breaker
  /\ held \in [Invocations -> [Places -> Permit]]
  /\ doing \in [Invocations -> [Parties -> Outcomes \cup {"nothing"}]]
  /\ stage \in [Invocations -> Stages]
  /\ thread \in [Invocations -> Threads]
  /\ charged \subseteq Invocations

Init ==
  /\ breaker = NewBreaker(0)
  /\ held = [i \in Invocations |-> [w \in Places |-> NoPermit]]
  /\ doing = [i \in Invocations |-> [w \in Parties |-> "nothing"]]
  /\ stage = [i \in Invocations |-> "new"]
  /\ thread = [i \in Invocations |-> "none"]
  /\ charged = {}

(* Host coroutines share one event loop: no two are inside a call at once. *)
LoopFree == \A i \in Invocations : doing[i]["host"] = "nothing"

-----------------------------------------------------------------------------
(* _CircuitAttempt.acquire: a refused caller never gets a permit. *)
AcquireGranted(i, now) ==
  /\ LoopFree /\ stage[i] = "new"
  /\ Admits(breaker, now)
  /\ breaker' = Acquire(breaker, now)
  /\ held' = [held EXCEPT ![i]["attempt"] = Granted(breaker, now)]
  /\ stage' = [stage EXCEPT ![i] = "admitted"]
  /\ UNCHANGED <<doing, thread, charged>>

AcquireRefused(i, now) ==
  /\ LoopFree /\ stage[i] = "new"
  /\ ~Admits(breaker, now)
  /\ breaker' = Observe(breaker, now)
  /\ stage' = [stage EXCEPT ![i] = "settled"]
  /\ UNCHANGED <<held, doing, thread, charged>>

(* _CircuitAttempt.validate, once the queued call has its capacity. *)
Validate(i, now) ==
  /\ LoopFree /\ stage[i] = "admitted"
  /\ breaker' = Observe(breaker, now)
  /\ IF PermitIsCurrent(breaker, held[i]["attempt"])
     THEN /\ stage' = [stage EXCEPT ![i] = "executing"]
          /\ thread' = [thread EXCEPT ![i] = IF i \in SyncInvocations
                                             THEN "running" ELSE "none"]
     ELSE /\ stage' = [stage EXCEPT ![i] = "refused"]
          /\ UNCHANGED thread
  /\ UNCHANGED <<held, doing, charged>>

(* _CircuitAttempt._take: whoever comes second finds no permit. *)
Copy(i, w, outcome) ==                 \* mutant: the attempt keeps its permit
  /\ held' = [held EXCEPT ![i][w] = held[i]["attempt"]]
  /\ doing' = [doing EXCEPT ![i][w] = outcome]

Take(i, w, outcome) ==
  /\ held' = [held EXCEPT ![i] = [@ EXCEPT !["attempt"] = NoPermit,
                                           ![w] = held[i]["attempt"]]]
  /\ doing' = [doing EXCEPT ![i][w] = outcome]

(* The breaker method that follows _take, and the streak it leaves. *)
Streak(i, p, outcome) ==
  IF ~PermitIsCurrent(breaker, p) THEN charged
  ELSE CASE outcome = "succeed" -> {}
         [] outcome = "fail"    -> charged \cup {i}
         [] outcome = "abandon" -> charged

Report(i, w, now) ==
  /\ doing[i][w] # "nothing"
  /\ breaker' = Settle(breaker, held[i][w], doing[i][w], now)
  /\ charged' = Streak(i, held[i][w], doing[i][w])
  /\ held' = [held EXCEPT ![i][w] = NoPermit]
  /\ doing' = [doing EXCEPT ![i][w] = "nothing"]

(***************************************************************************)
(* The host settles when the execution has ended, timed out ("fail") or    *)
(* was cancelled or refused ("abandon").  Only an asynchronous execution   *)
(* reports its success from the event loop; the host of a synchronous one  *)
(* can give up at any time while the thread runs on.                       *)
(***************************************************************************)
HostOutcomes(i) ==
  CASE stage[i] = "refused"   -> {"abandon"}
    [] stage[i] = "admitted"  -> {"fail", "abandon"}
    [] stage[i] = "executing" -> IF thread[i] = "running" THEN {"fail", "abandon"}
                                                          ELSE Outcomes
    [] OTHER                  -> {}

HostTakes(i) ==
  /\ LoopFree
  /\ \E outcome \in HostOutcomes(i) : Take(i, "host", outcome)
  /\ stage' = [stage EXCEPT ![i] = "settled"]
  /\ UNCHANGED <<breaker, thread, charged>>

(***************************************************************************)
(* The join of a cancelled caller (lines 669-676) suppresses only          *)
(* CancelledError: when the execution ended with another exception (a      *)
(* failure, a rate rejection, a refused revalidation), that exception      *)
(* leaves invoke and abandon is skipped.  Nobody settles for the host.     *)
(***************************************************************************)
HostEscapes(i) ==
  /\ LoopFree
  /\ stage[i] \in {"refused", "executing"}
  /\ stage' = [stage EXCEPT ![i] = "escaped"]
  /\ UNCHANGED <<breaker, held, doing, thread, charged>>

HostReports(i) ==
  /\ \E now \in Clock : Report(i, "host", now)
  /\ UNCHANGED <<stage, thread>>

(* _sync_circuit_finished, in the worker thread. *)
WorkerTakes(i) ==
  /\ thread[i] = "running"
  /\ \E outcome \in Outcomes : Take(i, "worker", outcome)
  /\ thread' = [thread EXCEPT ![i] = "recording"]
  /\ UNCHANGED <<breaker, stage, charged>>

WorkerReports(i) ==
  /\ \E now \in Clock : Report(i, "worker", now)
  /\ thread' = [thread EXCEPT ![i] = "done"]
  /\ UNCHANGED stage

(* reset_circuit invalidates every outstanding permit. *)
ResetCircuit(now) ==
  /\ LoopFree
  /\ breaker.generation \in ResetGenerations
  /\ breaker' = Reset(breaker, now)
  /\ charged' = {}
  /\ UNCHANGED <<held, doing, stage, thread>>

(* Nothing is left to do: every call has ended and no thread runs. *)
Quiescent ==
  /\ \A i \in Invocations : /\ stage[i] \in {"settled", "escaped"}
                            /\ thread[i] \in {"none", "done"}
                            /\ doing[i]["host"] = "nothing"
  /\ UNCHANGED vars

Next ==
  \/ \E i \in Invocations :
       \/ \E now \in Clock : \/ AcquireGranted(i, now)
                             \/ AcquireRefused(i, now)
                             \/ Validate(i, now)
       \/ HostTakes(i) \/ HostEscapes(i) \/ HostReports(i)
       \/ WorkerTakes(i) \/ WorkerReports(i)
  \/ \E now \in Clock : ResetCircuit(now)
  \/ Quiescent

(***************************************************************************)
(* A host always has a finite timeout, so its call ends; it may end by an  *)
(* exception that settles nothing.  Code that took a permit runs on to     *)
(* report it.  Nothing promises that a worker thread ever finishes.        *)
(***************************************************************************)
Fairness == \A i \in Invocations : /\ WF_vars(HostTakes(i) \/ HostEscapes(i))
                                   /\ WF_vars(HostReports(i))
                                   /\ WF_vars(WorkerReports(i))

Spec == Init /\ [][Next]_vars
FairSpec == Spec /\ Fairness
-----------------------------------------------------------------------------
CurrentProbe(p) == PermitIsCurrent(breaker, p) /\ p.probe

(* The invocations and places that hold the half-open probe. *)
ProbeHolders ==
  {h \in Invocations \X Places : CurrentProbe(held[h[1]][h[2]])}

(***************************************************************************)
(* A half-open breaker waits for exactly one probe, and that probe is      *)
(* always in an attempt or in the hands of who took it: it is neither      *)
(* admitted twice nor lost on the way from the one to the other.           *)
(* (acquire, _take, abandon: "reserves exactly one half-open probe")       *)
(***************************************************************************)
ExactlyOneProbe ==
  /\ breaker.state = "half_open" => ProbeHolders # {}
  /\ \A g, h \in ProbeHolders : g = h

(***************************************************************************)
(* While closed, the failure counter is the number of different            *)
(* invocations that failed since the last success or reset: one invocation *)
(* is never charged twice, by its host and by its worker.  The breaker is  *)
(* closed exactly while that streak is shorter than the threshold.         *)
(***************************************************************************)
ChargedOnce ==
  /\ breaker.state = "closed" => breaker.failures = Cardinality(charged)
  /\ breaker.state = "closed" <=> breaker.failures < FailureThreshold

(***************************************************************************)
(* A failure that opens the circuit buys a whole recovery interval from    *)
(* the latest time the breaker knows, even when the failing thread read    *)
(* the clock long before it got the lock.                                  *)
(***************************************************************************)
FullRecovery ==
  [][\A i \in Invocations, w \in Parties :
       /\ doing[i][w] = "fail" /\ doing'[i][w] = "nothing"
       /\ breaker.state # "open" /\ breaker'.state = "open"
       => breaker'.openedUntil >= breaker.lastObserved + RecoveryTimeout]_vars

(***************************************************************************)
(* An outcome that arrives after a trip, a reset or a finished probe is    *)
(* ignored: the breaker only learns the time.                              *)
(***************************************************************************)
LateOutcomesIgnored ==
  [][\A i \in Invocations, w \in Parties :
       /\ doing[i][w] # "nothing" /\ doing'[i][w] = "nothing"
       /\ held[i][w].generation # breaker.generation
       => [breaker' EXCEPT !.lastObserved = breaker.lastObserved] = breaker]_vars

(***************************************************************************)
(* The dependency is shielded: an execution starts only while the breaker  *)
(* is closed, or as the half-open probe itself; a call that queued before  *)
(* a trip does not start after it, even if the breaker closed again.       *)
(***************************************************************************)
ShieldedDependency ==
  [][\A i \in Invocations :
       stage[i] = "admitted" /\ stage'[i] = "executing"
       => /\ breaker.state # "open"
          /\ held[i]["attempt"].generation = breaker.generation
          /\ breaker.state = "half_open" => ProbeHolders = {<<i, "attempt">>}]_vars

(***************************************************************************)
(* A half-open circuit is decided, whatever the probe's thread does, unless *)
(* the host of the probe itself escapes with the permit in its attempt:    *)
(* no other call, no late outcome and no race of two parties leaves it     *)
(* half open.  (That exception is real: see ToolRuntime's ProbeNotStuck.)  *)
(***************************************************************************)
ProbeEscaped ==
  \E i \in Invocations : stage[i] = "escaped" /\ CurrentProbe(held[i]["attempt"])

HalfOpenResolves ==
  breaker.state = "half_open" ~> breaker.state # "half_open" \/ ProbeEscaped

(***************************************************************************)
(* The breaker implements CircuitContract: permits and generations never   *)
(* show, and only the chosen prober ends a half-open period.               *)
(***************************************************************************)
Contract == INSTANCE CircuitContract
              WITH Callers <- Invocations,
                   mode    <- breaker.state,
                   probers <- {h[1] : h \in ProbeHolders}

ImplementsContract == Contract!Spec
=============================================================================
