------------------------- MODULE ToolRuntimeProofs -------------------------
(***************************************************************************)
(* Theorems about ToolRuntime, for every set of calls and tools, every     *)
(* capacity, breaker and policy.  The inductive invariant is built in      *)
(* layers, each proved from the ones before:                               *)
(*   TypeOK    the types;                                                  *)
(*   Control   which places of host, execution and thread go together;     *)
(*   PermitsConserved   every semaphore, by counting its holders;          *)
(*   MetricsConserved   every counter and gauge, by counting its calls;    *)
(*   Settled   when an invocation's circuit attempt is spent;              *)
(*   Probes    generations of permits, and the one half-open probe.        *)
(***************************************************************************)
EXTENDS ToolRuntime, BreakerOpsProofs, FiniteSetTheorems

-----------------------------------------------------------------------------
(* Facts about the model's operators.                                      *)

(* The clock's readings are natural numbers. *)
LEMMA ClockReadings == \A now \in Clock : now \in Nat
BY RuntimeAssumption DEF Clock

(* What the host reports of an outcome is something a breaker understands, *)
(* and what it makes of the call is a status.                              *)
LEMMA ReportsAndStatuses ==
  ASSUME NEW o \in ExecOutcomes \cup {"none"}
  PROVE  /\ ReportOf(o) \in Outcomes
         /\ StatusOf(o) \in Statuses \cup {"none", "aborted"}
         /\ o # "none" => StatusOf(o) # "none"
BY DEF ReportOf, StatusOf, ExecOutcomes, BodyOutcomes, Outcomes, Statuses, Refusals

(* Only statuses have counters of their own, and no gauge is a status. *)
LEMMA CountedStatuses ==
  /\ \A s \in Statuses : Counted(s) = {s}
  /\ Counted("aborted") = {}
  /\ Statuses \cap Gauges = {}
  /\ "none" \notin Statuses
  /\ \A c, report : Tripped(c, report) \subseteq {"circuit_breaker_trips"}
BY DEF Counted, Statuses, Gauges, Refusals, Tripped

(* Incrementing and decrementing keeps every counter a number. *)
LEMMA BumpFacts ==
  ASSUME NEW up, NEW down, counters \in [Statuses \cup Gauges -> Int]
  PROVE  /\ Bump(up, down) \in [Statuses \cup Gauges -> Int]
         /\ \A k \in Statuses \cup Gauges :
              /\ k \notin up /\ k \notin down => Bump(up, down)[k] = counters[k]
              /\ k \in up /\ k \notin down    => Bump(up, down)[k] = counters[k] + 1
              /\ k \notin up /\ k \in down    => Bump(up, down)[k] = counters[k] - 1
BY DEF Bump

(* Settling an attempt keeps breakers and permits typed and spends it. *)
LEMMA RecordedFacts ==
  ASSUME TypeOK, NEW c \in Calls, NEW report \in Outcomes, NEW now \in Clock,
         Recorded(c, report, now)
  PROVE  /\ breaker' \in [Tools -> Breaker] /\ attempt' \in [Calls -> Permit]
         /\ attempt'[c] = NoPermit
         /\ \A d \in Calls : d # c => attempt'[d] = attempt[d]
<1>1. ToolOf[c] \in Tools /\ now \in Nat
  BY RuntimeAssumption, ClockReadings
<1>2. breaker[ToolOf[c]] \in Breaker /\ attempt[c] \in Permit
  BY <1>1 DEF TypeOK
<1>3. Settle(breaker[ToolOf[c]], attempt[c], report, now) \in Breaker
  BY <1>1, <1>2, SettleFacts
<1>4. NoPermit \in Permit
  BY NewBreakerType
<1> QED BY <1>1, <1>3, <1>4 DEF Recorded, TypeOK

(* Taking or giving a permit of a tool's semaphore touches that tool only, *)
(* and only if it has one.                                                 *)
LEMMA ToolSlotsFacts ==
  ASSUME TypeOK, NEW c \in Calls, NEW n \in Int
  PROVE  /\ ToolSlotsPlus(c, n) \in [Tools -> Int]
         /\ \A t \in Tools :
              ToolSlotsPlus(c, n)[t] =
                toolSlots[t] + (IF t = ToolOf[c] /\ HasBulkhead(c) THEN n ELSE 0)
BY RuntimeAssumption DEF ToolSlotsPlus, TypeOK

(* The end of a handler, typed. *)
LEMMA LeavesFacts ==
  ASSUME TypeOK, NEW c \in Calls, NEW s \in Statuses \cup {"none", "aborted"}, NEW up,
         Leaves(c, s, up)
  PROVE  /\ host' \in [Calls -> HostPlaces]
         /\ status' \in [Calls -> Statuses \cup {"none", "aborted"}]
         /\ result' \in [Calls -> Statuses \cup {"none", "aborted"}]
         /\ counters' \in [Statuses \cup Gauges -> Int]
         /\ host'[c] \in {"closing", "done"} /\ status'[c] = s
         /\ \A d \in Calls : d # c => host'[d] = host[d] /\ status'[d] = status[d]
<1>1. counters' \in [Statuses \cup Gauges -> Int]
  BY BumpFacts DEF Leaves, TypeOK
<1> QED BY <1>1 DEF Leaves, TypeOK, HostPlaces

(* The end of an execution, typed. *)
LEMMA FinishesFacts ==
  ASSUME TypeOK, NEW c \in Calls, NEW o \in ExecOutcomes \cup {"none"}, Finishes(c, o)
  PROVE  /\ exec' \in [Calls -> ExecPlaces]
         /\ outcome' \in [Calls -> ExecOutcomes \cup {"none"}]
         /\ cancelling' \in [Calls -> BOOLEAN]
         /\ exec'[c] = "finished" /\ outcome'[c] = o
         /\ \A d \in Calls : d # c => /\ exec'[d] = exec[d] /\ outcome'[d] = outcome[d]
                                      /\ cancelling'[d] = cancelling[d]
BY DEF Finishes, TypeOK, ExecPlaces

(* _execute's check of the circuit: the execution waits for its next       *)
(* permit, or ends because the circuit is open.                            *)
LEMMA EntersCircuitFacts ==
  ASSUME TypeOK, NEW c \in Calls, NEW now \in Clock, EntersCircuit(c, now)
  PROVE  /\ exec' \in [Calls -> ExecPlaces]
         /\ outcome' \in [Calls -> ExecOutcomes \cup {"none"}]
         /\ cancelling' \in [Calls -> BOOLEAN]
         /\ breaker' \in [Tools -> Breaker] /\ attempt' \in [Calls -> Permit]
         /\ \/ exec'[c] = IF HasBulkhead(c) THEN "tool_wait" ELSE "slot_wait"
            \/ exec'[c] = "finished" /\ outcome'[c] = "circuit_open" /\ attempt' = attempt
         /\ \A d \in Calls : d # c => /\ exec'[d] = exec[d] /\ outcome'[d] = outcome[d]
                                      /\ cancelling'[d] = cancelling[d]
                                      /\ attempt'[d] = attempt[d]
<1> DEFINE t == ToolOf[c]
<1>1. t \in Tools /\ now \in Nat
  BY RuntimeAssumption, ClockReadings
<1>2. breaker[t] \in Breaker
  BY <1>1 DEF TypeOK
<1>3. Acquire(breaker[t], now) \in Breaker /\ Granted(breaker[t], now) \in Permit
  BY <1>1, <1>2, AcquireFacts
<1>4. CASE t \notin ProtectedTools
  BY <1>4 DEF EntersCircuit, TypeOK, ExecPlaces, circuit
<1>5. CASE t \in ProtectedTools /\ Admits(breaker[t], now)
  <2>1. /\ breaker' = [breaker EXCEPT ![t] = Acquire(breaker[t], now)]
        /\ attempt' = [attempt EXCEPT ![c] = Granted(breaker[t], now)]
        /\ exec' = [exec EXCEPT ![c] = IF HasBulkhead(c) THEN "tool_wait" ELSE "slot_wait"]
        /\ cancelling' = [cancelling EXCEPT ![c] = FALSE]
        /\ outcome' = outcome
    BY <1>1, <1>5 DEF EntersCircuit, TypeOK
  <2>2. breaker' \in [Tools -> Breaker] /\ attempt' \in [Calls -> Permit]
    BY <1>1, <1>3, <2>1 DEF TypeOK
  <2> QED BY <2>1, <2>2 DEF TypeOK, ExecPlaces
<1>6. CASE t \in ProtectedTools /\ ~Admits(breaker[t], now)
  <2>1. Finishes(c, "circuit_open") /\ UNCHANGED attempt
    BY <1>6 DEF EntersCircuit
  <2>2. "circuit_open" \in ExecOutcomes
    BY DEF ExecOutcomes
  <2>3. breaker' \in [Tools -> Breaker]
    BY <1>1, <1>3, <1>6 DEF EntersCircuit, TypeOK
  <2> QED BY <2>1, <2>2, <2>3, FinishesFacts DEF TypeOK
<1> QED BY <1>4, <1>5, <1>6

-----------------------------------------------------------------------------
(* Types.                                                                  *)

(* The initial state is well typed. *)
LEMMA TypeInit == Init => TypeOK
<1> SUFFICES ASSUME Init PROVE TypeOK
  OBVIOUS
<1>1. NewBreaker(0) \in Breaker /\ NoPermit \in Permit
  BY NewBreakerType
<1> QED BY <1>1, RuntimeAssumption
        DEF Init, TypeOK, HostPlaces, ExecPlaces, WorkerPlaces

(* So is every state after a step of a host coroutine ... *)
LEMMA TypeHost ==
  ASSUME TypeOK, NEW c \in Calls, HostStep(c)
  PROVE  TypeOK'
<1> USE DEF hostVars, execVars, workerVars, circuit, policyVars, capacity
<1>1. CASE InvokeRefused(c)
  <2>1. PICK r \in RefusalReasons :
          /\ status' = [status EXCEPT ![c] = r]
          /\ result' = [result EXCEPT ![c] = r]
          /\ counters' = Bump({"calls_total"} \cup Counted(r), {})
    BY <1>1 DEF InvokeRefused
  <2>2. r \in Statuses \cup {"none", "aborted"}
    BY DEF RefusalReasons, Statuses, Refusals
  <2>3. counters' \in [Statuses \cup Gauges -> Int]
    BY <2>1, BumpFacts DEF TypeOK
  <2> QED BY <1>1, <2>1, <2>2, <2>3 DEF InvokeRefused, TypeOK, HostPlaces
<1>2. CASE InvokeAdmitted(c)
  <2>1. counters' \in [Statuses \cup Gauges -> Int]
    BY <1>2, BumpFacts DEF InvokeAdmitted, TypeOK
  <2> QED BY <1>2, <2>1 DEF InvokeAdmitted, TypeOK, HostPlaces, ExecPlaces
<1>3. CASE HostObserves(c)
  <2>1. outcome[c] \in ExecOutcomes \cup {"none"}
    BY DEF TypeOK
  <2>2. /\ ReportOf(outcome[c]) \in Outcomes
        /\ StatusOf(outcome[c]) \in Statuses \cup {"none", "aborted"}
    BY <2>1, ReportsAndStatuses
  <2>3. PICK now \in Clock : Recorded(c, ReportOf(outcome[c]), now)
    BY <1>3 DEF HostObserves
  <2>4. PICK up : Leaves(c, StatusOf(outcome[c]), up)
    BY <1>3 DEF HostObserves
  <2>5. breaker' \in [Tools -> Breaker] /\ attempt' \in [Calls -> Permit]
    BY <2>2, <2>3, RecordedFacts
  <2>6. interrupted' \in [Calls -> BOOLEAN]
    BY <1>3 DEF HostObserves, MayCancel, TypeOK
  <2> QED BY <1>3, <2>2, <2>4, <2>5, <2>6, LeavesFacts DEF HostObserves, TypeOK
<1>4. CASE HostTimesOut(c)
  <2>1. PICK now \in Clock : Recorded(c, "fail", now)
    BY <1>4 DEF HostTimesOut
  <2>2. breaker' \in [Tools -> Breaker] /\ attempt' \in [Calls -> Permit]
    BY <2>1, RecordedFacts DEF Outcomes
  <2>3. counters' \in [Statuses \cup Gauges -> Int]
    BY <1>4, BumpFacts DEF HostTimesOut, TypeOK
  <2> QED BY <1>4, <2>2, <2>3 DEF HostTimesOut, Cancel, TypeOK, HostPlaces
<1>5. CASE HostCancelled(c)
  BY <1>5 DEF HostCancelled, Cancel, TypeOK, HostPlaces
<1>6. CASE HostCancelledInJoin(c)
  <2>1. CASE exec[c] = "finished"
    <3>1. "timed_out" \in Statuses \cup {"none", "aborted"}
      BY DEF Statuses
    <3> QED BY <1>6, <2>1, <3>1, LeavesFacts DEF HostCancelledInJoin, TypeOK
  <2>2. CASE exec[c] # "finished"
    BY <1>6, <2>2 DEF HostCancelledInJoin, Cancel, TypeOK
  <2> QED BY <2>1, <2>2
<1>7. CASE JoinAfterTimeout(c)
  <2>1. PICK s \in {"timed_out", "aborted"} : Leaves(c, s, Counted(s))
    BY <1>7 DEF JoinAfterTimeout
  <2>2. s \in Statuses \cup {"none", "aborted"}
    BY DEF Statuses
  <2> QED BY <1>7, <2>1, <2>2, LeavesFacts DEF JoinAfterTimeout, TypeOK
<1>8. CASE JoinAfterCancel(c)
  <2>1. CASE JoinsQuietly(c)
    <3>1. PICK now \in Clock : Recorded(c, "abandon", now)
      BY <1>8, <2>1 DEF JoinAfterCancel
    <3>2. breaker' \in [Tools -> Breaker] /\ attempt' \in [Calls -> Permit]
      BY <3>1, RecordedFacts DEF Outcomes
    <3>3. "cancelled" \in Statuses \cup {"none", "aborted"}
      BY DEF Statuses
    <3> QED BY <1>8, <2>1, <3>2, <3>3, LeavesFacts DEF JoinAfterCancel, TypeOK
  <2>2. CASE ~JoinsQuietly(c)
    BY <1>8, <2>2, LeavesFacts DEF JoinAfterCancel, TypeOK
  <2> QED BY <2>1, <2>2
<1>9. CASE ProgressCloses(c) \/ HostCancelledInClose(c)
  <2>1. PICK r \in Statuses \cup {"none", "aborted"} : Return(c, r)
    BY <1>9 DEF ProgressCloses, HostCancelledInClose, TypeOK, Statuses
  <2>2. counters' \in [Statuses \cup Gauges -> Int]
    BY <2>1, BumpFacts DEF Return, TypeOK
  <2>3. interrupted' \in [Calls -> BOOLEAN]
    BY <1>9 DEF ProgressCloses, HostCancelledInClose, TypeOK
  <2> QED BY <2>1, <2>2, <2>3 DEF Return, TypeOK, HostPlaces
<1> QED BY <1>1, <1>2, <1>3, <1>4, <1>5, <1>6, <1>7, <1>8, <1>9 DEF HostStep

(* ... of an execution task ... *)
LEMMA TypeExec ==
  ASSUME TypeOK, NEW c \in Calls, ExecStep(c)
  PROVE  TypeOK'
<1> USE DEF hostVars, execVars, workerVars, circuit, policyVars, capacity
<1>0. /\ ToolOf[c] \in Tools /\ Bulkhead[ToolOf[c]] \in Nat /\ Burst[ToolOf[c]] \in Nat
      /\ \A n \in Int : ToolSlotsPlus(c, n) \in [Tools -> Int]
      /\ slots + 1 \in Int /\ slots - 1 \in Int /\ slots \in Int
  BY RuntimeAssumption, ToolSlotsFacts DEF TypeOK
<1>1. CASE StartsUnguarded(c)
  <2>1. PICK now \in Clock : EntersCircuit(c, now)
    BY <1>1 DEF StartsUnguarded
  <2> QED BY <1>1, <2>1, EntersCircuitFacts DEF StartsUnguarded, TypeOK
<1>2. CASE EntersPolicy(c)
  BY <1>2 DEF EntersPolicy, TypeOK, ExecPlaces
<1>3. CASE PolicyAllows(c)
  <2>1. PICK now \in Clock : EntersCircuit(c, now)
    BY <1>3 DEF PolicyAllows
  <2>2. policySlots' \in Int /\ policy' = policy
    BY <1>3 DEF PolicyAllows, PolicySlotBack, TypeOK
  <2> QED BY <1>3, <2>1, <2>2, EntersCircuitFacts DEF PolicyAllows, TypeOK
<1>4. CASE PolicyRefuses(c)
  <2>1. PICK o \in ExecOutcomes : Finishes(c, o)
    BY <1>4 DEF PolicyRefuses, ExecOutcomes, BodyOutcomes
  <2>2. policySlots' \in Int /\ policy' = policy
    BY <1>4 DEF PolicyRefuses, PolicySlotBack, TypeOK
  <2> QED BY <1>4, <2>1, <2>2, FinishesFacts DEF PolicyRefuses, TypeOK
<1>5. CASE TakesToolSlot(c)
  BY <1>0, <1>5 DEF TakesToolSlot, TypeOK, ExecPlaces
<1>6. ASSUME GetsSlot(c)
      PROVE  breaker' \in [Tools -> Breaker]
  <2>1. CASE ToolOf[c] \in ProtectedTools
    <3>1. PICK now \in Clock :
            breaker' = [breaker EXCEPT ![ToolOf[c]] = Observe(breaker[ToolOf[c]], now)]
      BY <1>0, <1>6, <2>1 DEF GetsSlot, TypeOK
    <3>2. breaker[ToolOf[c]] \in Breaker /\ now \in Nat
      BY <1>0, ClockReadings DEF TypeOK
    <3>3. Observe(breaker[ToolOf[c]], now) \in Breaker
      BY <3>2, ObserveFacts
    <3> QED BY <1>0, <3>1, <3>3 DEF TypeOK
  <2>2. CASE ToolOf[c] \notin ProtectedTools
    BY <1>6, <2>2 DEF GetsSlot, TypeOK
  <2> QED BY <2>1, <2>2
<1>7. CASE StartRefused(c)
  <2>1. PICK o \in ExecOutcomes : Finishes(c, o)
    BY <1>7 DEF StartRefused, ExecOutcomes
  <2>2. breaker' \in [Tools -> Breaker]
    BY <1>6, <1>7 DEF StartRefused
  <2>3. toolSlots' \in [Tools -> Int] /\ slots' \in Int
    BY <1>0, <1>7 DEF StartRefused, Refund
  <2> QED BY <1>7, <2>1, <2>2, <2>3, FinishesFacts DEF StartRefused, GetsSlot, TypeOK
<1>8. ASSUME Starts(c)
      PROVE  /\ tokens' \in [Tools -> Nat] /\ slots' \in Int
             /\ breaker' \in [Tools -> Breaker]
             /\ UNCHANGED <<hostVars, outcome, cancelling, yielded, attempt, toolSlots,
                            policyVars, closing>>
  <2>1. tokens' \in [Tools -> Nat]
    <3>1. (IF Burst[ToolOf[c]] > 0 THEN tokens[ToolOf[c]] - 1 ELSE tokens[ToolOf[c]]) \in Nat
      BY <1>0, <1>8 DEF Starts, HasToken, TypeOK
    <3> QED BY <1>8, <3>1 DEF Starts, TypeOK
  <2>2. breaker' \in [Tools -> Breaker]
    BY <1>6, <1>8 DEF Starts
  <2> QED BY <1>0, <1>8, <2>1, <2>2 DEF Starts, GetsSlot
<1>9. CASE StartsAsync(c)
  <2>1. counters' \in [Statuses \cup Gauges -> Int]
    BY <1>9, BumpFacts DEF StartsAsync, TypeOK
  <2>2. exec' \in [Calls -> ExecPlaces] /\ UNCHANGED worker
    BY <1>9 DEF StartsAsync, TypeOK, ExecPlaces
  <2> QED BY <1>8, <1>9, <2>1, <2>2 DEF StartsAsync, TypeOK
<1>10. CASE StartsSync(c)
  <2>1. /\ exec' \in [Calls -> ExecPlaces] /\ worker' \in [Calls -> WorkerPlaces]
        /\ UNCHANGED counters
    BY <1>10 DEF StartsSync, TypeOK, ExecPlaces, WorkerPlaces
  <2> QED BY <1>8, <1>10, <2>1 DEF StartsSync, TypeOK
<1>11. CASE AsyncEnds(c)
  <2>1. PICK o \in BodyOutcomes :
          /\ Finishes(c, o)
          /\ \/ \E now \in Clock : Recorded(c, ReportOf(o), now)
             \/ UNCHANGED circuit
    BY <1>11 DEF AsyncEnds
  <2>2. o \in ExecOutcomes
    BY DEF ExecOutcomes
  <2>3. breaker' \in [Tools -> Breaker] /\ attempt' \in [Calls -> Permit]
    <3>1. CASE UNCHANGED circuit
      BY <3>1 DEF TypeOK
    <3>2. CASE \E now \in Clock : Recorded(c, ReportOf(o), now)
      BY <2>2, <3>2, ReportsAndStatuses, RecordedFacts
    <3> QED BY <2>1, <3>1, <3>2
  <2>4. counters' \in [Statuses \cup Gauges -> Int]
    BY <1>11, BumpFacts DEF AsyncEnds, TypeOK
  <2>5. toolSlots' \in [Tools -> Int] /\ slots' \in Int
    BY <1>0, <1>11 DEF AsyncEnds
  <2> QED BY <1>11, <2>1, <2>2, <2>3, <2>4, <2>5, FinishesFacts DEF AsyncEnds, TypeOK
<1>12. CASE CancelWaiting(c)
  <2>1. "cancelled" \in ExecOutcomes
    BY DEF ExecOutcomes, BodyOutcomes
  <2>2. toolSlots' \in [Tools -> Int]
    BY <1>0, <1>12 DEF CancelWaiting, ToolSlotsAfterCancel, TypeOK
  <2> QED BY <1>12, <2>1, <2>2, FinishesFacts DEF CancelWaiting, TypeOK
<1>13. CASE CancelSubmitted(c)
  <2>1. "cancelled" \in ExecOutcomes
    BY DEF ExecOutcomes, BodyOutcomes
  <2>2. CASE FutureCancelled(c)
    <3>1. PICK now \in Clock : Recorded(c, "fail", now)
      BY <1>13, <2>2 DEF CancelSubmitted
    <3>2. breaker' \in [Tools -> Breaker] /\ attempt' \in [Calls -> Permit]
      BY <3>1, RecordedFacts DEF Outcomes
    <3>3. counters' \in [Statuses \cup Gauges -> Int]
      BY <1>13, <2>2, BumpFacts DEF CancelSubmitted, TypeOK
    <3>4. worker' \in [Calls -> WorkerPlaces]
      BY <1>13, <2>2 DEF CancelSubmitted, TypeOK, WorkerPlaces
    <3> QED BY <1>13, <2>1, <3>2, <3>3, <3>4, FinishesFacts DEF CancelSubmitted, TypeOK
  <2>3. CASE ~FutureCancelled(c)
    BY <1>13, <2>1, <2>3, FinishesFacts DEF CancelSubmitted, TypeOK
  <2> QED BY <2>2, <2>3
<1>14. CASE ReceivesResult(c)
  <2>1. yielded[c] \in ExecOutcomes \cup {"none"}
    BY DEF TypeOK, ExecOutcomes
  <2> QED BY <1>14, <2>1, FinishesFacts DEF ReceivesResult, TypeOK
<1> QED BY <1>1, <1>2, <1>3, <1>4, <1>5, <1>7, <1>9, <1>10, <1>11, <1>12, <1>13, <1>14
        DEF ExecStep

(* ... of a worker thread or its future's callbacks ... *)
LEMMA TypeWorker ==
  ASSUME TypeOK, NEW c \in Calls, WorkerStep(c)
  PROVE  TypeOK'
<1> USE DEF hostVars, execVars, workerVars, circuit, policyVars, capacity
<1>1. \A up, down : Bump(up, down) \in [Statuses \cup Gauges -> Int]
  BY BumpFacts DEF TypeOK
<1>2. CASE WorkerStarts(c)
  BY <1>1, <1>2 DEF WorkerStarts, TypeOK, WorkerPlaces
<1>3. CASE WorkerEnds(c)
  BY <1>1, <1>3 DEF WorkerEnds, TypeOK, WorkerPlaces
<1>4. CASE WorkerRecords(c)
  <2>1. PICK now \in Clock : Recorded(c, ReportOf(yielded[c]), now)
    BY <1>4 DEF WorkerRecords
  <2>2. yielded[c] \in ExecOutcomes \cup {"none"}
    BY DEF TypeOK, ExecOutcomes
  <2>3. breaker' \in [Tools -> Breaker] /\ attempt' \in [Calls -> Permit]
    BY <2>1, <2>2, ReportsAndStatuses, RecordedFacts
  <2> QED BY <1>1, <1>4, <2>3 DEF WorkerRecords, TypeOK, WorkerPlaces
<1>5. CASE WorkerNotifies(c)
  BY <1>5 DEF WorkerNotifies, TypeOK, WorkerPlaces
<1>6. CASE ReleasesSlots(c)
  <2>1. toolSlots' \in [Tools -> Int] /\ slots' \in Int
    BY <1>6, ToolSlotsFacts DEF ReleasesSlots, TypeOK
  <2> QED BY <1>6, <2>1 DEF ReleasesSlots, TypeOK, WorkerPlaces
<1> QED BY <1>2, <1>3, <1>4, <1>5, <1>6 DEF WorkerStep

(* ... and of aclose, a bucket or nobody. *)
LEMMA TypeElse ==
  ASSUME TypeOK,
         \/ CloseBegins \/ CloseInterrupted \/ CloseJoined
         \/ \E t \in Tools : Refill(t)
         \/ UNCHANGED vars
  PROVE  TypeOK'
<1> USE DEF hostVars, execVars, workerVars, circuit, policyVars, capacity
<1>1. CASE CloseBegins \/ CloseInterrupted
  BY <1>1 DEF CloseBegins, CloseInterrupted, CancelsActive, TypeOK
<1>2. CASE CloseJoined
  BY <1>2 DEF CloseJoined, TypeOK
<1>3. CASE \E t \in Tools : Refill(t)
  BY <1>3, RuntimeAssumption DEF Refill, TypeOK
<1>4. CASE UNCHANGED vars
  BY <1>4 DEF vars, TypeOK
<1> QED BY <1>1, <1>2, <1>3, <1>4

(* Every step of the specification is one of these. *)
LEMMA StepCases ==
  ASSUME [Next]_vars
  PROVE  \/ \E c \in Calls : HostStep(c) \/ ExecStep(c) \/ WorkerStep(c)
         \/ CloseBegins \/ CloseInterrupted \/ CloseJoined
         \/ \E t \in Tools : Refill(t)
         \/ UNCHANGED vars
BY DEF Next, Quiescent

(* The variables of the runtime keep their types: the breakers and permits *)
(* those of BreakerOps, the rate tokens natural numbers.                   *)
THEOREM RuntimeTypesHold == Spec => []TypeOK
<1>1. TypeOK /\ [Next]_vars => TypeOK'
  BY StepCases, TypeHost, TypeExec, TypeWorker, TypeElse
<1> QED BY <1>1, TypeInit, PTL DEF Spec

-----------------------------------------------------------------------------
(* Control: which places of a call's three activities go together.         *)

(***************************************************************************)
(* An execution exists from admission on, and the handler decides a status *)
(* only after it has ended; a thread's future belongs to an execution that *)
(* waits for it or has been cancelled away from it, and is not queued once *)
(* that execution is over; whoever has ended, ended with something.        *)
(***************************************************************************)
InStep(c) ==
  /\ host[c] = "idle" => exec[c] = "none"
  /\ host[c] \in {"waiting", "timeout_join", "cancel_join"} => exec[c] # "none"
  /\ host[c] = "closing" => exec[c] = "finished"
  /\ host[c] = "done" => exec[c] \in {"none", "finished"}
  /\ status[c] = "none" <=> host[c] \in {"idle", "waiting", "timeout_join", "cancel_join"}
  /\ exec[c] = "finished" => outcome[c] # "none"
  /\ worker[c] # "none" => exec[c] \in {"submitted", "finished"}
  /\ exec[c] = "submitted" => worker[c] # "none"
  /\ worker[c] = "queued" => exec[c] = "submitted"
  /\ worker[c] = "returned" => yielded[c] # "none"
  /\ exec[c] = "submitted" /\ worker[c] \notin {"none", "queued", "running"} =>
       yielded[c] # "none"

Control ==
  /\ \A c \in Calls : InStep(c)
  /\ closing = "shut" => \A c \in Calls : exec[c] \in {"none", "finished"}

(* What a call's own step must show: the others have not moved, and after  *)
(* aclose has joined no execution comes to life.                           *)
LEMMA ControlOf ==
  ASSUME Control, NEW c \in Calls, InStep(c)', UNCHANGED closing,
         closing = "open" \/ exec[c] \notin {"none", "finished"} \/ exec'[c] = exec[c],
         \A d \in Calls \ {c} :
           /\ host'[d] = host[d] /\ status'[d] = status[d] /\ exec'[d] = exec[d]
           /\ outcome'[d] = outcome[d] /\ worker'[d] = worker[d]
           /\ yielded'[d] = yielded[d]
  PROVE  Control'
<1>1. \A d \in Calls \ {c} : InStep(d)'
  BY DEF Control, InStep
<1>2. closing' = "shut" => \A d \in Calls : exec'[d] \in {"none", "finished"}
  BY DEF Control
<1> QED BY <1>1, <1>2 DEF Control

(* No call has begun. *)
LEMMA ControlInit == Init => Control
BY DEF Init, Control, InStep

(* The host coroutine waits for its execution before it decides. *)
LEMMA ControlHost ==
  ASSUME TypeOK, Control, NEW c \in Calls, HostStep(c)
  PROVE  Control'
<1> USE DEF hostVars, execVars, workerVars
<1>0. InStep(c)
  BY DEF Control
<1>1. CASE InvokeRefused(c)
  <2>1. PICK r \in RefusalReasons : status' = [status EXCEPT ![c] = r]
    BY <1>1 DEF InvokeRefused
  <2>2. r # "none"
    BY DEF RefusalReasons
  <2>3. InStep(c)'
    BY <1>0, <1>1, <2>1, <2>2 DEF InvokeRefused, InStep, TypeOK
  <2> QED BY <1>1, <2>1, <2>3, ControlOf DEF InvokeRefused, TypeOK
<1>2. CASE InvokeAdmitted(c)
  <2>1. InStep(c)'
    BY <1>0, <1>2 DEF InvokeAdmitted, InStep, TypeOK
  <2> QED BY <1>2, <2>1, ControlOf DEF InvokeAdmitted, TypeOK
<1>3. ASSUME NEW s \in Statuses \cup {"aborted"}, NEW up, Leaves(c, s, up),
             exec[c] = "finished",
             UNCHANGED <<exec, outcome, workerVars, closing>>
      PROVE  Control'
  <2>1. s \in Statuses \cup {"none", "aborted"} /\ s # "none"
    BY CountedStatuses
  <2>2. /\ host'[c] \in {"closing", "done"} /\ status'[c] = s
        /\ \A d \in Calls : d # c => host'[d] = host[d] /\ status'[d] = status[d]
    BY <1>3, <2>1, LeavesFacts
  <2>3. InStep(c)'
    BY <1>0, <1>3, <2>1, <2>2 DEF InStep
  <2> QED BY <1>3, <2>2, <2>3, ControlOf
<1>4. CASE HostObserves(c)
  <2>1. PICK up : Leaves(c, StatusOf(outcome[c]), up)
    BY <1>4 DEF HostObserves
  <2>2. exec[c] = "finished" /\ outcome[c] # "none"
    BY <1>0, <1>4 DEF HostObserves, InStep
  <2>3. outcome[c] \in ExecOutcomes \cup {"none"}
    BY DEF TypeOK
  <2>4. StatusOf(outcome[c]) \in Statuses \cup {"aborted"}
    BY <2>2, <2>3, ReportsAndStatuses
  <2> QED BY <1>3, <1>4, <2>1, <2>2, <2>4 DEF HostObserves
<1>5. CASE HostTimesOut(c)
  <2>1. InStep(c)'
    BY <1>0, <1>5 DEF HostTimesOut, InStep, TypeOK, Cancel
  <2> QED BY <1>5, <2>1, ControlOf DEF HostTimesOut, TypeOK, Cancel
<1>6. CASE HostCancelled(c)
  <2>1. InStep(c)'
    BY <1>0, <1>6 DEF HostCancelled, InStep, TypeOK
  <2> QED BY <1>6, <2>1, ControlOf DEF HostCancelled, TypeOK
<1>7. CASE HostCancelledInJoin(c)
  <2>1. CASE exec[c] = "finished"
    <3>1. "timed_out" \in Statuses
      BY DEF Statuses
    <3> QED BY <1>3, <1>7, <2>1, <3>1 DEF HostCancelledInJoin
  <2>2. CASE exec[c] # "finished"
    <3>1. UNCHANGED <<host, status, exec, outcome, workerVars, closing>>
      BY <1>7, <2>2 DEF HostCancelledInJoin
    <3> QED BY <3>1 DEF Control, InStep
  <2> QED BY <2>1, <2>2
<1>8. CASE JoinAfterTimeout(c)
  <2>1. PICK s \in {"timed_out", "aborted"} : Leaves(c, s, Counted(s))
    BY <1>8 DEF JoinAfterTimeout
  <2>2. s \in Statuses \cup {"aborted"}
    BY DEF Statuses
  <2> QED BY <1>3, <1>8, <2>1, <2>2 DEF JoinAfterTimeout
<1>9. CASE JoinAfterCancel(c)
  <2>1. PICK s, up : s \in {"cancelled", "aborted"} /\ Leaves(c, s, up)
    BY <1>9 DEF JoinAfterCancel
  <2>2. s \in Statuses \cup {"aborted"}
    BY <2>1 DEF Statuses
  <2> QED BY <1>3, <1>9, <2>1, <2>2 DEF JoinAfterCancel
<1>10. CASE ProgressCloses(c) \/ HostCancelledInClose(c)
  <2>1. PICK r : Return(c, r)
    BY <1>10 DEF ProgressCloses, HostCancelledInClose
  <2>2. InStep(c)'
    BY <1>0, <2>1 DEF Return, InStep, TypeOK
  <2> QED BY <2>1, <2>2, ControlOf DEF Return, TypeOK
<1> QED BY <1>1, <1>2, <1>4, <1>5, <1>6, <1>7, <1>8, <1>9, <1>10 DEF HostStep

(* The execution of a call lives while its host waits. *)
LEMMA ControlExec ==
  ASSUME TypeOK, Control, NEW c \in Calls, ExecStep(c)
  PROVE  Control'
<1> USE DEF hostVars, execVars, workerVars
<1>0. InStep(c)
  BY DEF Control
<1>1. ASSUME NEW o \in ExecOutcomes, Finishes(c, o),
             exec[c] \notin {"none", "finished"}, worker[c] # "queued",
             UNCHANGED <<hostVars, workerVars, closing>>
      PROVE  Control'
  <2>1. /\ exec'[c] = "finished" /\ outcome'[c] = o
        /\ \A d \in Calls : d # c => exec'[d] = exec[d] /\ outcome'[d] = outcome[d]
    BY <1>1, FinishesFacts
  <2>2. o # "none"
    BY <1>1 DEF ExecOutcomes, BodyOutcomes
  <2>3. InStep(c)'
    BY <1>0, <1>1, <2>1, <2>2 DEF InStep, TypeOK
  <2> QED BY <1>1, <2>1, <2>3, ControlOf
<1>2. ASSUME exec[c] \notin {"none", "finished", "submitted"}
      PROVE  worker[c] = "none"
  BY <1>0, <1>2 DEF InStep
<1>3. ASSUME NEW now \in Clock, EntersCircuit(c, now), exec[c] \in {"created", "policy"},
             UNCHANGED <<hostVars, workerVars, closing>>
      PROVE  Control'
  <2>1. /\ \/ exec'[c] \in {"tool_wait", "slot_wait"}
           \/ exec'[c] = "finished" /\ outcome'[c] = "circuit_open"
        /\ \A d \in Calls : d # c => exec'[d] = exec[d] /\ outcome'[d] = outcome[d]
    BY <1>3, EntersCircuitFacts
  <2>2. InStep(c)'
    BY <1>0, <1>2, <1>3, <2>1 DEF InStep
  <2> QED BY <1>3, <2>1, <2>2, ControlOf
<1>4. ASSUME NEW e \in {"policy", "slot_wait", "running"},
             exec' = [exec EXCEPT ![c] = e], exec[c] \notin {"none", "finished", "submitted"},
             UNCHANGED <<hostVars, outcome, workerVars, closing>>
      PROVE  Control'
  <2>1. InStep(c)'
    BY <1>0, <1>2, <1>4 DEF InStep, TypeOK
  <2> QED BY <1>4, <2>1, ControlOf DEF TypeOK
<1>5. CASE StartsUnguarded(c)
  BY <1>3, <1>5 DEF StartsUnguarded
<1>6. CASE EntersPolicy(c)
  BY <1>4, <1>6 DEF EntersPolicy
<1>7. CASE PolicyAllows(c)
  BY <1>3, <1>7 DEF PolicyAllows, PolicyMayAnswer
<1>8. CASE PolicyRefuses(c)
  <2>1. PICK o \in ExecOutcomes : Finishes(c, o)
    BY <1>8 DEF PolicyRefuses, ExecOutcomes, BodyOutcomes
  <2> QED BY <1>1, <1>2, <1>8, <2>1 DEF PolicyRefuses
<1>9. CASE TakesToolSlot(c)
  BY <1>4, <1>9 DEF TakesToolSlot
<1>10. CASE StartRefused(c)
  <2>1. PICK o \in ExecOutcomes : Finishes(c, o)
    BY <1>10 DEF StartRefused, ExecOutcomes
  <2> QED BY <1>1, <1>2, <1>10, <2>1 DEF StartRefused, GetsSlot
<1>11. CASE StartsAsync(c)
  BY <1>4, <1>11 DEF StartsAsync, Starts, GetsSlot
<1>12. CASE StartsSync(c)
  <2>1. /\ exec[c] = "slot_wait"
        /\ exec' = [exec EXCEPT ![c] = "submitted"]
        /\ worker' = [worker EXCEPT ![c] = "queued"]
        /\ UNCHANGED <<hostVars, outcome, yielded, closing>>
    BY <1>12 DEF StartsSync, Starts, GetsSlot
  <2>2. InStep(c)'
    BY <1>0, <1>2, <2>1 DEF InStep, TypeOK
  <2> QED BY <2>1, <2>2, ControlOf DEF TypeOK
<1>13. CASE AsyncEnds(c)
  <2>1. PICK o \in BodyOutcomes : Finishes(c, o)
    BY <1>13 DEF AsyncEnds
  <2> QED BY <1>1, <1>2, <1>13, <2>1 DEF AsyncEnds, ExecOutcomes
<1>14. CASE CancelWaiting(c)
  BY <1>1, <1>2, <1>14 DEF CancelWaiting, ExecOutcomes, BodyOutcomes
<1>15. CASE CancelSubmitted(c)
  <2>1. "cancelled" \in ExecOutcomes
    BY DEF ExecOutcomes, BodyOutcomes
  <2>2. CASE ~FutureCancelled(c)
    <3>1. worker[c] # "queued" /\ UNCHANGED worker
      BY <1>15, <2>2 DEF CancelSubmitted, FutureCancelled
    <3> QED BY <1>1, <1>15, <2>1, <3>1 DEF CancelSubmitted
  <2>3. CASE FutureCancelled(c)
    <3>1. Finishes(c, "cancelled") /\ worker' = [worker EXCEPT ![c] = "notified"]
      BY <1>15, <2>3 DEF CancelSubmitted
    <3>2. /\ exec'[c] = "finished" /\ outcome'[c] = "cancelled"
          /\ \A d \in Calls : d # c => exec'[d] = exec[d] /\ outcome'[d] = outcome[d]
      BY <2>1, <3>1, FinishesFacts
    <3>3. InStep(c)'
      BY <1>0, <1>15, <3>1, <3>2 DEF CancelSubmitted, InStep, TypeOK
    <3> QED BY <1>15, <3>1, <3>2, <3>3, ControlOf DEF CancelSubmitted, TypeOK
  <2> QED BY <2>2, <2>3
<1>16. CASE ReceivesResult(c)
  <2>1. yielded[c] \in ExecOutcomes
    BY <1>0, <1>16 DEF ReceivesResult, InStep, TypeOK, ExecOutcomes
  <2> QED BY <1>1, <1>16, <2>1 DEF ReceivesResult
<1> QED BY <1>5, <1>6, <1>7, <1>8, <1>9, <1>10, <1>11, <1>12, <1>13, <1>14, <1>15, <1>16
        DEF ExecStep

(* A thread and its callbacks run one after the other. *)
LEMMA ControlWorker ==
  ASSUME TypeOK, Control, NEW c \in Calls, WorkerStep(c)
  PROVE  Control'
<1> USE DEF hostVars, execVars, workerVars
<1>0. InStep(c)
  BY DEF Control
<1>1. CASE WorkerEnds(c)
  <2>1. PICK o \in BodyOutcomes : yielded' = [yielded EXCEPT ![c] = o]
    BY <1>1 DEF WorkerEnds
  <2>2. o # "none"
    BY DEF BodyOutcomes
  <2>3. InStep(c)'
    BY <1>0, <1>1, <2>1, <2>2 DEF WorkerEnds, InStep, TypeOK
  <2> QED BY <1>1, <2>1, <2>3, ControlOf DEF WorkerEnds, TypeOK
<1>2. CASE WorkerStarts(c) \/ WorkerRecords(c) \/ WorkerNotifies(c) \/ ReleasesSlots(c)
  <2>1. PICK w \in {"running", "recorded", "notified", "released"} :
          /\ worker' = [worker EXCEPT ![c] = w]
          /\ worker[c] \notin {"none", "released"}
          /\ w # "running" => worker[c] \notin {"queued", "running"}
          /\ UNCHANGED <<hostVars, execVars, yielded, closing>>
    BY <1>2 DEF WorkerStarts, WorkerRecords, WorkerNotifies, ReleasesSlots
  <2>2. InStep(c)'
    BY <1>0, <2>1 DEF InStep, TypeOK
  <2> QED BY <2>1, <2>2, ControlOf DEF TypeOK
<1> QED BY <1>1, <1>2 DEF WorkerStep

(* aclose cancels and waits. *)
LEMMA ControlElse ==
  ASSUME Control,
         \/ CloseBegins \/ CloseInterrupted \/ CloseJoined
         \/ \E t \in Tools : Refill(t)
         \/ UNCHANGED vars
  PROVE  Control'
<1> USE DEF hostVars, execVars, workerVars, vars
<1>1. UNCHANGED <<host, status, exec, outcome, worker, yielded>>
  BY DEF CloseBegins, CloseInterrupted, CloseJoined, Refill
<1>2. closing' = "shut" => closing = "shut" \/ Joined
  BY DEF CloseBegins, CloseInterrupted, CloseJoined, Refill
<1> QED BY <1>1, <1>2 DEF Control, InStep, Joined

(* Host, execution and thread of every call stay in step. *)
THEOREM ActivitiesInStep == Spec => []Control
<1>1. TypeOK /\ Control /\ [Next]_vars => Control'
  BY StepCases, ControlHost, ControlExec, ControlWorker, ControlElse
<1> QED BY <1>1, ControlInit, RuntimeTypesHold, PTL DEF Spec

-----------------------------------------------------------------------------
(* Permits: what is not free has one holder.                               *)

One(p) == IF p THEN 1 ELSE 0

(* A set that differs from another in the membership of c only. *)
LEMMA OneMoves ==
  ASSUME NEW S \in SUBSET Calls, NEW T \in SUBSET Calls, NEW c \in Calls,
         \A d \in Calls \ {c} : d \in S <=> d \in T
  PROVE  /\ IsFiniteSet(S) /\ IsFiniteSet(T)
         /\ Cardinality(S) \in Nat /\ Cardinality(T) \in Nat
         /\ Cardinality(T) = Cardinality(S) + One(c \in T) - One(c \in S)
<1>1. IsFiniteSet(S) /\ IsFiniteSet(T)
  BY RuntimeAssumption, FS_Subset
<1>2. Cardinality(S) \in Nat /\ Cardinality(T) \in Nat
  BY <1>1, FS_CardinalityType
<1>3. CASE c \in S <=> c \in T
  <2>1. S = T
    BY <1>3
  <2> QED BY <1>1, <1>2, <1>3, <2>1 DEF One
<1>4. CASE c \notin S /\ c \in T
  <2>1. T = S \cup {c}
    BY <1>4
  <2>2. Cardinality(T) = Cardinality(S) + 1
    BY <1>1, <1>4, <2>1, FS_AddElement
  <2> QED BY <1>1, <1>2, <1>4, <2>2 DEF One
<1>5. CASE c \in S /\ c \notin T
  <2>1. T = S \ {c}
    BY <1>5
  <2>2. Cardinality(T) = Cardinality(S) - 1
    BY <1>1, <1>5, <2>1, FS_RemoveElement
  <2> QED BY <1>1, <1>2, <1>5, <2>2 DEF One
<1> QED BY <1>3, <1>4, <1>5

(* A call's own step conserves permits if every semaphore gains what the   *)
(* call gives up and loses what it takes.                                  *)
LEMMA PermitsOf ==
  ASSUME TypeOK, PermitsConserved, NEW c \in Calls,
         \A d \in Calls \ {c} : exec'[d] = exec[d] /\ worker'[d] = worker[d],
         slots' = slots + One(HoldsSlot(c)) - One(HoldsSlot(c)'),
         slots' >= 0,
         \A t \in Tools :
           /\ toolSlots'[t] = IF t = ToolOf[c]
                              THEN toolSlots[t] + One(HoldsToolSlot(c)) - One(HoldsToolSlot(c)')
                              ELSE toolSlots[t]
           /\ toolSlots'[t] >= 0,
         policySlots' = policySlots + One(HoldsPolicySlot(c)) - One(HoldsPolicySlot(c)'),
         policySlots' >= 0
  PROVE  PermitsConserved'
<1> DEFINE Slot   == {d \in Calls : HoldsSlot(d)}
           Policy == {d \in Calls : HoldsPolicySlot(d)}
           InTool(t) == {d \in CallsOf(t) : HoldsToolSlot(d)}
<1>1. slots' + Cardinality(Slot') = MaxConcurrency
  <2>1. \A d \in Calls \ {c} : d \in Slot <=> d \in Slot'
    BY DEF HoldsSlot
  <2>2. /\ Cardinality(Slot) \in Nat /\ Cardinality(Slot') \in Nat
        /\ Cardinality(Slot') = Cardinality(Slot) + One(c \in Slot') - One(c \in Slot)
    BY <2>1, OneMoves
  <2>3. c \in Slot <=> HoldsSlot(c)
    OBVIOUS
  <2>4. c \in Slot' <=> HoldsSlot(c)'
    OBVIOUS
  <2>5. slots + Cardinality(Slot) = MaxConcurrency /\ slots \in Int
    BY DEF PermitsConserved, TypeOK
  <2> HIDE DEF Slot
  <2> QED BY <2>2, <2>3, <2>4, <2>5, RuntimeAssumption DEF One
<1>2. policySlots' + Cardinality(Policy') = MaxConcurrency
  <2>1. \A d \in Calls \ {c} : d \in Policy <=> d \in Policy'
    BY DEF HoldsPolicySlot
  <2>2. /\ Cardinality(Policy) \in Nat /\ Cardinality(Policy') \in Nat
        /\ Cardinality(Policy') = Cardinality(Policy) + One(c \in Policy') - One(c \in Policy)
    BY <2>1, OneMoves
  <2>3. c \in Policy <=> HoldsPolicySlot(c)
    OBVIOUS
  <2>4. c \in Policy' <=> HoldsPolicySlot(c)'
    OBVIOUS
  <2>5. policySlots + Cardinality(Policy) = MaxConcurrency /\ policySlots \in Int
    BY DEF PermitsConserved, TypeOK
  <2> HIDE DEF Policy
  <2> QED BY <2>2, <2>3, <2>4, <2>5, RuntimeAssumption DEF One
<1>3. ASSUME NEW t \in Tools
      PROVE  toolSlots'[t] + Cardinality(InTool(t)') = Bulkhead[t]
  <2>1. \A d \in Calls \ {c} : d \in InTool(t) <=> d \in InTool(t)'
    BY DEF HoldsToolSlot, HoldsSlot, CallsOf
  <2>2. InTool(t) \in SUBSET Calls /\ InTool(t)' \in SUBSET Calls
    BY DEF CallsOf
  <2>3. /\ Cardinality(InTool(t)) \in Nat /\ Cardinality(InTool(t)') \in Nat
        /\ Cardinality(InTool(t)') =
             Cardinality(InTool(t)) + One(c \in InTool(t)') - One(c \in InTool(t))
    BY <2>1, <2>2, OneMoves
  <2>4. c \in InTool(t) <=> t = ToolOf[c] /\ HoldsToolSlot(c)
    BY DEF CallsOf
  <2>5. c \in InTool(t)' <=> t = ToolOf[c] /\ HoldsToolSlot(c)'
    BY DEF CallsOf
  <2>6. toolSlots[t] + Cardinality(InTool(t)) = Bulkhead[t] /\ toolSlots[t] \in Int
    BY DEF PermitsConserved, TypeOK
  <2> HIDE DEF InTool
  <2> QED BY <2>3, <2>4, <2>5, <2>6, RuntimeAssumption DEF One
<1> QED BY <1>1, <1>2, <1>3 DEF PermitsConserved

(* All permits are free. *)
LEMMA PermitsInit == Init => PermitsConserved
<1> SUFFICES ASSUME Init PROVE PermitsConserved
  OBVIOUS
<1>1. /\ {c \in Calls : HoldsSlot(c)} = {}
      /\ {c \in Calls : HoldsPolicySlot(c)} = {}
      /\ \A t : {c \in CallsOf(t) : HoldsToolSlot(c)} = {}
  BY DEF Init, HoldsSlot, HoldsPolicySlot, HoldsToolSlot, CallsOf
<1>2. /\ Cardinality({c \in Calls : HoldsSlot(c)}) = 0
      /\ Cardinality({c \in Calls : HoldsPolicySlot(c)}) = 0
      /\ \A t : Cardinality({c \in CallsOf(t) : HoldsToolSlot(c)}) = 0
  BY <1>1, FS_EmptySet
<1>3. /\ slots = MaxConcurrency /\ policySlots = MaxConcurrency
      /\ toolSlots = Bulkhead
  BY DEF Init
<1> QED BY <1>2, <1>3, RuntimeAssumption DEF PermitsConserved

(* A step that moves no execution and no thread, or brings a call's        *)
(* execution to life, touches no permit.                                   *)
LEMMA PermitsSame ==
  ASSUME PermitsConserved, UNCHANGED <<exec, worker, slots, toolSlots, policySlots>>
  PROVE  PermitsConserved'
BY DEF PermitsConserved, HoldsSlot, HoldsToolSlot, HoldsPolicySlot

(* The host coroutine holds no permit itself. *)
LEMMA PermitsHost ==
  ASSUME TypeOK, Control, PermitsConserved, NEW c \in Calls, HostStep(c)
  PROVE  PermitsConserved'
<1> USE DEF hostVars, execVars, workerVars, circuit, policyVars, capacity
<1>1. CASE InvokeAdmitted(c)
  <2>1. exec[c] = "none"
    BY <1>1 DEF InvokeAdmitted, Control, InStep
  <2>2. /\ HoldsSlot(c) <=> HoldsSlot(c)'
        /\ HoldsToolSlot(c) <=> HoldsToolSlot(c)'
        /\ HoldsPolicySlot(c) <=> HoldsPolicySlot(c)'
    BY <1>1, <2>1 DEF InvokeAdmitted, HoldsSlot, HoldsToolSlot, HoldsPolicySlot, TypeOK
  <2>3. UNCHANGED <<slots, toolSlots, policySlots>>
    BY <1>1 DEF InvokeAdmitted
  <2>4. \A d \in Calls \ {c} : exec'[d] = exec[d] /\ worker'[d] = worker[d]
    BY <1>1 DEF InvokeAdmitted, TypeOK
  <2>5. /\ slots \in Int /\ slots >= 0 /\ policySlots \in Int /\ policySlots >= 0
        /\ \A t \in Tools : toolSlots[t] \in Int /\ toolSlots[t] >= 0
    BY DEF TypeOK, PermitsConserved
  <2>6. /\ One(HoldsSlot(c)) = One(HoldsSlot(c)') /\ One(HoldsSlot(c)) \in Int
        /\ One(HoldsToolSlot(c)) = One(HoldsToolSlot(c)') /\ One(HoldsToolSlot(c)) \in Int
        /\ One(HoldsPolicySlot(c)) = One(HoldsPolicySlot(c)') /\ One(HoldsPolicySlot(c)) \in Int
    BY <2>2 DEF One
  <2>7. /\ slots' = slots + One(HoldsSlot(c)) - One(HoldsSlot(c)') /\ slots' >= 0
        /\ policySlots' = policySlots + One(HoldsPolicySlot(c)) - One(HoldsPolicySlot(c)')
        /\ policySlots' >= 0
    BY <2>3, <2>5, <2>6
  <2>8. \A t \in Tools :
          /\ toolSlots'[t] = IF t = ToolOf[c]
                             THEN toolSlots[t] + One(HoldsToolSlot(c)) - One(HoldsToolSlot(c)')
                             ELSE toolSlots[t]
          /\ toolSlots'[t] >= 0
    BY <2>3, <2>5, <2>6
  <2> QED BY <2>4, <2>7, <2>8, PermitsOf
<1>2. CASE ~InvokeAdmitted(c)
  BY <1>2, PermitsSame
     DEF HostStep, InvokeRefused, HostObserves, HostTimesOut, HostCancelled,
         HostCancelledInJoin, JoinAfterTimeout, JoinAfterCancel, ProgressCloses,
         HostCancelledInClose, Return
<1> QED BY <1>1, <1>2

(* The same with the tool's semaphore described by what the step gives     *)
(* back to it: n permits, if the tool has a semaphore at all.              *)
WantsToolSlot(c) == HoldsSlot(c) \/ exec[c] = "slot_wait"

(* A step that moves one call's permits moves the semaphores as much. *)
LEMMA PermitsMove ==
  ASSUME TypeOK, PermitsConserved, NEW c \in Calls, NEW n \in {-1, 0, 1},
         \A d \in Calls \ {c} : exec'[d] = exec[d] /\ worker'[d] = worker[d],
         slots' = slots + One(HoldsSlot(c)) - One(HoldsSlot(c)'),
         slots' >= 0,
         toolSlots' = ToolSlotsPlus(c, n),
         ~HasBulkhead(c) \/ n = One(WantsToolSlot(c)) - One(WantsToolSlot(c)'),
         n = -1 => toolSlots[ToolOf[c]] > 0,
         policySlots' = policySlots + One(HoldsPolicySlot(c)) - One(HoldsPolicySlot(c)'),
         policySlots' >= 0
  PROVE  PermitsConserved'
<1>1. \A t \in Tools : toolSlots[t] \in Int /\ toolSlots[t] >= 0
  BY DEF TypeOK, PermitsConserved
<1>2. \A t \in Tools :
        toolSlots'[t] = toolSlots[t] + (IF t = ToolOf[c] /\ HasBulkhead(c) THEN n ELSE 0)
  BY ToolSlotsFacts
<1>3. /\ HoldsToolSlot(c) <=> HasBulkhead(c) /\ WantsToolSlot(c)
      /\ HoldsToolSlot(c)' <=> HasBulkhead(c) /\ WantsToolSlot(c)'
  BY DEF HoldsToolSlot, WantsToolSlot, HasBulkhead
<1>4. One(HoldsToolSlot(c)) - One(HoldsToolSlot(c)') = IF HasBulkhead(c) THEN n ELSE 0
  BY <1>3 DEF One
<1>5. \A t \in Tools :
        /\ toolSlots'[t] = IF t = ToolOf[c]
                           THEN toolSlots[t] + One(HoldsToolSlot(c)) - One(HoldsToolSlot(c)')
                           ELSE toolSlots[t]
        /\ toolSlots'[t] >= 0
  BY <1>1, <1>2, <1>4 DEF One
<1> QED BY <1>5, PermitsOf

(* Giving nothing back. *)
LEMMA NoToolSlots ==
  ASSUME TypeOK, NEW c \in Calls
  PROVE  toolSlots = ToolSlotsPlus(c, 0)
BY RuntimeAssumption DEF TypeOK, ToolSlotsPlus

(* An execution takes a permit when it passes a semaphore and gives it     *)
(* back when it is refused, cancelled or over; with a synchronous function *)
(* it passes its permits on to the thread.                                 *)
LEMMA PermitsExec ==
  ASSUME TypeOK, Control, PermitsConserved, NEW c \in Calls, ExecStep(c)
  PROVE  PermitsConserved'
<1> USE DEF hostVars, execVars, workerVars, circuit, policyVars, capacity
<1>0. /\ InStep(c) /\ toolSlots = ToolSlotsPlus(c, 0)
      /\ slots \in Int /\ slots >= 0 /\ policySlots \in Int /\ policySlots >= 0
  BY NoToolSlots DEF Control, TypeOK, PermitsConserved
<1>1. ASSUME exec[c] \notin {"none", "finished", "submitted"}
      PROVE  worker[c] = "none"
  BY <1>0, <1>1 DEF InStep
<1>2. ASSUME NEW o \in ExecOutcomes, Finishes(c, o)
      PROVE  exec'[c] = "finished" /\ \A d \in Calls \ {c} : exec'[d] = exec[d]
  BY <1>2, FinishesFacts
<1>3. ASSUME NEW now \in Clock, EntersCircuit(c, now), exec[c] \in {"created", "policy"},
             UNCHANGED <<worker, slots, toolSlots>>,
             policySlots' = policySlots + One(exec[c] = "policy")
      PROVE  PermitsConserved'
  <2>1. /\ \/ exec'[c] = IF HasBulkhead(c) THEN "tool_wait" ELSE "slot_wait"
           \/ exec'[c] = "finished"
        /\ \A d \in Calls \ {c} : exec'[d] = exec[d]
    BY <1>3, EntersCircuitFacts
  <2>2. /\ ~HoldsSlot(c) /\ ~HoldsSlot(c)' /\ ~HoldsPolicySlot(c)'
        /\ HoldsPolicySlot(c) <=> exec[c] = "policy"
        /\ ~WantsToolSlot(c) /\ (WantsToolSlot(c)' => ~HasBulkhead(c))
    BY <1>1, <1>3, <2>1 DEF HoldsSlot, HoldsPolicySlot, WantsToolSlot
  <2>3. /\ slots' = slots + One(HoldsSlot(c)) - One(HoldsSlot(c)')
        /\ policySlots' = policySlots + One(HoldsPolicySlot(c)) - One(HoldsPolicySlot(c)')
        /\ ~HasBulkhead(c) \/ 0 = One(WantsToolSlot(c)) - One(WantsToolSlot(c)')
        /\ policySlots' >= 0
    BY <1>0, <1>3, <2>2 DEF One
  <2> QED BY <1>0, <1>3, <2>1, <2>3, PermitsMove
<1>4. CASE StartsUnguarded(c)
  <2>1. policySlots' = policySlots + One(exec[c] = "policy")
    BY <1>0, <1>4 DEF StartsUnguarded, One
  <2> QED BY <1>3, <1>4, <2>1 DEF StartsUnguarded
<1>5. CASE EntersPolicy(c)
  <2>1. /\ ~HoldsSlot(c) /\ ~HoldsSlot(c)' /\ ~HoldsPolicySlot(c) /\ HoldsPolicySlot(c)'
        /\ ~WantsToolSlot(c) /\ ~WantsToolSlot(c)'
    BY <1>1, <1>5 DEF EntersPolicy, HoldsSlot, HoldsPolicySlot, WantsToolSlot, TypeOK
  <2>2. /\ slots' = slots + One(HoldsSlot(c)) - One(HoldsSlot(c)')
        /\ policySlots' = policySlots + One(HoldsPolicySlot(c)) - One(HoldsPolicySlot(c)')
        /\ 0 = One(WantsToolSlot(c)) - One(WantsToolSlot(c)')
        /\ slots' >= 0 /\ policySlots' >= 0
    BY <1>0, <1>5, <2>1 DEF EntersPolicy, One
  <2>3. \A d \in Calls \ {c} : exec'[d] = exec[d] /\ worker'[d] = worker[d]
    BY <1>5 DEF EntersPolicy, TypeOK
  <2> QED BY <1>0, <1>5, <2>2, <2>3, PermitsMove DEF EntersPolicy
<1>6. CASE PolicyAllows(c)
  <2>1. policySlots' = policySlots + One(exec[c] = "policy")
    BY <1>6 DEF PolicyAllows, PolicyMayAnswer, PolicySlotBack, One
  <2> QED BY <1>3, <1>6, <2>1 DEF PolicyAllows, PolicyMayAnswer
<1>7. CASE PolicyRefuses(c)
  <2>1. PICK o \in ExecOutcomes : Finishes(c, o)
    BY <1>7 DEF PolicyRefuses, ExecOutcomes, BodyOutcomes
  <2>2. /\ exec[c] = "policy" /\ policySlots' = policySlots + 1
        /\ UNCHANGED <<worker, slots, toolSlots>>
    BY <1>7 DEF PolicyRefuses, PolicySlotBack
  <2>3. /\ ~HoldsSlot(c) /\ ~HoldsSlot(c)' /\ HoldsPolicySlot(c) /\ ~HoldsPolicySlot(c)'
        /\ ~WantsToolSlot(c) /\ ~WantsToolSlot(c)'
    BY <1>1, <1>2, <2>1, <2>2 DEF HoldsSlot, HoldsPolicySlot, WantsToolSlot
  <2>4. /\ slots' = slots + One(HoldsSlot(c)) - One(HoldsSlot(c)')
        /\ policySlots' = policySlots + One(HoldsPolicySlot(c)) - One(HoldsPolicySlot(c)')
        /\ 0 = One(WantsToolSlot(c)) - One(WantsToolSlot(c)')
        /\ slots' >= 0 /\ policySlots' >= 0
    BY <1>0, <2>2, <2>3 DEF One
  <2> QED BY <1>0, <1>2, <2>1, <2>2, <2>4, PermitsMove
<1>8. CASE TakesToolSlot(c)
  <2>1. /\ ~HoldsSlot(c) /\ ~HoldsSlot(c)' /\ ~HoldsPolicySlot(c) /\ ~HoldsPolicySlot(c)'
        /\ ~WantsToolSlot(c) /\ WantsToolSlot(c)'
    BY <1>1, <1>8 DEF TakesToolSlot, HoldsSlot, HoldsPolicySlot, WantsToolSlot, TypeOK
  <2>2. /\ slots' = slots + One(HoldsSlot(c)) - One(HoldsSlot(c)')
        /\ policySlots' = policySlots + One(HoldsPolicySlot(c)) - One(HoldsPolicySlot(c)')
        /\ -1 = One(WantsToolSlot(c)) - One(WantsToolSlot(c)')
        /\ slots' >= 0 /\ policySlots' >= 0
    BY <1>0, <1>8, <2>1 DEF TakesToolSlot, One
  <2>3. \A d \in Calls \ {c} : exec'[d] = exec[d] /\ worker'[d] = worker[d]
    BY <1>8 DEF TakesToolSlot, TypeOK
  <2> QED BY <1>8, <2>2, <2>3, PermitsMove DEF TakesToolSlot
<1>9. CASE StartRefused(c)
  <2>1. PICK o \in ExecOutcomes : Finishes(c, o)
    BY <1>9 DEF StartRefused, ExecOutcomes
  <2>2. /\ exec[c] = "slot_wait" /\ toolSlots' = ToolSlotsPlus(c, 1)
        /\ UNCHANGED <<worker, slots, policySlots>>
    BY <1>9 DEF StartRefused, GetsSlot, Refund
  <2>3. /\ ~HoldsSlot(c) /\ ~HoldsSlot(c)' /\ ~HoldsPolicySlot(c) /\ ~HoldsPolicySlot(c)'
        /\ WantsToolSlot(c) /\ ~WantsToolSlot(c)'
    BY <1>1, <1>2, <2>1, <2>2 DEF HoldsSlot, HoldsPolicySlot, WantsToolSlot
  <2>4. /\ slots' = slots + One(HoldsSlot(c)) - One(HoldsSlot(c)')
        /\ policySlots' = policySlots + One(HoldsPolicySlot(c)) - One(HoldsPolicySlot(c)')
        /\ 1 = One(WantsToolSlot(c)) - One(WantsToolSlot(c)')
        /\ slots' >= 0 /\ policySlots' >= 0
    BY <1>0, <2>2, <2>3 DEF One
  <2> QED BY <1>2, <2>1, <2>2, <2>4, PermitsMove
<1>10. CASE StartsAsync(c) \/ StartsSync(c)
  <2>1. /\ exec[c] = "slot_wait" /\ slots > 0 /\ slots' = slots - 1
        /\ UNCHANGED <<toolSlots, policySlots>>
        /\ \A d \in Calls \ {c} : exec'[d] = exec[d] /\ worker'[d] = worker[d]
    BY <1>10 DEF StartsAsync, StartsSync, Starts, GetsSlot, TypeOK
  <2>2. \/ exec'[c] = "running" /\ worker'[c] = worker[c]
        \/ exec'[c] = "submitted" /\ worker'[c] = "queued"
    BY <1>10 DEF StartsAsync, StartsSync, TypeOK
  <2>3. /\ ~HoldsSlot(c) /\ HoldsSlot(c)' /\ ~HoldsPolicySlot(c) /\ ~HoldsPolicySlot(c)'
        /\ WantsToolSlot(c) /\ WantsToolSlot(c)'
    BY <1>1, <2>1, <2>2 DEF HoldsSlot, HoldsPolicySlot, WantsToolSlot
  <2>4. /\ slots' = slots + One(HoldsSlot(c)) - One(HoldsSlot(c)')
        /\ policySlots' = policySlots + One(HoldsPolicySlot(c)) - One(HoldsPolicySlot(c)')
        /\ 0 = One(WantsToolSlot(c)) - One(WantsToolSlot(c)')
        /\ slots' >= 0 /\ policySlots' >= 0
    BY <1>0, <2>1, <2>3 DEF One
  <2> QED BY <1>0, <2>1, <2>4, PermitsMove
<1>11. CASE AsyncEnds(c)
  <2>1. PICK o \in ExecOutcomes : Finishes(c, o)
    BY <1>11 DEF AsyncEnds, ExecOutcomes
  <2>2. /\ exec[c] = "running" /\ toolSlots' = ToolSlotsPlus(c, 1)
        /\ slots' = slots + 1 /\ UNCHANGED <<worker, policySlots>>
    BY <1>11 DEF AsyncEnds
  <2>3. /\ HoldsSlot(c) /\ ~HoldsSlot(c)' /\ ~HoldsPolicySlot(c) /\ ~HoldsPolicySlot(c)'
        /\ WantsToolSlot(c) /\ ~WantsToolSlot(c)'
    BY <1>1, <1>2, <2>1, <2>2 DEF HoldsSlot, HoldsPolicySlot, WantsToolSlot
  <2>4. /\ slots' = slots + One(HoldsSlot(c)) - One(HoldsSlot(c)')
        /\ policySlots' = policySlots + One(HoldsPolicySlot(c)) - One(HoldsPolicySlot(c)')
        /\ 1 = One(WantsToolSlot(c)) - One(WantsToolSlot(c)')
        /\ slots' >= 0 /\ policySlots' >= 0
    BY <1>0, <2>2, <2>3 DEF One
  <2> QED BY <1>2, <2>1, <2>2, <2>4, PermitsMove
<1>12. CASE CancelWaiting(c)
  <2> DEFINE n == IF exec[c] = "slot_wait" THEN 1 ELSE 0
  <2>1. Finishes(c, "cancelled") /\ "cancelled" \in ExecOutcomes
    BY <1>12 DEF CancelWaiting, ExecOutcomes, BodyOutcomes
  <2>2. /\ exec[c] \in {"created", "tool_wait", "slot_wait"}
        /\ toolSlots' = ToolSlotsPlus(c, n)
        /\ UNCHANGED <<worker, slots, policySlots>>
    BY <1>0, <1>12 DEF CancelWaiting, ToolSlotsAfterCancel
  <2>3. /\ ~HoldsSlot(c) /\ ~HoldsSlot(c)' /\ ~HoldsPolicySlot(c) /\ ~HoldsPolicySlot(c)'
        /\ WantsToolSlot(c) <=> exec[c] = "slot_wait"
        /\ ~WantsToolSlot(c)'
    BY <1>1, <1>2, <2>1, <2>2 DEF HoldsSlot, HoldsPolicySlot, WantsToolSlot
  <2>4. /\ slots' = slots + One(HoldsSlot(c)) - One(HoldsSlot(c)')
        /\ policySlots' = policySlots + One(HoldsPolicySlot(c)) - One(HoldsPolicySlot(c)')
        /\ n = One(WantsToolSlot(c)) - One(WantsToolSlot(c)')
        /\ slots' >= 0 /\ policySlots' >= 0
    BY <1>0, <2>2, <2>3 DEF One
  <2> QED BY <1>2, <2>1, <2>2, <2>4, PermitsMove
<1>13. CASE CancelSubmitted(c) \/ ReceivesResult(c)
  <2>1. PICK o \in ExecOutcomes : Finishes(c, o)
    <3>1. ReceivesResult(c) => yielded[c] \in ExecOutcomes
      BY <1>0 DEF ReceivesResult, InStep, TypeOK, ExecOutcomes
    <3> QED BY <1>13, <3>1 DEF CancelSubmitted, ReceivesResult, ExecOutcomes, BodyOutcomes
  <2>2. /\ exec[c] = "submitted" /\ UNCHANGED <<slots, toolSlots, policySlots>>
        /\ \/ worker[c] = "queued" /\ worker' = [worker EXCEPT ![c] = "notified"]
           \/ worker[c] # "queued" /\ worker' = worker
    BY <1>13 DEF CancelSubmitted, FutureCancelled, ReceivesResult
  <2>3. /\ \A d \in Calls \ {c} : worker'[d] = worker[d]
        /\ \/ worker[c] = "queued" /\ worker'[c] = "notified"
           \/ worker'[c] = worker[c]
    BY <2>2 DEF TypeOK
  <2>4. /\ HoldsSlot(c) <=> HoldsSlot(c)'
        /\ ~HoldsPolicySlot(c) /\ ~HoldsPolicySlot(c)'
        /\ WantsToolSlot(c) <=> WantsToolSlot(c)'
    BY <1>2, <2>1, <2>2, <2>3 DEF HoldsSlot, HoldsPolicySlot, WantsToolSlot
  <2>5. /\ slots' = slots + One(HoldsSlot(c)) - One(HoldsSlot(c)')
        /\ policySlots' = policySlots + One(HoldsPolicySlot(c)) - One(HoldsPolicySlot(c)')
        /\ 0 = One(WantsToolSlot(c)) - One(WantsToolSlot(c)')
        /\ slots' >= 0 /\ policySlots' >= 0
    BY <1>0, <2>2, <2>4 DEF One
  <2> QED BY <1>0, <1>2, <2>1, <2>2, <2>3, <2>5, PermitsMove
<1> QED BY <1>4, <1>5, <1>6, <1>7, <1>8, <1>9, <1>10, <1>11, <1>12, <1>13 DEF ExecStep

(* A thread gives its call's permits back in its last callback. *)
LEMMA PermitsWorker ==
  ASSUME TypeOK, Control, PermitsConserved, NEW c \in Calls, WorkerStep(c)
  PROVE  PermitsConserved'
<1> USE DEF hostVars, execVars, workerVars, circuit, policyVars, capacity
<1>0. /\ InStep(c) /\ toolSlots = ToolSlotsPlus(c, 0)
      /\ slots \in Int /\ slots >= 0 /\ policySlots \in Int /\ policySlots >= 0
  BY NoToolSlots DEF Control, TypeOK, PermitsConserved
<1>1. CASE WorkerStarts(c) \/ WorkerEnds(c) \/ WorkerRecords(c) \/ WorkerNotifies(c)
  <2>1. PICK w \in {"running", "returned", "recorded", "notified"} :
          worker' = [worker EXCEPT ![c] = w]
    BY <1>1 DEF WorkerStarts, WorkerEnds, WorkerRecords, WorkerNotifies
  <2>2. /\ worker[c] \in {"queued", "running", "returned", "recorded"}
        /\ UNCHANGED <<exec, slots, toolSlots, policySlots>>
    BY <1>1 DEF WorkerStarts, WorkerEnds, WorkerRecords, WorkerNotifies
  <2>3. \A d \in Calls \ {c} : exec'[d] = exec[d] /\ worker'[d] = worker[d]
    BY <2>1, <2>2 DEF TypeOK
  <2>4. /\ HoldsSlot(c) /\ HoldsSlot(c)' /\ WantsToolSlot(c) /\ WantsToolSlot(c)'
        /\ HoldsPolicySlot(c) <=> HoldsPolicySlot(c)'
    BY <2>1, <2>2 DEF HoldsSlot, HoldsPolicySlot, WantsToolSlot, TypeOK
  <2>5. /\ slots' = slots + One(HoldsSlot(c)) - One(HoldsSlot(c)')
        /\ policySlots' = policySlots + One(HoldsPolicySlot(c)) - One(HoldsPolicySlot(c)')
        /\ 0 = One(WantsToolSlot(c)) - One(WantsToolSlot(c)')
        /\ slots' >= 0 /\ policySlots' >= 0
    BY <1>0, <2>2, <2>4 DEF One
  <2> QED BY <1>0, <2>2, <2>3, <2>5, PermitsMove
<1>2. CASE ReleasesSlots(c)
  <2>1. /\ worker[c] = "notified" /\ worker' = [worker EXCEPT ![c] = "released"]
        /\ slots' = slots + 1 /\ toolSlots' = ToolSlotsPlus(c, 1)
        /\ UNCHANGED <<exec, policySlots>>
    BY <1>2 DEF ReleasesSlots
  <2>2. \A d \in Calls \ {c} : exec'[d] = exec[d] /\ worker'[d] = worker[d]
    BY <2>1 DEF TypeOK
  <2>3. exec[c] \in {"submitted", "finished"}
    BY <1>0, <2>1 DEF InStep
  <2>4. /\ HoldsSlot(c) /\ ~HoldsSlot(c)' /\ WantsToolSlot(c) /\ ~WantsToolSlot(c)'
        /\ ~HoldsPolicySlot(c) /\ ~HoldsPolicySlot(c)'
    BY <2>1, <2>3 DEF HoldsSlot, HoldsPolicySlot, WantsToolSlot, TypeOK
  <2>5. /\ slots' = slots + One(HoldsSlot(c)) - One(HoldsSlot(c)')
        /\ policySlots' = policySlots + One(HoldsPolicySlot(c)) - One(HoldsPolicySlot(c)')
        /\ 1 = One(WantsToolSlot(c)) - One(WantsToolSlot(c)')
        /\ slots' >= 0 /\ policySlots' >= 0
    BY <1>0, <2>1, <2>4 DEF One
  <2> QED BY <2>1, <2>2, <2>5, PermitsMove
<1> QED BY <1>1, <1>2 DEF WorkerStep

(***************************************************************************)
(* PermitsConserved for every number of calls, tools and permits: refusal, *)
(* failure, timeout, cancellation and threads that outlive their calls     *)
(* lose no permit of the global, tool or policy semaphores and return none *)
(* twice.                                                                  *)
(***************************************************************************)
THEOREM PermitsAreConserved == Spec => []PermitsConserved
<1>1. \/ CloseBegins \/ CloseInterrupted \/ CloseJoined
      \/ \E t \in Tools : Refill(t)
      \/ UNCHANGED vars
      => UNCHANGED <<exec, worker, slots, toolSlots, policySlots>>
  BY DEF CloseBegins, CloseInterrupted, CloseJoined, Refill, vars, hostVars, execVars,
         workerVars, circuit, policyVars, capacity
<1>2. TypeOK /\ Control /\ PermitsConserved /\ [Next]_vars => PermitsConserved'
  BY <1>1, StepCases, PermitsHost, PermitsExec, PermitsWorker, PermitsSame
<1> QED BY <1>2, PermitsInit, RuntimeTypesHold, ActivitiesInStep, PTL DEF Spec

-----------------------------------------------------------------------------
(* Books: every counter and gauge counts calls.                            *)

(* The gauges of the books are not statuses, nor the trip counter.         *)
LEMMA GaugeNames ==
  /\ {"calls_total", "pending_invocations", "in_flight", "circuit_breaker_trips"} = Gauges
  /\ \A s \in Statuses : s \notin Gauges
  /\ "none" \notin Statuses /\ "aborted" \notin Statuses
BY DEF Gauges, Statuses, Refusals

(* A call's own step keeps the books if each counter moves with the call.  *)
LEMMA BooksOf ==
  ASSUME MetricsConserved, TypeOK', NEW c \in Calls,
         \A d \in Calls \ {c} : /\ host'[d] = host[d] /\ status'[d] = status[d]
                                /\ exec'[d] = exec[d] /\ worker'[d] = worker[d],
         counters'["pending_invocations"] =
           counters["pending_invocations"] + One(Pends(c)') - One(Pends(c)),
         Pends(c) \/ ~Pends(c)' \/ counters["pending_invocations"] < MaxPending,
         counters'["in_flight"] = counters["in_flight"] + One(Runs(c)') - One(Runs(c)),
         counters'["calls_total"] =
           counters["calls_total"] + One(host'[c] # "idle") - One(host[c] # "idle"),
         \A s \in Statuses :
           counters'[s] = counters[s] + One(status'[c] = s) - One(status[c] = s)
  PROVE  MetricsConserved'
<1> DEFINE Pending == {d \in Calls : Pends(d)}
           Running == {d \in Calls : Runs(d)}
           Begun   == {d \in Calls : host[d] # "idle"}
           With(s) == {d \in Calls : status[d] = s}
<1>0. /\ \A k \in Statuses \cup Gauges : counters[k] \in Int
      /\ MaxPending \in Nat
  BY RuntimeAssumption DEF MetricsConserved, TypeOK
<1>1. /\ counters'["pending_invocations"] = Cardinality(Pending')
      /\ counters'["pending_invocations"] <= MaxPending
  <2>1. \A d \in Calls \ {c} : d \in Pending <=> d \in Pending'
    BY DEF Pends
  <2>2. /\ Cardinality(Pending) \in Nat /\ Cardinality(Pending') \in Nat
        /\ Cardinality(Pending') = Cardinality(Pending) + One(c \in Pending') - One(c \in Pending)
    BY <2>1, OneMoves
  <2>3. c \in Pending <=> Pends(c)
    OBVIOUS
  <2>4. c \in Pending' <=> Pends(c)'
    OBVIOUS
  <2>5. /\ counters["pending_invocations"] = Cardinality(Pending)
        /\ counters["pending_invocations"] <= MaxPending
    BY DEF MetricsConserved
  <2> HIDE DEF Pending
  <2> QED BY <1>0, <2>2, <2>3, <2>4, <2>5, GaugeNames DEF One
<1>2. counters'["in_flight"] = Cardinality(Running')
  <2>1. \A d \in Calls \ {c} : d \in Running <=> d \in Running'
    BY DEF Runs
  <2>2. /\ Cardinality(Running) \in Nat /\ Cardinality(Running') \in Nat
        /\ Cardinality(Running') = Cardinality(Running) + One(c \in Running') - One(c \in Running)
    BY <2>1, OneMoves
  <2>3. c \in Running <=> Runs(c)
    OBVIOUS
  <2>4. c \in Running' <=> Runs(c)'
    OBVIOUS
  <2>5. counters["in_flight"] = Cardinality(Running)
    BY DEF MetricsConserved
  <2> HIDE DEF Running
  <2> QED BY <1>0, <2>2, <2>3, <2>4, <2>5, GaugeNames DEF One
<1>3. counters'["calls_total"] = Cardinality(Begun')
  <2>1. \A d \in Calls \ {c} : d \in Begun <=> d \in Begun'
    OBVIOUS
  <2>2. /\ Cardinality(Begun) \in Nat /\ Cardinality(Begun') \in Nat
        /\ Cardinality(Begun') = Cardinality(Begun) + One(c \in Begun') - One(c \in Begun)
    BY <2>1, OneMoves
  <2>3. c \in Begun <=> host[c] # "idle"
    OBVIOUS
  <2>4. c \in Begun' <=> host'[c] # "idle"
    OBVIOUS
  <2>5. counters["calls_total"] = Cardinality(Begun)
    BY DEF MetricsConserved
  <2> HIDE DEF Begun
  <2> QED BY <1>0, <2>2, <2>3, <2>4, <2>5, GaugeNames DEF One
<1>4. ASSUME NEW s \in Statuses
      PROVE  counters'[s] = Cardinality(With(s)')
  <2>1. \A d \in Calls \ {c} : d \in With(s) <=> d \in With(s)'
    OBVIOUS
  <2>2. /\ Cardinality(With(s)) \in Nat /\ Cardinality(With(s)') \in Nat
        /\ Cardinality(With(s)') = Cardinality(With(s)) + One(c \in With(s)') - One(c \in With(s))
    BY <2>1, OneMoves
  <2>3. c \in With(s) <=> status[c] = s
    OBVIOUS
  <2>4. c \in With(s)' <=> status'[c] = s
    OBVIOUS
  <2>5. counters[s] = Cardinality(With(s))
    BY DEF MetricsConserved
  <2> HIDE DEF With
  <2> QED BY <1>0, <2>2, <2>3, <2>4, <2>5 DEF One
<1> QED BY <1>1, <1>2, <1>3, <1>4 DEF MetricsConserved

(* Nothing has been counted. *)
LEMMA BooksInit == Init => MetricsConserved
<1> SUFFICES ASSUME Init PROVE MetricsConserved
  OBVIOUS
<1>1. /\ {c \in Calls : Pends(c)} = {} /\ {c \in Calls : Runs(c)} = {}
      /\ {c \in Calls : host[c] # "idle"} = {}
      /\ \A s \in Statuses : {c \in Calls : status[c] = s} = {}
  BY GaugeNames DEF Init, Pends, Runs
<1>2. \A k \in Statuses \cup Gauges : counters[k] = 0
  BY DEF Init
<1>3. /\ counters["pending_invocations"] = 0 /\ counters["in_flight"] = 0
      /\ counters["calls_total"] = 0 /\ 0 <= MaxPending
  BY <1>2, GaugeNames, RuntimeAssumption
<1>4. \A s \in Statuses : counters[s] = Cardinality({c \in Calls : status[c] = s})
  BY <1>1, <1>2, FS_EmptySet
<1>5. /\ Cardinality({c \in Calls : Pends(c)}) = 0
      /\ Cardinality({c \in Calls : Runs(c)}) = 0
      /\ Cardinality({c \in Calls : host[c] # "idle"}) = 0
  BY <1>1, FS_EmptySet
<1> QED BY <1>3, <1>4, <1>5, TypeInit DEF MetricsConserved

(* A handler that decides on a status with a counter counts it once.       *)
LEMMA BooksLeave ==
  ASSUME MetricsConserved, TypeOK', NEW c \in Calls, NEW s \in Statuses \cup {"aborted"},
         NEW up, Leaves(c, s, up),
         host[c] \in {"waiting", "timeout_join", "cancel_join"}, status[c] = "none",
         UNCHANGED <<exec, worker>>,
         \A k \in Statuses : k \in up <=> k = s,
         \A k \in Gauges : k \in up => k = "circuit_breaker_trips"
  PROVE  MetricsConserved'
<1> DEFINE down == IF c \in ProgressCalls THEN {} ELSE {"pending_invocations"}
<1>1. /\ TypeOK /\ counters' = Bump(up, down)
      /\ counters \in [Statuses \cup Gauges -> Int]
  BY DEF MetricsConserved, TypeOK, Leaves
<1>2. s \in Statuses \cup {"none", "aborted"}
  OBVIOUS
<1>3. /\ host'[c] = IF c \in ProgressCalls THEN "closing" ELSE "done"
      /\ status'[c] = s
      /\ \A d \in Calls : d # c => host'[d] = host[d] /\ status'[d] = status[d]
  BY <1>1, <1>2, LeavesFacts DEF Leaves, TypeOK
<1>4. Pends(c) /\ (Pends(c)' <=> c \in ProgressCalls) /\ (Runs(c) <=> Runs(c)')
  BY <1>3 DEF Pends, Runs
<1>5. /\ counters'["pending_invocations"] =
           counters["pending_invocations"] + One(Pends(c)') - One(Pends(c))
      /\ counters'["in_flight"] = counters["in_flight"] + One(Runs(c)') - One(Runs(c))
      /\ counters'["calls_total"] =
           counters["calls_total"] + One(host'[c] # "idle") - One(host[c] # "idle")
  <2> HIDE DEF down
  <2>1. \A k \in Gauges :
          /\ counters[k] \in Int
          /\ counters'[k] = counters[k] - One(k \in down) + One(k \in up)
    BY <1>1 DEF Bump, One
  <2>2. \A k \in Gauges : k \in down <=> k = "pending_invocations" /\ c \notin ProgressCalls
    BY DEF down
  <2> QED BY <1>3, <1>4, <2>1, <2>2, GaugeNames DEF One
<1>6. \A k \in Statuses :
        counters'[k] = counters[k] + One(status'[c] = k) - One(status[c] = k)
  <2>1. \A k \in Statuses : counters[k] \in Int /\ k \notin down
    BY <1>1, GaugeNames
  <2>2. \A k \in Statuses : counters'[k] = counters[k] + One(k \in up)
    BY <1>1, <2>1 DEF Bump, One
  <2> QED BY <1>3, <2>1, <2>2, GaugeNames DEF One
<1> QED BY <1>3, <1>4, <1>5, <1>6, BooksOf

(* Admission, refusal, decision and return each move their own counters.   *)
LEMMA BooksHost ==
  ASSUME MetricsConserved, Control, NEW c \in Calls, HostStep(c)
  PROVE  MetricsConserved'
<1> USE DEF hostVars, execVars, workerVars
<1>0. /\ TypeOK /\ TypeOK' /\ InStep(c)
      /\ counters \in [Statuses \cup Gauges -> Int]
      /\ \A k \in Statuses \cup Gauges : counters[k] \in Int
  BY TypeHost DEF MetricsConserved, Control, TypeOK
<1>1. ASSUME host[c] \in {"waiting", "timeout_join", "cancel_join"}
      PROVE  status[c] = "none"
  BY <1>0, <1>1 DEF InStep
<1>2. \A report : \A k \in Tripped(c, report) : k = "circuit_breaker_trips" /\ k \notin Statuses
  BY CountedStatuses, GaugeNames
<1>3. CASE InvokeRefused(c)
  <2>1. PICK r \in RefusalReasons :
          /\ status' = [status EXCEPT ![c] = r]
          /\ counters' = Bump({"calls_total"} \cup Counted(r), {})
    BY <1>3 DEF InvokeRefused
  <2>2. r \in Statuses \cup {"aborted"} /\ (\A k : k \in Counted(r) <=> k \in Statuses /\ k = r)
    BY DEF RefusalReasons, Statuses, Refusals, Counted
  <2>3. /\ host[c] = "idle" /\ host'[c] = "done" /\ status'[c] = r /\ status[c] = "none"
        /\ \A d \in Calls \ {c} : /\ host'[d] = host[d] /\ status'[d] = status[d]
                                  /\ exec'[d] = exec[d] /\ worker'[d] = worker[d]
    BY <1>0, <1>3, <2>1 DEF InvokeRefused, InStep, TypeOK
  <2>4. ~Pends(c) /\ ~Pends(c)' /\ (Runs(c) <=> Runs(c)')
    BY <1>3, <2>3 DEF InvokeRefused, Pends, Runs
  <2>5. \A k \in Gauges : counters'[k] = counters[k] + One(k = "calls_total")
    BY <1>0, <2>1, <2>2, GaugeNames DEF Bump, One
  <2>6. \A k \in Statuses : counters'[k] = counters[k] + One(k = r)
    BY <1>0, <2>1, <2>2, GaugeNames DEF Bump, One
  <2>7. /\ counters'["pending_invocations"] =
             counters["pending_invocations"] + One(Pends(c)') - One(Pends(c))
        /\ counters'["in_flight"] = counters["in_flight"] + One(Runs(c)') - One(Runs(c))
        /\ counters'["calls_total"] =
             counters["calls_total"] + One(host'[c] # "idle") - One(host[c] # "idle")
    BY <1>0, <2>3, <2>4, <2>5, GaugeNames DEF One
  <2>8. \A k \in Statuses :
          counters'[k] = counters[k] + One(status'[c] = k) - One(status[c] = k)
    BY <1>0, <2>3, <2>6, GaugeNames DEF One
  <2> QED BY <1>0, <2>3, <2>4, <2>7, <2>8, BooksOf
<1>4. CASE InvokeAdmitted(c)
  <2>1. /\ host[c] = "idle" /\ host'[c] = "waiting" /\ exec[c] = "none" /\ exec'[c] = "created"
        /\ worker' = worker /\ status' = status
        /\ counters["pending_invocations"] < MaxPending
        /\ counters' = Bump({"calls_total", "pending_invocations"}, {})
        /\ \A d \in Calls \ {c} : host'[d] = host[d] /\ exec'[d] = exec[d]
    BY <1>0, <1>4 DEF InvokeAdmitted, InStep, TypeOK
  <2>2. ~Pends(c) /\ Pends(c)' /\ (Runs(c) <=> Runs(c)')
    BY <2>1 DEF Pends, Runs
  <2>3. \A k \in Gauges :
          counters'[k] = counters[k] + One(k \in {"calls_total", "pending_invocations"})
    BY <1>0, <2>1 DEF Bump, One
  <2>4. \A k \in Statuses :
          counters'[k] = counters[k] + One(status'[c] = k) - One(status[c] = k)
    BY <1>0, <2>1, GaugeNames DEF Bump, One
  <2>5. /\ counters'["pending_invocations"] =
             counters["pending_invocations"] + One(Pends(c)') - One(Pends(c))
        /\ counters'["in_flight"] = counters["in_flight"] + One(Runs(c)') - One(Runs(c))
        /\ counters'["calls_total"] =
             counters["calls_total"] + One(host'[c] # "idle") - One(host[c] # "idle")
    BY <1>0, <2>1, <2>2, <2>3, GaugeNames DEF One
  <2> QED BY <1>0, <2>1, <2>2, <2>4, <2>5, BooksOf
<1>5. CASE HostObserves(c)
  <2> DEFINE s == StatusOf(outcome[c])
             up == Counted(s) \cup Tripped(c, ReportOf(outcome[c]))
  <2>1. /\ Leaves(c, s, up) /\ host[c] = "waiting" /\ UNCHANGED <<exec, worker>>
    BY <1>5 DEF HostObserves
  <2>2. s \in Statuses \cup {"aborted"}
    <3>1. outcome[c] # "none" /\ outcome[c] \in ExecOutcomes \cup {"none"}
      BY <1>0, <1>5 DEF HostObserves, InStep, TypeOK
    <3> QED BY <3>1, ReportsAndStatuses
  <2>3. /\ \A k \in Statuses : k \in up <=> k = s
        /\ \A k \in Gauges : k \in up => k = "circuit_breaker_trips"
    BY <1>2, <2>2, GaugeNames DEF Counted
  <2> HIDE DEF s, up
  <2> QED BY <1>0, <1>1, <2>1, <2>2, <2>3, BooksLeave
<1>6. CASE HostTimesOut(c)
  <2>1. /\ host[c] = "waiting" /\ host' = [host EXCEPT ![c] = "timeout_join"]
        /\ counters' = Bump(Tripped(c, "fail"), {})
        /\ UNCHANGED <<status, exec, worker>>
    BY <1>6 DEF HostTimesOut
  <2>2. /\ host'[c] = "timeout_join" /\ \A d \in Calls \ {c} : host'[d] = host[d]
        /\ Pends(c) /\ Pends(c)' /\ (Runs(c) <=> Runs(c)')
    BY <1>0, <2>1 DEF Pends, Runs, TypeOK
  <2>3. \A k \in Statuses \cup Gauges : k # "circuit_breaker_trips" => counters'[k] = counters[k]
    BY <1>0, <1>2, <2>1 DEF Bump
  <2>4. \A k \in Statuses :
          counters'[k] = counters[k] + One(status'[c] = k) - One(status[c] = k)
    BY <1>0, <2>1, <2>3, GaugeNames DEF One
  <2>5. /\ counters'["pending_invocations"] =
             counters["pending_invocations"] + One(Pends(c)') - One(Pends(c))
        /\ counters'["in_flight"] = counters["in_flight"] + One(Runs(c)') - One(Runs(c))
        /\ counters'["calls_total"] =
             counters["calls_total"] + One(host'[c] # "idle") - One(host[c] # "idle")
    BY <1>0, <2>1, <2>2, <2>3, GaugeNames DEF One
  <2> QED BY <1>0, <2>1, <2>2, <2>4, <2>5, BooksOf
<1>7. CASE HostCancelled(c)
  <2>1. /\ host[c] = "waiting" /\ host' = [host EXCEPT ![c] = "cancel_join"]
        /\ UNCHANGED <<status, exec, worker, counters>>
    BY <1>7 DEF HostCancelled
  <2>2. /\ host'[c] = "cancel_join" /\ \A d \in Calls \ {c} : host'[d] = host[d]
        /\ Pends(c) /\ Pends(c)' /\ (Runs(c) <=> Runs(c)')
    BY <1>0, <2>1 DEF Pends, Runs, TypeOK
  <2>3. \A k \in Statuses :
          counters'[k] = counters[k] + One(status'[c] = k) - One(status[c] = k)
    BY <1>0, <2>1 DEF One
  <2>4. /\ counters'["pending_invocations"] =
             counters["pending_invocations"] + One(Pends(c)') - One(Pends(c))
        /\ counters'["in_flight"] = counters["in_flight"] + One(Runs(c)') - One(Runs(c))
        /\ counters'["calls_total"] =
             counters["calls_total"] + One(host'[c] # "idle") - One(host[c] # "idle")
    BY <1>0, <2>1, <2>2, GaugeNames DEF One
  <2> QED BY <1>0, <2>1, <2>2, <2>3, <2>4, BooksOf
<1>8. CASE HostCancelledInJoin(c)
  <2>1. CASE exec[c] = "finished"
    <3>1. /\ Leaves(c, "timed_out", {"timed_out"}) /\ host[c] = "timeout_join"
          /\ UNCHANGED <<exec, worker>>
      BY <1>8, <2>1 DEF HostCancelledInJoin
    <3>2. /\ "timed_out" \in Statuses
          /\ \A k \in Statuses : k \in {"timed_out"} <=> k = "timed_out"
          /\ \A k \in Gauges : k \in {"timed_out"} => k = "circuit_breaker_trips"
      BY GaugeNames DEF Statuses
    <3> QED BY <1>0, <1>1, <3>1, <3>2, BooksLeave
  <2>2. CASE exec[c] # "finished"
    <3>1. UNCHANGED <<host, status, exec, worker, counters>>
      BY <1>8, <2>2 DEF HostCancelledInJoin
    <3> QED BY <1>0, <3>1 DEF MetricsConserved, Pends, Runs
  <2> QED BY <2>1, <2>2
<1>9. CASE JoinAfterTimeout(c)
  <2>1. PICK s \in {"timed_out", "aborted"} : Leaves(c, s, Counted(s))
    BY <1>9 DEF JoinAfterTimeout
  <2>2. host[c] = "timeout_join" /\ UNCHANGED <<exec, worker>>
    BY <1>9 DEF JoinAfterTimeout
  <2>3. /\ s \in Statuses \cup {"aborted"}
        /\ \A k \in Statuses : k \in Counted(s) <=> k = s
        /\ \A k \in Gauges : k \in Counted(s) => k = "circuit_breaker_trips"
    BY GaugeNames DEF Statuses, Counted
  <2> QED BY <1>0, <1>1, <2>1, <2>2, <2>3, BooksLeave
<1>10. CASE JoinAfterCancel(c)
  <2>1. PICK s \in {"cancelled", "aborted"} :
          Leaves(c, s, IF s = "cancelled" THEN {"cancelled"} ELSE {})
    BY <1>10 DEF JoinAfterCancel
  <2>2. host[c] = "cancel_join" /\ UNCHANGED <<exec, worker>>
    BY <1>10 DEF JoinAfterCancel
  <2> DEFINE up == IF s = "cancelled" THEN {"cancelled"} ELSE {}
  <2>3. /\ s \in Statuses \cup {"aborted"}
        /\ \A k \in Statuses : k \in up <=> k = s
        /\ \A k \in Gauges : k \in up => k = "circuit_breaker_trips"
    BY GaugeNames DEF Statuses
  <2> HIDE DEF up
  <2> QED BY <1>0, <1>1, <2>1, <2>2, <2>3, BooksLeave DEF up
<1>11. CASE ProgressCloses(c) \/ HostCancelledInClose(c)
  <2>1. PICK r : Return(c, r)
    BY <1>11 DEF ProgressCloses, HostCancelledInClose
  <2>2. /\ host[c] = "closing" /\ host' = [host EXCEPT ![c] = "done"]
        /\ counters' = Bump({}, {"pending_invocations"})
        /\ UNCHANGED <<status, exec, worker>>
    BY <2>1 DEF Return
  <2>3. /\ host'[c] = "done" /\ \A d \in Calls \ {c} : host'[d] = host[d]
        /\ Pends(c) /\ ~Pends(c)' /\ (Runs(c) <=> Runs(c)')
    BY <1>0, <2>2 DEF Pends, Runs, TypeOK
  <2>4. \A k \in Statuses \cup Gauges :
          counters'[k] = counters[k] - One(k = "pending_invocations")
    BY <1>0, <2>2 DEF Bump, One
  <2>5. \A k \in Statuses :
          counters'[k] = counters[k] + One(status'[c] = k) - One(status[c] = k)
    BY <1>0, <2>2, <2>4, GaugeNames DEF One
  <2>6. /\ counters'["pending_invocations"] =
             counters["pending_invocations"] + One(Pends(c)') - One(Pends(c))
        /\ counters'["in_flight"] = counters["in_flight"] + One(Runs(c)') - One(Runs(c))
        /\ counters'["calls_total"] =
             counters["calls_total"] + One(host'[c] # "idle") - One(host[c] # "idle")
    BY <1>0, <2>2, <2>3, <2>4, GaugeNames DEF One
  <2> QED BY <1>0, <2>2, <2>3, <2>5, <2>6, BooksOf
<1> QED BY <1>3, <1>4, <1>5, <1>6, <1>7, <1>8, <1>9, <1>10, <1>11 DEF HostStep

(* A step of an execution or a thread moves at most the gauge in_flight    *)
(* and the trip counter.                                                   *)
LEMMA BooksRun ==
  ASSUME MetricsConserved, TypeOK', NEW c \in Calls, UNCHANGED <<host, status>>,
         \A d \in Calls \ {c} : exec'[d] = exec[d] /\ worker'[d] = worker[d],
         \A k \in (Statuses \cup Gauges) \ {"in_flight", "circuit_breaker_trips"} :
           counters'[k] = counters[k],
         counters'["in_flight"] = counters["in_flight"] + One(Runs(c)') - One(Runs(c))
  PROVE  MetricsConserved'
<1>1. \A k \in Statuses \cup Gauges : counters[k] \in Int
  BY DEF MetricsConserved, TypeOK
<1>2. Pends(c) <=> Pends(c)'
  BY DEF Pends
<1>3. /\ counters'["pending_invocations"] =
           counters["pending_invocations"] + One(Pends(c)') - One(Pends(c))
      /\ counters'["calls_total"] =
           counters["calls_total"] + One(host'[c] # "idle") - One(host[c] # "idle")
  BY <1>1, <1>2, GaugeNames DEF One
<1>4. \A k \in Statuses :
        counters'[k] = counters[k] + One(status'[c] = k) - One(status[c] = k)
  BY <1>1, GaugeNames DEF One
<1> QED BY <1>2, <1>3, <1>4, BooksOf

(* Executions: a coroutine's body starts and ends. *)
LEMMA BooksExec ==
  ASSUME MetricsConserved, Control, NEW c \in Calls, ExecStep(c)
  PROVE  MetricsConserved'
<1> USE DEF hostVars, execVars, workerVars
<1>0. /\ TypeOK /\ TypeOK' /\ InStep(c)
      /\ counters \in [Statuses \cup Gauges -> Int]
      /\ \A k \in Statuses \cup Gauges : counters[k] \in Int
      /\ "in_flight" \in Statuses \cup Gauges
  BY TypeExec, GaugeNames DEF MetricsConserved, Control, TypeOK
<1>1. \A report : \A k \in Tripped(c, report) : k = "circuit_breaker_trips"
  BY CountedStatuses
<1>2. ASSUME NEW o \in ExecOutcomes, Finishes(c, o)
      PROVE  exec'[c] = "finished" /\ \A d \in Calls \ {c} : exec'[d] = exec[d]
  BY <1>0, <1>2, FinishesFacts
<1>3. ASSUME UNCHANGED <<host, status, counters>>,
             \A d \in Calls \ {c} : exec'[d] = exec[d] /\ worker'[d] = worker[d],
             Runs(c) <=> Runs(c)'
      PROVE  MetricsConserved'
  <2>1. counters'["in_flight"] = counters["in_flight"] + One(Runs(c)') - One(Runs(c))
    BY <1>0, <1>3 DEF One
  <2> QED BY <1>0, <1>3, <2>1, BooksRun
<1>4. ASSUME exec[c] \notin {"none", "finished", "submitted"}
      PROVE  worker[c] = "none"
  BY <1>0, <1>4 DEF InStep
<1>5. CASE StartsUnguarded(c) \/ PolicyAllows(c)
  <2>1. PICK now \in Clock : EntersCircuit(c, now)
    BY <1>5 DEF StartsUnguarded, PolicyAllows
  <2>2. /\ exec'[c] # "running" /\ \A d \in Calls \ {c} : exec'[d] = exec[d]
    BY <1>0, <2>1, EntersCircuitFacts
  <2>3. exec[c] \in {"created", "policy"} /\ UNCHANGED <<host, status, worker, counters>>
    BY <1>5 DEF StartsUnguarded, PolicyAllows, PolicyMayAnswer
  <2>4. Runs(c) <=> Runs(c)'
    BY <2>2, <2>3 DEF Runs
  <2> QED BY <1>3, <2>2, <2>3, <2>4
<1>6. CASE EntersPolicy(c) \/ TakesToolSlot(c)
  <2>1. PICK e \in {"policy", "slot_wait"} : exec' = [exec EXCEPT ![c] = e]
    BY <1>6 DEF EntersPolicy, TakesToolSlot
  <2>2. exec[c] \in {"created", "tool_wait"} /\ UNCHANGED <<host, status, worker, counters>>
    BY <1>6 DEF EntersPolicy, TakesToolSlot
  <2>3. exec'[c] = e /\ \A d \in Calls \ {c} : exec'[d] = exec[d]
    BY <1>0, <2>1 DEF TypeOK
  <2>4. Runs(c) <=> Runs(c)'
    BY <2>2, <2>3 DEF Runs
  <2> QED BY <1>3, <2>2, <2>3, <2>4
<1>7. CASE PolicyRefuses(c) \/ StartRefused(c) \/ CancelWaiting(c) \/ ReceivesResult(c)
  <2>1. PICK o \in ExecOutcomes : Finishes(c, o)
    <3>1. ReceivesResult(c) => yielded[c] \in ExecOutcomes
      BY <1>0 DEF ReceivesResult, InStep, TypeOK, ExecOutcomes
    <3> QED BY <1>7, <3>1 DEF PolicyRefuses, StartRefused, CancelWaiting, ReceivesResult,
                              ExecOutcomes, BodyOutcomes
  <2>2. /\ exec[c] \in {"policy", "created", "tool_wait", "slot_wait", "submitted"}
        /\ UNCHANGED <<host, status, worker, counters>>
    BY <1>7 DEF PolicyRefuses, StartRefused, GetsSlot, CancelWaiting, ReceivesResult
  <2>3. Runs(c) <=> Runs(c)'
    BY <1>2, <2>1, <2>2 DEF Runs
  <2> QED BY <1>2, <1>3, <2>1, <2>2, <2>3
<1>8. CASE StartsAsync(c)
  <2>1. /\ exec[c] = "slot_wait" /\ exec' = [exec EXCEPT ![c] = "running"]
        /\ counters' = Bump({"in_flight"}, {})
        /\ UNCHANGED <<host, status, worker>>
    BY <1>8 DEF StartsAsync, Starts, GetsSlot
  <2>2. /\ exec'[c] = "running" /\ \A d \in Calls \ {c} : exec'[d] = exec[d]
        /\ ~Runs(c) /\ Runs(c)'
    BY <1>0, <1>4, <2>1 DEF Runs, TypeOK
  <2>3. /\ \A k \in Statuses \cup Gauges : k # "in_flight" => counters'[k] = counters[k]
        /\ counters'["in_flight"] = counters["in_flight"] + One(Runs(c)') - One(Runs(c))
    BY <1>0, <2>1, <2>2 DEF Bump, One
  <2> QED BY <1>0, <2>1, <2>2, <2>3, BooksRun
<1>9. CASE StartsSync(c)
  <2>1. /\ exec[c] = "slot_wait" /\ exec' = [exec EXCEPT ![c] = "submitted"]
        /\ worker' = [worker EXCEPT ![c] = "queued"]
        /\ UNCHANGED <<host, status, counters>>
    BY <1>9 DEF StartsSync, Starts, GetsSlot
  <2>2. /\ \A d \in Calls \ {c} : exec'[d] = exec[d] /\ worker'[d] = worker[d]
        /\ ~Runs(c) /\ ~Runs(c)'
    BY <1>0, <1>4, <2>1 DEF Runs, TypeOK
  <2> QED BY <1>3, <2>1, <2>2
<1>10. CASE AsyncEnds(c)
  <2>1. PICK o \in ExecOutcomes : Finishes(c, o)
    BY <1>10 DEF AsyncEnds, ExecOutcomes
  <2>2. PICK up \in {{}} \cup {Tripped(c, report) : report \in Outcomes} :
          counters' = Bump(up, {"in_flight"})
    <3>1. PICK b \in BodyOutcomes : \/ counters' = Bump(Tripped(c, ReportOf(b)), {"in_flight"})
                                    \/ counters' = Bump({}, {"in_flight"})
      BY <1>10 DEF AsyncEnds
    <3>2. ReportOf(b) \in Outcomes
      BY ReportsAndStatuses DEF ExecOutcomes
    <3> QED BY <3>1, <3>2
  <2>3. exec[c] = "running" /\ UNCHANGED <<host, status, worker>>
    BY <1>10 DEF AsyncEnds
  <2>4. Runs(c) /\ ~Runs(c)'
    BY <1>2, <1>4, <2>1, <2>3 DEF Runs
  <2>5. \A k \in up : k = "circuit_breaker_trips"
    BY <1>1, <2>2
  <2>6. /\ \A k \in (Statuses \cup Gauges) \ {"in_flight", "circuit_breaker_trips"} :
             counters'[k] = counters[k]
        /\ counters'["in_flight"] = counters["in_flight"] + One(Runs(c)') - One(Runs(c))
    BY <1>0, <2>2, <2>4, <2>5 DEF Bump, One
  <2> QED BY <1>0, <1>2, <2>1, <2>3, <2>6, BooksRun
<1>11. CASE CancelSubmitted(c)
  <2>1. Finishes(c, "cancelled") /\ "cancelled" \in ExecOutcomes
    BY <1>11 DEF CancelSubmitted, ExecOutcomes, BodyOutcomes
  <2>2. /\ exec[c] = "submitted" /\ UNCHANGED <<host, status>>
        /\ \/ /\ worker[c] = "queued" /\ worker' = [worker EXCEPT ![c] = "notified"]
              /\ counters' = Bump(Tripped(c, "fail"), {})
           \/ UNCHANGED <<worker, counters>>
    BY <1>11 DEF CancelSubmitted, FutureCancelled
  <2>3. \A d \in Calls \ {c} : exec'[d] = exec[d] /\ worker'[d] = worker[d]
    BY <1>0, <1>2, <2>1, <2>2 DEF TypeOK
  <2>4. Runs(c) <=> Runs(c)'
    BY <1>0, <1>2, <2>1, <2>2 DEF Runs, TypeOK
  <2>5. \A k \in (Statuses \cup Gauges) \ {"circuit_breaker_trips"} :
          counters'[k] = counters[k]
    BY <1>0, <1>1, <2>2 DEF Bump
  <2>6. counters'["in_flight"] = counters["in_flight"] + One(Runs(c)') - One(Runs(c))
    BY <1>0, <2>4, <2>5 DEF One
  <2> QED BY <1>0, <2>2, <2>3, <2>5, <2>6, BooksRun
<1> QED BY <1>5, <1>6, <1>7, <1>8, <1>9, <1>10, <1>11 DEF ExecStep

(* Threads: a function's body starts and ends, whoever still waits for it. *)
LEMMA BooksWorker ==
  ASSUME MetricsConserved, Control, NEW c \in Calls, WorkerStep(c)
  PROVE  MetricsConserved'
<1> USE DEF hostVars, execVars, workerVars
<1>0. /\ TypeOK /\ TypeOK' /\ InStep(c)
      /\ counters \in [Statuses \cup Gauges -> Int]
      /\ \A k \in Statuses \cup Gauges : counters[k] \in Int
      /\ "in_flight" \in Statuses \cup Gauges
  BY TypeWorker, GaugeNames DEF MetricsConserved, Control, TypeOK
<1>1. \A report : \A k \in Tripped(c, report) : k = "circuit_breaker_trips"
  BY CountedStatuses
<1>2. ASSUME NEW w \in WorkerPlaces, worker' = [worker EXCEPT ![c] = w],
             worker[c] # "none", exec' = exec
      PROVE  /\ \A d \in Calls \ {c} : exec'[d] = exec[d] /\ worker'[d] = worker[d]
             /\ Runs(c) <=> worker[c] = "running"
             /\ Runs(c)' <=> w = "running"
  BY <1>0, <1>2 DEF InStep, Runs, TypeOK
<1>3. CASE WorkerStarts(c) \/ WorkerEnds(c)
  <2>1. PICK w \in {"running", "returned"} :
          /\ worker' = [worker EXCEPT ![c] = w] /\ w \in WorkerPlaces
          /\ IF w = "running" THEN worker[c] = "queued" /\ counters' = Bump({"in_flight"}, {})
                              ELSE worker[c] = "running" /\ counters' = Bump({}, {"in_flight"})
          /\ UNCHANGED <<host, status, exec>>
    BY <1>3 DEF WorkerStarts, WorkerEnds, WorkerPlaces
  <2>2. /\ \A d \in Calls \ {c} : exec'[d] = exec[d] /\ worker'[d] = worker[d]
        /\ IF w = "running" THEN ~Runs(c) /\ Runs(c)' ELSE Runs(c) /\ ~Runs(c)'
    BY <1>2, <2>1
  <2>3. /\ \A k \in Statuses \cup Gauges : k # "in_flight" => counters'[k] = counters[k]
        /\ counters'["in_flight"] = IF w = "running" THEN counters["in_flight"] + 1
                                                     ELSE counters["in_flight"] - 1
    BY <1>0, <2>1 DEF Bump
  <2>4. counters'["in_flight"] = counters["in_flight"] + One(Runs(c)') - One(Runs(c))
    BY <1>0, <2>2, <2>3 DEF One
  <2> QED BY <1>0, <2>1, <2>2, <2>3, <2>4, BooksRun
<1>4. CASE WorkerRecords(c) \/ WorkerNotifies(c) \/ ReleasesSlots(c)
  <2>1. PICK w \in {"recorded", "notified", "released"} :
          /\ worker' = [worker EXCEPT ![c] = w] /\ w \in WorkerPlaces
          /\ worker[c] \in {"returned", "recorded", "notified"}
          /\ UNCHANGED <<host, status, exec>>
          /\ \/ UNCHANGED counters
             \/ counters' = Bump(Tripped(c, ReportOf(yielded[c])), {})
    BY <1>4 DEF WorkerRecords, WorkerNotifies, ReleasesSlots, WorkerPlaces
  <2>2. \A k \in (Statuses \cup Gauges) \ {"circuit_breaker_trips"} : counters'[k] = counters[k]
    BY <1>0, <1>1, <2>1 DEF Bump
  <2>3. /\ \A d \in Calls \ {c} : exec'[d] = exec[d] /\ worker'[d] = worker[d]
        /\ ~Runs(c) /\ ~Runs(c)'
    BY <1>2, <2>1
  <2>4. counters'["in_flight"] = counters["in_flight"] + One(Runs(c)') - One(Runs(c))
    BY <1>0, <2>2, <2>3 DEF One
  <2> QED BY <1>0, <2>1, <2>2, <2>3, <2>4, BooksRun
<1> QED BY <1>3, <1>4 DEF WorkerStep

(***************************************************************************)
(* MetricsConserved for every number of calls and every cap: the gauges    *)
(* and the counters are the numbers of the calls they stand for.           *)
(***************************************************************************)
THEOREM MetricsAreConserved == Spec => []MetricsConserved
<1>1. \/ CloseBegins \/ CloseInterrupted \/ CloseJoined
      \/ \E t \in Tools : Refill(t)
      \/ UNCHANGED vars
      => UNCHANGED <<host, status, exec, worker, counters>>
  BY DEF CloseBegins, CloseInterrupted, CloseJoined, Refill, vars, hostVars, execVars,
         workerVars
<1>2. MetricsConserved /\ TypeOK' /\ UNCHANGED <<host, status, exec, worker, counters>>
        => MetricsConserved'
  BY DEF MetricsConserved, Pends, Runs
<1>3. MetricsConserved => TypeOK
  BY DEF MetricsConserved
<1>4. MetricsConserved /\ Control /\ [Next]_vars => MetricsConserved'
  BY <1>1, <1>2, <1>3, StepCases, BooksHost, BooksExec, BooksWorker, TypeElse
<1> QED BY <1>4, BooksInit, ActivitiesInStep, PTL DEF Spec

-----------------------------------------------------------------------------
(* Settled: when an invocation's attempt holds no permit any more.         *)

(***************************************************************************)
(* A thread's callbacks come after its report.  A host that has given up   *)
(* has asked its execution to stop, so that, unless the policy answers in  *)
(* spite of that, no permit is granted behind its back: after a timeout it *)
(* has reported the failure itself, and before it decides it has abandoned *)
(* what was left.                                                          *)
(***************************************************************************)
SettledAt(c) ==
  /\ host[c] = "idle" => attempt[c] = NoPermit
  /\ worker[c] \in {"recorded", "notified"} => attempt[c] = NoPermit
  /\ ~StubbornPolicy =>
       /\ host[c] \in {"timeout_join", "cancel_join"} /\ exec[c] # "finished" => cancelling[c]
       /\ host[c] = "timeout_join" => attempt[c] = NoPermit
       /\ host[c] \in {"closing", "done"} /\ status[c] # "aborted" => attempt[c] = NoPermit

Settled == \A c \in Calls : SettledAt(c)

(* A call's own step leaves the other calls' attempts alone. *)
LEMMA SettledOf ==
  ASSUME Settled, NEW c \in Calls, SettledAt(c)',
         \A d \in Calls \ {c} :
           /\ host'[d] = host[d] /\ status'[d] = status[d] /\ exec'[d] = exec[d]
           /\ cancelling'[d] = cancelling[d] /\ worker'[d] = worker[d]
           /\ attempt'[d] = attempt[d]
  PROVE  Settled'
BY DEF Settled, SettledAt

(* No attempt holds a permit. *)
LEMMA SettledInit == Init => Settled
BY DEF Init, Settled, SettledAt

(* The host settles what it gives up. *)
LEMMA SettledHost ==
  ASSUME TypeOK, Control, Settled, NEW c \in Calls, HostStep(c)
  PROVE  Settled'
<1> USE DEF hostVars, execVars, workerVars, circuit
<1>0. InStep(c) /\ SettledAt(c)
  BY DEF Control, Settled
<1>1. ASSUME NEW report \in Outcomes, NEW now \in Clock, Recorded(c, report, now)
      PROVE  attempt'[c] = NoPermit /\ \A d \in Calls \ {c} : attempt'[d] = attempt[d]
  BY <1>1, RecordedFacts
<1>2. ASSUME NEW s \in Statuses \cup {"none", "aborted"}, NEW up, Leaves(c, s, up)
      PROVE  /\ host'[c] \in {"closing", "done"} /\ status'[c] = s
             /\ \A d \in Calls \ {c} : host'[d] = host[d] /\ status'[d] = status[d]
  BY <1>2, LeavesFacts
<1>3. CASE InvokeRefused(c) \/ InvokeAdmitted(c)
  <2>1. /\ host[c] = "idle" /\ attempt[c] = NoPermit /\ exec[c] = "none" /\ worker[c] = "none"
        /\ host'[c] \in {"waiting", "done"}
        /\ UNCHANGED <<cancelling, workerVars, circuit>>
        /\ \A d \in Calls \ {c} :
             host'[d] = host[d] /\ status'[d] = status[d] /\ exec'[d] = exec[d]
    BY <1>0, <1>3 DEF InvokeRefused, InvokeAdmitted, InStep, SettledAt, TypeOK
  <2>2. SettledAt(c)'
    BY <2>1 DEF SettledAt
  <2> QED BY <2>1, <2>2, SettledOf
<1>4. CASE HostObserves(c)
  <2>1. outcome[c] \in ExecOutcomes \cup {"none"}
    BY DEF TypeOK
  <2>2. /\ ReportOf(outcome[c]) \in Outcomes
        /\ StatusOf(outcome[c]) \in Statuses \cup {"none", "aborted"}
    BY <2>1, ReportsAndStatuses
  <2>3. attempt'[c] = NoPermit /\ \A d \in Calls \ {c} : attempt'[d] = attempt[d]
    BY <1>1, <1>4, <2>2 DEF HostObserves
  <2>4. /\ host'[c] \in {"closing", "done"}
        /\ \A d \in Calls \ {c} : host'[d] = host[d] /\ status'[d] = status[d]
    BY <1>2, <1>4, <2>2 DEF HostObserves
  <2>5. SettledAt(c)'
    BY <2>3, <2>4 DEF SettledAt
  <2> QED BY <1>4, <2>3, <2>4, <2>5, SettledOf DEF HostObserves
<1>5. CASE HostTimesOut(c)
  <2>1. attempt'[c] = NoPermit /\ \A d \in Calls \ {c} : attempt'[d] = attempt[d]
    BY <1>1, <1>5 DEF HostTimesOut, Outcomes
  <2>2. /\ host'[c] = "timeout_join" /\ exec' = exec /\ cancelling'[c] = (exec[c] # "finished")
        /\ \A d \in Calls \ {c} : host'[d] = host[d] /\ cancelling'[d] = cancelling[d]
    BY <1>5 DEF HostTimesOut, Cancel, TypeOK
  <2>3. SettledAt(c)'
    BY <2>1, <2>2 DEF SettledAt
  <2> QED BY <1>5, <2>1, <2>2, <2>3, SettledOf DEF HostTimesOut
<1>6. CASE HostCancelled(c)
  <2>1. /\ host'[c] = "cancel_join" /\ exec' = exec /\ cancelling'[c] = (exec[c] # "finished")
        /\ \A d \in Calls \ {c} : host'[d] = host[d] /\ cancelling'[d] = cancelling[d]
        /\ UNCHANGED <<status, worker, attempt>>
    BY <1>6 DEF HostCancelled, Cancel, TypeOK
  <2>2. SettledAt(c)'
    BY <1>0, <2>1 DEF SettledAt
  <2> QED BY <2>1, <2>2, SettledOf
<1>7. CASE HostCancelledInJoin(c)
  <2>1. UNCHANGED <<exec, worker, attempt>> /\ host[c] = "timeout_join"
    BY <1>7 DEF HostCancelledInJoin
  <2>2. CASE exec[c] = "finished"
    <3>1. "timed_out" \in Statuses \cup {"none", "aborted"}
      BY DEF Statuses
    <3>2. /\ host'[c] \in {"closing", "done"} /\ cancelling' = cancelling
          /\ \A d \in Calls \ {c} : host'[d] = host[d] /\ status'[d] = status[d]
      BY <1>2, <1>7, <2>2, <3>1 DEF HostCancelledInJoin
    <3>3. SettledAt(c)'
      BY <1>0, <2>1, <3>2 DEF SettledAt
    <3> QED BY <2>1, <3>2, <3>3, SettledOf
  <2>3. CASE exec[c] # "finished"
    <3>1. /\ UNCHANGED <<host, status>> /\ cancelling'[c] = TRUE
          /\ \A d \in Calls \ {c} : cancelling'[d] = cancelling[d]
      BY <1>7, <2>3 DEF HostCancelledInJoin, Cancel, TypeOK
    <3>2. SettledAt(c)'
      BY <1>0, <2>1, <3>1 DEF SettledAt
    <3> QED BY <2>1, <3>1, <3>2, SettledOf
  <2> QED BY <2>2, <2>3
<1>8. CASE JoinAfterTimeout(c)
  <2>1. PICK s \in {"timed_out", "aborted"} : Leaves(c, s, Counted(s))
    BY <1>8 DEF JoinAfterTimeout
  <2>2. s \in Statuses \cup {"none", "aborted"}
    BY DEF Statuses
  <2>3. /\ host'[c] \in {"closing", "done"} /\ UNCHANGED <<exec, cancelling, worker, attempt>>
        /\ host[c] = "timeout_join"
        /\ \A d \in Calls \ {c} : host'[d] = host[d] /\ status'[d] = status[d]
    BY <1>2, <1>8, <2>1, <2>2 DEF JoinAfterTimeout
  <2>4. SettledAt(c)'
    BY <1>0, <2>3 DEF SettledAt
  <2> QED BY <2>3, <2>4, SettledOf
<1>9. CASE JoinAfterCancel(c)
  <2>1. UNCHANGED <<exec, cancelling, worker>>
    BY <1>9 DEF JoinAfterCancel
  <2>2. CASE JoinsQuietly(c)
    <3>1. "cancelled" \in Statuses \cup {"none", "aborted"}
      BY DEF Statuses
    <3>2. attempt'[c] = NoPermit /\ \A d \in Calls \ {c} : attempt'[d] = attempt[d]
      BY <1>1, <1>9, <2>2 DEF JoinAfterCancel, Outcomes
    <3>3. /\ host'[c] \in {"closing", "done"}
          /\ \A d \in Calls \ {c} : host'[d] = host[d] /\ status'[d] = status[d]
      BY <1>2, <1>9, <2>2, <3>1 DEF JoinAfterCancel
    <3>4. SettledAt(c)'
      BY <3>2, <3>3 DEF SettledAt
    <3> QED BY <2>1, <3>2, <3>3, <3>4, SettledOf
  <2>3. CASE ~JoinsQuietly(c)
    <3>1. /\ host'[c] \in {"closing", "done"} /\ status'[c] = "aborted" /\ attempt' = attempt
          /\ \A d \in Calls \ {c} : host'[d] = host[d] /\ status'[d] = status[d]
      BY <1>2, <1>9, <2>3 DEF JoinAfterCancel
    <3>2. SettledAt(c)'
      BY <1>0, <2>1, <3>1 DEF SettledAt
    <3> QED BY <2>1, <3>1, <3>2, SettledOf
  <2> QED BY <2>2, <2>3
<1>10. CASE ProgressCloses(c) \/ HostCancelledInClose(c)
  <2>1. PICK r : Return(c, r)
    BY <1>10 DEF ProgressCloses, HostCancelledInClose
  <2>2. /\ host[c] = "closing" /\ host'[c] = "done"
        /\ UNCHANGED <<status, exec, cancelling, worker, attempt>>
        /\ \A d \in Calls \ {c} : host'[d] = host[d]
    BY <2>1 DEF Return, TypeOK
  <2>3. SettledAt(c)'
    BY <1>0, <2>2 DEF SettledAt
  <2> QED BY <2>2, <2>3, SettledOf
<1> QED BY <1>3, <1>4, <1>5, <1>6, <1>7, <1>8, <1>9, <1>10 DEF HostStep

(* An execution gets a permit only before it has been told to stop. *)
LEMMA SettledExec ==
  ASSUME TypeOK, Control, Settled, NEW c \in Calls, ExecStep(c)
  PROVE  Settled'
<1> USE DEF hostVars, execVars, workerVars, circuit
<1>0. InStep(c) /\ SettledAt(c)
  BY DEF Control, Settled
<1>1. ASSUME NEW report \in Outcomes, NEW now \in Clock, Recorded(c, report, now)
      PROVE  attempt'[c] = NoPermit /\ \A d \in Calls \ {c} : attempt'[d] = attempt[d]
  BY <1>1, RecordedFacts
<1>2. ASSUME NEW o \in ExecOutcomes, Finishes(c, o)
      PROVE  /\ exec'[c] = "finished"
             /\ \A d \in Calls \ {c} : exec'[d] = exec[d] /\ cancelling'[d] = cancelling[d]
  BY <1>2, FinishesFacts
<1>3. CASE StartsUnguarded(c) \/ PolicyAllows(c)
  <2>1. PICK now \in Clock : EntersCircuit(c, now)
    BY <1>3 DEF StartsUnguarded, PolicyAllows
  <2>2. /\ exec[c] \in {"created", "policy"} /\ (cancelling[c] => StubbornPolicy)
        /\ UNCHANGED <<host, status, worker>>
    BY <1>3 DEF StartsUnguarded, PolicyAllows, PolicyMayAnswer
  <2>3. \A d \in Calls \ {c} : /\ exec'[d] = exec[d] /\ cancelling'[d] = cancelling[d]
                               /\ attempt'[d] = attempt[d]
    BY <2>1, EntersCircuitFacts
  <2>4. host[c] \in {"waiting", "timeout_join", "cancel_join"} /\ worker[c] = "none"
    BY <1>0, <2>2 DEF InStep, TypeOK, HostPlaces
  <2>5. ~StubbornPolicy => host[c] = "waiting"
    BY <1>0, <2>2, <2>4 DEF SettledAt
  <2>6. SettledAt(c)'
    BY <2>2, <2>4, <2>5 DEF SettledAt
  <2> QED BY <2>2, <2>3, <2>6, SettledOf
<1>4. CASE EntersPolicy(c) \/ TakesToolSlot(c)
  <2>1. /\ exec[c] \in {"created", "tool_wait"} /\ exec'[c] \in {"policy", "slot_wait"}
        /\ UNCHANGED <<host, status, cancelling, worker, attempt>>
        /\ \A d \in Calls \ {c} : exec'[d] = exec[d]
    BY <1>4 DEF EntersPolicy, TakesToolSlot, TypeOK
  <2>2. SettledAt(c)'
    BY <1>0, <2>1 DEF SettledAt
  <2> QED BY <2>1, <2>2, SettledOf
<1>5. CASE StartsAsync(c) \/ StartsSync(c)
  <2>1. /\ exec[c] = "slot_wait" /\ exec'[c] \in {"running", "submitted"}
        /\ worker'[c] \in {worker[c], "queued"}
        /\ UNCHANGED <<host, status, cancelling, attempt>>
        /\ \A d \in Calls \ {c} : exec'[d] = exec[d] /\ worker'[d] = worker[d]
    BY <1>5 DEF StartsAsync, StartsSync, Starts, GetsSlot, TypeOK
  <2>2. SettledAt(c)'
    BY <1>0, <2>1 DEF SettledAt
  <2> QED BY <2>1, <2>2, SettledOf
<1>6. CASE PolicyRefuses(c) \/ StartRefused(c) \/ CancelWaiting(c) \/ ReceivesResult(c)
  <2>1. PICK o \in ExecOutcomes : Finishes(c, o)
    <3>1. ReceivesResult(c) => yielded[c] \in ExecOutcomes
      BY <1>0 DEF ReceivesResult, InStep, TypeOK, ExecOutcomes
    <3> QED BY <1>6, <3>1 DEF PolicyRefuses, StartRefused, CancelWaiting, ReceivesResult,
                              ExecOutcomes, BodyOutcomes
  <2>2. UNCHANGED <<host, status, worker, attempt>>
    BY <1>6 DEF PolicyRefuses, StartRefused, GetsSlot, CancelWaiting, ReceivesResult
  <2>3. SettledAt(c)'
    BY <1>0, <1>2, <2>1, <2>2 DEF SettledAt
  <2> QED BY <1>2, <2>1, <2>2, <2>3, SettledOf
<1>7. CASE AsyncEnds(c)
  <2>1. PICK o \in BodyOutcomes :
          /\ Finishes(c, o)
          /\ \/ \E now \in Clock : Recorded(c, ReportOf(o), now)
             \/ UNCHANGED circuit
    BY <1>7 DEF AsyncEnds
  <2>2. o \in ExecOutcomes /\ ReportOf(o) \in Outcomes
    BY ReportsAndStatuses DEF ExecOutcomes
  <2>3. /\ attempt'[c] = NoPermit \/ attempt'[c] = attempt[c]
        /\ \A d \in Calls \ {c} : attempt'[d] = attempt[d]
    BY <1>1, <2>1, <2>2
  <2>4. UNCHANGED <<host, status, worker>>
    BY <1>7 DEF AsyncEnds
  <2>5. SettledAt(c)'
    BY <1>0, <1>2, <2>1, <2>2, <2>3, <2>4 DEF SettledAt
  <2> QED BY <1>2, <2>1, <2>2, <2>3, <2>4, <2>5, SettledOf
<1>8. CASE CancelSubmitted(c)
  <2>1. Finishes(c, "cancelled") /\ "cancelled" \in ExecOutcomes
    BY <1>8 DEF CancelSubmitted, ExecOutcomes, BodyOutcomes
  <2>2. CASE FutureCancelled(c)
    <3>1. attempt'[c] = NoPermit /\ \A d \in Calls \ {c} : attempt'[d] = attempt[d]
      BY <1>1, <1>8, <2>2 DEF CancelSubmitted, Outcomes
    <3>2. UNCHANGED <<host, status>> /\ \A d \in Calls \ {c} : worker'[d] = worker[d]
      BY <1>8, <2>2 DEF CancelSubmitted, TypeOK
    <3>3. SettledAt(c)'
      BY <1>2, <2>1, <3>1, <3>2 DEF SettledAt
    <3> QED BY <1>2, <2>1, <3>1, <3>2, <3>3, SettledOf
  <2>3. CASE ~FutureCancelled(c)
    <3>1. UNCHANGED <<host, status, worker, attempt>>
      BY <1>8, <2>3 DEF CancelSubmitted
    <3>2. SettledAt(c)'
      BY <1>0, <1>2, <2>1, <3>1 DEF SettledAt
    <3> QED BY <1>2, <2>1, <3>1, <3>2, SettledOf
  <2> QED BY <2>2, <2>3
<1> QED BY <1>3, <1>4, <1>5, <1>6, <1>7, <1>8 DEF ExecStep

(* A thread reports before its callbacks go on. *)
LEMMA SettledWorker ==
  ASSUME TypeOK, Settled, NEW c \in Calls, WorkerStep(c)
  PROVE  Settled'
<1> USE DEF hostVars, execVars, workerVars, circuit
<1>0. SettledAt(c)
  BY DEF Settled
<1>1. CASE WorkerRecords(c)
  <2>1. PICK now \in Clock : Recorded(c, ReportOf(yielded[c]), now)
    BY <1>1 DEF WorkerRecords
  <2>2. ReportOf(yielded[c]) \in Outcomes
    BY ReportsAndStatuses DEF TypeOK, ExecOutcomes
  <2>3. attempt'[c] = NoPermit /\ \A d \in Calls \ {c} : attempt'[d] = attempt[d]
    BY <2>1, <2>2, RecordedFacts
  <2>4. /\ UNCHANGED <<host, status, exec, cancelling>>
        /\ \A d \in Calls \ {c} : worker'[d] = worker[d]
    BY <1>1 DEF WorkerRecords, TypeOK
  <2>5. SettledAt(c)'
    BY <1>0, <2>3, <2>4 DEF SettledAt
  <2> QED BY <2>3, <2>4, <2>5, SettledOf
<1>2. CASE WorkerStarts(c) \/ WorkerEnds(c) \/ WorkerNotifies(c) \/ ReleasesSlots(c)
  <2>1. /\ UNCHANGED <<host, status, exec, cancelling, attempt>>
        /\ \A d \in Calls \ {c} : worker'[d] = worker[d]
        /\ worker'[c] \in {"recorded", "notified"} => worker[c] = "recorded"
    BY <1>2 DEF WorkerStarts, WorkerEnds, WorkerNotifies, ReleasesSlots, TypeOK
  <2>2. SettledAt(c)'
    BY <1>0, <2>1 DEF SettledAt
  <2> QED BY <2>1, <2>2, SettledOf
<1> QED BY <1>1, <1>2 DEF WorkerStep

(* aclose only adds requests to stop. *)
LEMMA SettledElse ==
  ASSUME TypeOK, Settled,
         \/ CloseBegins \/ CloseInterrupted \/ CloseJoined
         \/ \E t \in Tools : Refill(t)
         \/ UNCHANGED vars
  PROVE  Settled'
<1>1. /\ UNCHANGED <<host, status, exec, worker, attempt>>
      /\ \A c \in Calls : cancelling[c] => cancelling'[c]
  BY DEF CloseBegins, CloseInterrupted, CloseJoined, CancelsActive, Refill, vars, hostVars,
         execVars, workerVars, circuit
<1> QED BY <1>1 DEF Settled, SettledAt

(* Attempts are spent when they should be. *)
LEMMA AttemptsSettled == Spec => []Settled
<1>1. TypeOK /\ Control /\ Settled /\ [Next]_vars => Settled'
  BY StepCases, SettledHost, SettledExec, SettledWorker, SettledElse
<1> QED BY <1>1, SettledInit, RuntimeTypesHold, ActivitiesInStep, PTL DEF Spec

(***************************************************************************)
(* ReturnedIsSettled for every number of calls, any policy and any tool: a *)
(* call that has left its handler, and every call once aclose has joined,  *)
(* leaves no execution and no queued function behind, and, if the policy   *)
(* respects cancellation and no exception escaped, no permit of a circuit. *)
(***************************************************************************)
THEOREM ReturnedAreSettled == Spec => []ReturnedIsSettled
<1>1. Control /\ Settled => ReturnedIsSettled
  BY DEF Control, InStep, Settled, SettledAt, ReturnedIsSettled
<1> QED BY <1>1, ActivitiesInStep, AttemptsSettled, PTL

(* A step of one activity moves its own call only. *)
LEMMA HostFrame ==
  ASSUME TypeOK, Control, NEW c \in Calls, HostStep(c)
  PROVE  /\ worker' = worker
         /\ \A d \in Calls \ {c} : host'[d] = host[d] /\ exec'[d] = exec[d]
         /\ exec' = exec \/ (exec[c] = "none" /\ exec'[c] = "created")
<1> USE DEF hostVars, execVars, workerVars
<1>1. /\ worker' = worker
      /\ exec' = exec \/ (exec[c] = "none" /\ exec' = [exec EXCEPT ![c] = "created"])
  <2>1. CASE InvokeAdmitted(c)
    BY <2>1 DEF InvokeAdmitted, Control, InStep
  <2>2. CASE InvokeRefused(c) \/ HostObserves(c) \/ HostTimesOut(c) \/ HostCancelled(c)
    BY <2>2 DEF InvokeRefused, HostObserves, HostTimesOut, HostCancelled
  <2>3. CASE HostCancelledInJoin(c) \/ JoinAfterTimeout(c) \/ JoinAfterCancel(c)
    BY <2>3 DEF HostCancelledInJoin, JoinAfterTimeout, JoinAfterCancel
  <2>4. CASE ProgressCloses(c) \/ HostCancelledInClose(c)
    BY <2>4 DEF ProgressCloses, HostCancelledInClose, Return
  <2> QED BY <2>1, <2>2, <2>3, <2>4 DEF HostStep
<1>2. \A d \in Calls \ {c} : host'[d] = host[d]
  <2>1. ASSUME NEW s, NEW up, Leaves(c, s, up)
        PROVE  \A d \in Calls \ {c} : host'[d] = host[d]
    BY <2>1 DEF Leaves, TypeOK
  <2>2. CASE \/ HostObserves(c) \/ HostCancelledInJoin(c)
             \/ JoinAfterTimeout(c) \/ JoinAfterCancel(c)
    BY <2>1, <2>2
       DEF HostObserves, HostCancelledInJoin, JoinAfterTimeout, JoinAfterCancel
  <2>3. CASE \/ InvokeRefused(c) \/ InvokeAdmitted(c) \/ HostTimesOut(c)
             \/ HostCancelled(c) \/ ProgressCloses(c) \/ HostCancelledInClose(c)
    BY <2>3 DEF InvokeRefused, InvokeAdmitted, HostTimesOut, HostCancelled,
                ProgressCloses, HostCancelledInClose, Return, TypeOK
  <2> QED BY <2>2, <2>3 DEF HostStep
<1> QED BY <1>1, <1>2 DEF TypeOK

(* The execution task moves its own call, and not its host. *)
LEMMA ExecFrame ==
  ASSUME TypeOK, NEW c \in Calls, ExecStep(c)
  PROVE  /\ host' = host
         /\ \A d \in Calls \ {c} : exec'[d] = exec[d] /\ worker'[d] = worker[d]
<1> USE DEF hostVars, execVars, workerVars
<1>1. host' = host
  BY DEF ExecStep, StartsUnguarded, EntersPolicy, PolicyAllows, PolicyRefuses, TakesToolSlot,
         StartRefused, StartsAsync, StartsSync, Starts, GetsSlot, AsyncEnds, CancelWaiting,
         CancelSubmitted, ReceivesResult
<1>2. worker' = worker \/ \E w : worker' = [worker EXCEPT ![c] = w]
  BY DEF ExecStep, StartsUnguarded, EntersPolicy, PolicyAllows, PolicyRefuses, TakesToolSlot,
         StartRefused, StartsAsync, StartsSync, AsyncEnds, CancelWaiting, CancelSubmitted,
         ReceivesResult
<1>3. \E e : exec' = [exec EXCEPT ![c] = e]
  <2>1. CASE StartsUnguarded(c) \/ PolicyAllows(c)
    BY <2>1 DEF StartsUnguarded, PolicyAllows, EntersCircuit, Finishes
  <2>2. CASE ~StartsUnguarded(c) /\ ~PolicyAllows(c)
    BY <2>2 DEF ExecStep, EntersPolicy, PolicyRefuses, TakesToolSlot, StartRefused,
                StartsAsync, StartsSync, AsyncEnds, CancelWaiting, CancelSubmitted,
                ReceivesResult, Finishes
  <2> QED BY <2>1, <2>2
<1> QED BY <1>1, <1>2, <1>3 DEF TypeOK

(* The worker thread moves nothing but itself. *)
LEMMA WorkerFrame ==
  ASSUME TypeOK, NEW c \in Calls, WorkerStep(c)
  PROVE  /\ host' = host /\ exec' = exec
         /\ \A d \in Calls \ {c} : worker'[d] = worker[d]
BY DEF WorkerStep, WorkerStarts, WorkerEnds, WorkerRecords, WorkerNotifies, ReleasesSlots,
       hostVars, execVars, TypeOK

(* The other steps move no call. *)
LEMMA ElseFrame ==
  ASSUME \/ CloseBegins \/ CloseInterrupted \/ CloseJoined
         \/ \E t \in Tools : Refill(t)
         \/ UNCHANGED vars
  PROVE  UNCHANGED <<host, exec, worker>>
BY DEF CloseBegins, CloseInterrupted, CloseJoined, Refill, vars, hostVars, execVars,
       workerVars

(***************************************************************************)
(* CircuitHearsFirst for every number of calls and permits: whoever gives  *)
(* a permit of the global semaphore back has reported to the breaker, or   *)
(* was cancelled (and its host reports).                                   *)
(***************************************************************************)
THEOREM BreakersHearFirst == Spec => CircuitHearsFirst
<1>1. ASSUME TypeOK, Control, Settled, [Next]_vars
      PROVE  \A c \in Calls : HoldsSlot(c) /\ ~HoldsSlot(c)' =>
               attempt'[c] = NoPermit \/ outcome'[c] = "cancelled"
  <2> SUFFICES ASSUME NEW c \in Calls, HoldsSlot(c), ~HoldsSlot(c)'
               PROVE  attempt'[c] = NoPermit \/ outcome'[c] = "cancelled"
    OBVIOUS
  <2> USE DEF hostVars, execVars, workerVars, circuit
  <2>0. InStep(c) /\ SettledAt(c)
    BY <1>1 DEF Control, Settled
  <2>1. exec'[c] # exec[c] \/ worker'[c] # worker[c]
    BY DEF HoldsSlot
  <2>2. HostStep(c) \/ ExecStep(c) \/ WorkerStep(c)
    BY <1>1, <2>1, StepCases, HostFrame, ExecFrame, WorkerFrame, ElseFrame
  <2>3. CASE HostStep(c)
    <3>1. exec[c] = "none" /\ worker[c] = "none"
      BY <1>1, <2>0, <2>1, <2>3, HostFrame DEF InStep
    <3> QED BY <3>1 DEF HoldsSlot
  <2>4. CASE ExecStep(c)
    <3>1. CASE AsyncEnds(c)
      <4>1. PICK o \in BodyOutcomes :
              /\ Finishes(c, o)
              /\ o = "cancelled" \/ \E now \in Clock : Recorded(c, ReportOf(o), now)
        BY <3>1 DEF AsyncEnds, TellsBreaker
      <4>2. o \in ExecOutcomes /\ ReportOf(o) \in Outcomes
        BY ReportsAndStatuses DEF ExecOutcomes
      <4> QED BY <1>1, <4>1, <4>2, FinishesFacts, RecordedFacts
    <3>2. CASE CancelSubmitted(c)
      <4>1. Finishes(c, "cancelled") /\ "cancelled" \in ExecOutcomes
        BY <3>2 DEF CancelSubmitted, ExecOutcomes, BodyOutcomes
      <4> QED BY <1>1, <4>1, FinishesFacts
    <3>3. CASE ReceivesResult(c)
      BY <3>3 DEF ReceivesResult, HoldsSlot
    <3>4. CASE ~AsyncEnds(c) /\ ~CancelSubmitted(c) /\ ~ReceivesResult(c)
      <4>1. exec[c] \notin {"none", "running", "submitted", "finished"}
        BY <2>4, <3>4
           DEF ExecStep, StartsUnguarded, EntersPolicy, PolicyAllows, PolicyMayAnswer,
               PolicyRefuses, TakesToolSlot, StartRefused, StartsAsync, StartsSync, Starts,
               GetsSlot, CancelWaiting
      <4> QED BY <2>0, <4>1 DEF InStep, HoldsSlot
    <3> QED BY <3>1, <3>2, <3>3, <3>4
  <2>5. CASE WorkerStep(c)
    <3>1. worker[c] = "notified" /\ attempt' = attempt
      BY <1>1, <2>5 DEF WorkerStep, WorkerStarts, WorkerEnds, WorkerRecords, WorkerNotifies,
                        ReleasesSlots, HoldsSlot, TypeOK
    <3> QED BY <2>0, <3>1 DEF SettledAt
  <2> QED BY <2>2, <2>3, <2>4, <2>5
<1> QED BY <1>1, RuntimeTypesHold, ActivitiesInStep, AttemptsSettled, PTL
        DEF Spec, CircuitHearsFirst

-----------------------------------------------------------------------------
(* Probes: who holds a half-open breaker's permit.                         *)

(***************************************************************************)
(* No permit is of a later generation than its breaker.  That is what      *)
(* keeps the probe unique: it is granted in a generation nobody has seen.  *)
(***************************************************************************)
Probes ==
  /\ \A c \in Calls : attempt[c].generation <= breaker[ToolOf[c]].generation
  /\ ProbeConserved

(* A step on one call's permit and its tool's breaker keeps the probe in   *)
(* one hand if it leaves the half-open state, enters it with a permit of a *)
(* new generation, or changes neither.                                     *)
LEMMA ProbesOf ==
  ASSUME TypeOK, TypeOK', Probes, NEW c \in Calls,
         \A d \in Calls \ {c} : attempt'[d] = attempt[d],
         \A t \in Tools : t # ToolOf[c] => breaker'[t] = breaker[t],
         attempt'[c].generation <= breaker'[ToolOf[c]].generation,
         breaker[ToolOf[c]].generation <= breaker'[ToolOf[c]].generation,
         \/ breaker'[ToolOf[c]].state # "half_open"
         \/ /\ breaker'[ToolOf[c]].generation = breaker[ToolOf[c]].generation + 1
            /\ ProbeIn(c)'
         \/ /\ breaker'[ToolOf[c]].state = breaker[ToolOf[c]].state
            /\ breaker'[ToolOf[c]].generation = breaker[ToolOf[c]].generation
            /\ ProbeIn(c)' <=> ProbeIn(c)
  PROVE  Probes'
<1> DEFINE T == ToolOf[c]
<1>0. /\ T \in Tools /\ \A d \in Calls : ToolOf[d] \in Tools
      /\ breaker[T].generation \in Int /\ breaker'[T].generation \in Int
      /\ \A d \in Calls : attempt[d].generation \in Int /\ attempt'[d].generation \in Int
  BY RuntimeAssumption DEF TypeOK, Breaker, Permit
<1>1. \A d \in Calls : attempt'[d].generation <= breaker'[ToolOf[d]].generation
  <2> SUFFICES ASSUME NEW d \in Calls
               PROVE  attempt'[d].generation <= breaker'[ToolOf[d]].generation
    OBVIOUS
  <2>1. attempt[d].generation <= breaker[ToolOf[d]].generation
    BY DEF Probes
  <2>2. CASE d = c
    BY <2>2
  <2>3. CASE d # c /\ ToolOf[d] = T
    BY <1>0, <2>1, <2>3
  <2>4. CASE d # c /\ ToolOf[d] # T
    BY <1>0, <2>1, <2>4
  <2> QED BY <2>2, <2>3, <2>4
<1>2. ASSUME NEW t \in Tools, t # T
      PROVE  \A d \in CallsOf(t) : ProbeIn(d)' <=> ProbeIn(d)
  BY <1>2 DEF CallsOf, ProbeIn, PermitIsCurrent
<1>3. ASSUME breaker'[T].state # "half_open"
      PROVE  \A d \in CallsOf(T) : ~ProbeIn(d)'
  BY <1>3 DEF CallsOf, ProbeIn, PermitIsCurrent
<1>4. ASSUME breaker'[T].generation = breaker[T].generation + 1
      PROVE  \A d \in CallsOf(T) : d # c => ~ProbeIn(d)'
  <2>1. \A d \in CallsOf(T) : d \in Calls /\ ToolOf[d] = T
    BY DEF CallsOf
  <2>2. \A d \in CallsOf(T) : d # c => attempt'[d].generation < breaker'[T].generation
    BY <1>0, <1>4, <2>1 DEF Probes
  <2> QED BY <1>0, <2>1, <2>2 DEF ProbeIn, PermitIsCurrent
<1>5. ASSUME breaker'[T].state = breaker[T].state,
             breaker'[T].generation = breaker[T].generation
      PROVE  \A d \in CallsOf(T) : d # c => (ProbeIn(d)' <=> ProbeIn(d))
  BY <1>5 DEF CallsOf, ProbeIn, PermitIsCurrent
<1>6. c \in CallsOf(T)
  BY DEF CallsOf
<1>7. ProbeConserved'
  <2> SUFFICES ASSUME NEW t \in Tools
               PROVE  /\ breaker'[t].state = "half_open" => \E d \in CallsOf(t) : ProbeIn(d)'
                      /\ \A d, e \in CallsOf(t) : ProbeIn(d)' /\ ProbeIn(e)' => d = e
    BY DEF ProbeConserved, CallsOf
  <2>1. /\ breaker[t].state = "half_open" => \E d \in CallsOf(t) : ProbeIn(d)
        /\ \A d, e \in CallsOf(t) : ProbeIn(d) /\ ProbeIn(e) => d = e
    BY DEF Probes, ProbeConserved
  <2>2. CASE t # T
    BY <1>2, <2>1, <2>2
  <2>3. CASE t = T /\ breaker'[T].state # "half_open"
    BY <1>3, <2>3
  <2>4. CASE /\ t = T /\ ProbeIn(c)'
             /\ breaker'[T].generation = breaker[T].generation + 1
    BY <1>4, <1>6, <2>4
  <2>5. CASE /\ t = T /\ breaker'[T].state = breaker[T].state
             /\ breaker'[T].generation = breaker[T].generation
             /\ ProbeIn(c)' <=> ProbeIn(c)
    <3>1. \A d \in CallsOf(T) : ProbeIn(d)' <=> ProbeIn(d)
      BY <1>5, <2>5
    <3> QED BY <2>1, <2>5, <3>1
  <2> QED BY <2>2, <2>3, <2>4, <2>5
<1> QED BY <1>1, <1>7 DEF Probes

(* All breakers are closed and nobody holds a permit. *)
LEMMA ProbesInit == Init => Probes
<1> SUFFICES ASSUME Init PROVE Probes
  OBVIOUS
<1>1. /\ \A c \in Calls : attempt[c] = NoPermit /\ ToolOf[c] \in Tools
      /\ \A t \in Tools : breaker[t].state = "closed" /\ breaker[t].generation = 0
  BY RuntimeAssumption DEF Init, NewBreaker
<1>2. NoPermit.generation = -1 /\ ~NoPermit.probe
  BY DEF NoPermit
<1> QED BY <1>1, <1>2 DEF Probes, ProbeConserved, ProbeIn, CallsOf

(* Nothing happens to breakers and permits. *)
LEMMA ProbesSame ==
  ASSUME Probes, UNCHANGED circuit
  PROVE  Probes'
BY DEF Probes, ProbeConserved, ProbeIn, CallsOf, circuit

(* An outcome ends its caller's part: a current probe takes its breaker    *)
(* out of the half-open state.                                             *)
LEMMA ProbesRecorded ==
  ASSUME TypeOK, TypeOK', Probes, NEW c \in Calls, NEW report \in Outcomes,
         NEW now \in Clock, Recorded(c, report, now)
  PROVE  Probes'
<1> DEFINE T == ToolOf[c]
           b == breaker[T]
           p == attempt[c]
           s == Settle(b, p, report, now)
<1>1. /\ T \in Tools /\ now \in Nat /\ b \in Breaker /\ p \in Permit
      /\ b.generation \in Nat
  BY RuntimeAssumption, ClockReadings DEF TypeOK, Breaker
<1>2. /\ breaker'[T] = s /\ attempt'[c] = NoPermit
      /\ \A d \in Calls \ {c} : attempt'[d] = attempt[d]
      /\ \A t \in Tools : t # T => breaker'[t] = breaker[t]
  BY <1>1 DEF Recorded, TypeOK
<1>3. NoPermit.generation = -1 /\ ~NoPermit.probe
  BY DEF NoPermit
<1>4. ~ProbeIn(c)'
  BY <1>2, <1>3 DEF ProbeIn
<1>5. /\ s.generation \in Nat /\ b.generation <= s.generation
      /\ \/ s.state # "half_open"
         \/ s.state = b.state /\ s.generation = b.generation /\ ~ProbeIn(c)
  <2>1. s \in Breaker
    BY <1>1, SettleFacts
  <2>2. s.generation \in Nat
    BY <2>1 DEF Breaker
  <2>3. CASE ~PermitIsCurrent(b, p)
    <3>1. s = [b EXCEPT !.lastObserved = s.lastObserved]
      BY <1>1, <2>3, SettleFacts
    <3>2. s.state = b.state /\ s.generation = b.generation
      BY <1>1, <3>1 DEF Breaker
    <3> QED BY <1>1, <2>2, <2>3, <3>2 DEF ProbeIn
  <2>4. CASE PermitIsCurrent(b, p) /\ p.probe
    <3>1. Trips(b, p)
      BY <2>4 DEF Trips
    <3>2. b.state = "half_open"
      BY <2>4 DEF PermitIsCurrent
    <3>3. CASE report = "succeed"
      <4>1. s.state = "closed" /\ s.generation = b.generation + 1
        BY <1>1, <2>4, <3>3, SettleFacts
      <4> QED BY <1>1, <2>2, <4>1
    <3>4. CASE report \in {"fail", "abandon"}
      <4>1. s.state = "open" /\ s.generation = b.generation + 1
        BY <1>1, <2>4, <3>1, <3>4, SettleFacts
      <4> QED BY <1>1, <2>2, <4>1
    <3> QED BY <3>3, <3>4 DEF Outcomes
  <2>5. CASE PermitIsCurrent(b, p) /\ ~p.probe
    <3>1. b.state = "closed"
      BY <2>5 DEF PermitIsCurrent
    <3>2. CASE report = "abandon"
      <4>1. s = [b EXCEPT !.lastObserved = s.lastObserved]
        BY <1>1, <2>5, <3>2, SettleFacts
      <4>2. s.state = b.state /\ s.generation = b.generation
        BY <1>1, <4>1 DEF Breaker
      <4> QED BY <1>1, <2>2, <3>1, <4>2
    <3>3. CASE report = "succeed"
      <4>1. s.state = "closed" /\ s.generation = b.generation
        BY <1>1, <2>5, <3>3, SettleFacts
      <4> QED BY <1>1, <2>2, <4>1
    <3>4. CASE report = "fail"
      <4>1. \/ s.state = "open" /\ s.generation = b.generation + 1
            \/ s.state = b.state /\ s.generation = b.generation
        BY <1>1, <2>5, <3>4, SettleFacts
      <4> QED BY <1>1, <2>2, <3>1, <4>1
    <3> QED BY <3>2, <3>3, <3>4 DEF Outcomes
  <2> QED BY <2>3, <2>4, <2>5
<1> HIDE DEF s, b, p
<1> QED BY <1>2, <1>3, <1>4, <1>5, ProbesOf DEF b

(* acquire grants an ordinary permit of a closed breaker, or the probe of  *)
(* the half-open period that it begins.                                    *)
LEMMA ProbesEnter ==
  ASSUME TypeOK, TypeOK', Probes, NEW c \in Calls, NEW now \in Clock, EntersCircuit(c, now)
  PROVE  Probes'
<1> DEFINE T == ToolOf[c]
           b == breaker[T]
           a == Acquire(b, now)
           g == Granted(b, now)
<1>1. /\ T \in Tools /\ now \in Nat /\ b \in Breaker /\ b.generation \in Nat
  BY RuntimeAssumption, ClockReadings DEF TypeOK, Breaker
<1>2. CASE T \notin ProtectedTools
  <2>1. UNCHANGED circuit
    BY <1>2 DEF EntersCircuit
  <2> QED BY <2>1, ProbesSame
<1>3. CASE T \in ProtectedTools
  <2>1. breaker'[T] = a /\ \A t \in Tools : t # T => breaker'[t] = breaker[t]
    BY <1>1, <1>3 DEF EntersCircuit, TypeOK
  <2>2. /\ b.state = "open" /\ Elapsed(b, now) =>
             a.state = "half_open" /\ a.generation = b.generation + 1
        /\ ~(b.state = "open" /\ Elapsed(b, now)) =>
             a.state = b.state /\ a.generation = b.generation
        /\ g.generation = a.generation /\ g.probe = (b.state = "open")
    BY <1>1, AcquireFacts
  <2>3. CASE Admits(b, now)
    <3>1. attempt'[c] = g /\ \A d \in Calls \ {c} : attempt'[d] = attempt[d]
      BY <1>3, <2>3 DEF EntersCircuit, TypeOK
    <3>2. CASE b.state = "closed"
      <4>1. a.state = "closed" /\ a.generation = b.generation /\ g.generation = b.generation
        BY <2>2, <3>2
      <4> HIDE DEF a, b, g
      <4> QED BY <1>1, <2>1, <3>1, <4>1, ProbesOf DEF b
    <3>3. CASE b.state = "open" /\ Elapsed(b, now)
      <4>1. /\ a.state = "half_open" /\ a.generation = b.generation + 1
            /\ g.generation = a.generation /\ g.probe
        BY <2>2, <3>3
      <4> HIDE DEF a, b, g
      <4>2. ProbeIn(c)'
        BY <2>1, <3>1, <4>1 DEF ProbeIn, PermitIsCurrent
      <4> QED BY <1>1, <2>1, <3>1, <4>1, <4>2, ProbesOf DEF b
    <3> QED BY <2>3, <3>2, <3>3 DEF Admits
  <2>4. CASE ~Admits(b, now)
    <3>1. attempt' = attempt
      BY <1>3, <2>4 DEF EntersCircuit
    <3>2. a.state = b.state /\ a.generation = b.generation
      BY <2>2, <2>4 DEF Admits
    <3>3. attempt[c].generation <= b.generation
      BY DEF Probes
    <3> HIDE DEF a, b, g
    <3>4. ProbeIn(c)' <=> ProbeIn(c)
      BY <2>1, <3>1, <3>2 DEF ProbeIn, PermitIsCurrent, b
    <3> QED BY <1>1, <2>1, <3>1, <3>2, <3>3, <3>4, ProbesOf DEF b
  <2> QED BY <2>3, <2>4
<1> QED BY <1>2, <1>3

(* validate only lets the breaker see the time. *)
LEMMA ProbesObserve ==
  ASSUME TypeOK, TypeOK', Probes, NEW c \in Calls, GetsSlot(c)
  PROVE  Probes'
<1> DEFINE T == ToolOf[c]
           b == breaker[T]
<1>1. T \in Tools /\ b \in Breaker /\ b.generation \in Nat
  BY RuntimeAssumption DEF TypeOK, Breaker
<1>2. attempt' = attempt
  BY DEF GetsSlot
<1>3. CASE T \notin ProtectedTools
  <2>1. UNCHANGED circuit
    BY <1>2, <1>3 DEF GetsSlot, circuit
  <2> QED BY <2>1, ProbesSame
<1>4. CASE T \in ProtectedTools
  <2>1. PICK now \in Clock : breaker' = [breaker EXCEPT ![T] = Observe(b, now)]
    BY <1>1, <1>4 DEF GetsSlot, TypeOK
  <2> DEFINE o == Observe(b, now)
  <2>2. o.state = b.state /\ o.generation = b.generation
    BY <1>1, ClockReadings, ObserveFacts
  <2>3. breaker'[T] = o /\ \A t \in Tools : t # T => breaker'[t] = breaker[t]
    BY <1>1, <2>1 DEF TypeOK
  <2>4. attempt[c].generation <= b.generation
    BY DEF Probes
  <2> HIDE DEF o, b
  <2>5. ProbeIn(c)' <=> ProbeIn(c)
    BY <1>2, <2>2, <2>3 DEF ProbeIn, PermitIsCurrent, b
  <2> QED BY <1>1, <1>2, <2>2, <2>3, <2>4, <2>5, ProbesOf DEF b
<1> QED BY <1>3, <1>4

(* Every step does one of these four things. *)
LEMMA CircuitSteps ==
  ASSUME TypeOK, [Next]_vars
  PROVE  \/ UNCHANGED circuit
         \/ \E c \in Calls, report \in Outcomes, now \in Clock : Recorded(c, report, now)
         \/ \E c \in Calls, now \in Clock : EntersCircuit(c, now)
         \/ \E c \in Calls : GetsSlot(c)
<1> USE DEF circuit
<1>1. ASSUME NEW c \in Calls, HostStep(c)
      PROVE  \/ UNCHANGED circuit
             \/ \E report \in Outcomes, now \in Clock : Recorded(c, report, now)
  <2>1. ReportOf(outcome[c]) \in Outcomes /\ "fail" \in Outcomes /\ "abandon" \in Outcomes
    BY ReportsAndStatuses DEF TypeOK, Outcomes
  <2>2. CASE HostObserves(c) \/ HostTimesOut(c) \/ JoinAfterCancel(c)
    BY <2>1, <2>2 DEF HostObserves, HostTimesOut, JoinAfterCancel
  <2>3. CASE ~HostObserves(c) /\ ~HostTimesOut(c) /\ ~JoinAfterCancel(c)
    BY <1>1, <2>3 DEF HostStep, InvokeRefused, InvokeAdmitted, HostCancelled,
                      HostCancelledInJoin, JoinAfterTimeout, ProgressCloses,
                      HostCancelledInClose, Return
  <2> QED BY <2>2, <2>3
<1>2. ASSUME NEW c \in Calls, ExecStep(c)
      PROVE  \/ UNCHANGED circuit
             \/ \E report \in Outcomes, now \in Clock : Recorded(c, report, now)
             \/ \E now \in Clock : EntersCircuit(c, now)
             \/ GetsSlot(c)
  <2>1. CASE StartsUnguarded(c) \/ PolicyAllows(c)
    BY <2>1 DEF StartsUnguarded, PolicyAllows
  <2>2. CASE StartRefused(c) \/ StartsAsync(c) \/ StartsSync(c)
    BY <2>2 DEF StartRefused, StartsAsync, StartsSync, Starts
  <2>3. CASE AsyncEnds(c)
    <3>1. \A o \in BodyOutcomes : ReportOf(o) \in Outcomes
      BY ReportsAndStatuses DEF ExecOutcomes
    <3> QED BY <2>3, <3>1 DEF AsyncEnds
  <2>4. CASE CancelSubmitted(c)
    BY <2>4 DEF CancelSubmitted, Outcomes
  <2>5. CASE EntersPolicy(c) \/ PolicyRefuses(c) \/ TakesToolSlot(c)
               \/ CancelWaiting(c) \/ ReceivesResult(c)
    BY <2>5 DEF EntersPolicy, PolicyRefuses, TakesToolSlot, CancelWaiting, ReceivesResult
  <2> QED BY <1>2, <2>1, <2>2, <2>3, <2>4, <2>5 DEF ExecStep
<1>3. ASSUME NEW c \in Calls, WorkerStep(c)
      PROVE  \/ UNCHANGED circuit
             \/ \E report \in Outcomes, now \in Clock : Recorded(c, report, now)
  <2>1. ReportOf(yielded[c]) \in Outcomes
    BY ReportsAndStatuses DEF TypeOK, ExecOutcomes
  <2> QED BY <1>3, <2>1 DEF WorkerStep, WorkerStarts, WorkerEnds, WorkerRecords,
                            WorkerNotifies, ReleasesSlots
<1>4. \/ CloseBegins \/ CloseInterrupted \/ CloseJoined
      \/ \E t \in Tools : Refill(t)
      \/ UNCHANGED vars
      => UNCHANGED circuit
  BY DEF CloseBegins, CloseInterrupted, CloseJoined, Refill, vars
<1> QED BY <1>1, <1>2, <1>3, <1>4, StepCases

(***************************************************************************)
(* ProbeConserved for every number of calls and tools, every threshold and *)
(* recovery interval: a half-open breaker has one outstanding probe, in    *)
(* the hands of one invocation of its tool, however host, execution and    *)
(* thread race to settle it.                                               *)
(***************************************************************************)
THEOREM ProbesAreConserved == Spec => []ProbeConserved
<1>1. TypeOK /\ TypeOK' /\ Probes /\ [Next]_vars => Probes'
  BY CircuitSteps, ProbesSame, ProbesRecorded, ProbesEnter, ProbesObserve
<1>2. Probes => ProbeConserved
  BY DEF Probes
<1> QED BY <1>1, <1>2, ProbesInit, RuntimeTypesHold, PTL DEF Spec

-----------------------------------------------------------------------------
(* The runtime implements the bounded executor.                            *)

Phases == [c \in Calls |-> Phase(c)]
Bodies == {c \in Calls : Runs(c)}

(* Three phases, and what they are in the runtime's own terms. *)
LEMMA PhaseOf ==
  ASSUME TypeOK, NEW c \in Calls
  PROVE  /\ Phase(c) \in {"new", "pending", "returned"}
         /\ Phase(c) = "new" <=> host[c] = "idle"
         /\ Phase(c) = "returned" <=> host[c] = "done"
         /\ Phase(c) = "pending" <=> Pends(c)
BY DEF Phase, Pends, TypeOK, HostPlaces

(* The executor's Cardinality is the runtime's. *)
LEMMA SameCardinality == \A S : Executor!Cardinality(S) = Cardinality(S)
BY Zenon DEF Cardinality, Executor!Cardinality

(* If one call moves, its phase and its body are all that moves. *)
LEMMA OneCallMoves ==
  ASSUME NEW c \in Calls,
         \A d \in Calls \ {c} : host'[d] = host[d] /\ exec'[d] = exec[d] /\ worker'[d] = worker[d]
  PROVE  /\ Phases' = [Phases EXCEPT ![c] = Phase(c)']
         /\ Bodies' = IF Runs(c)' THEN Bodies \cup {c} ELSE Bodies \ {c}
<1>1. \A d \in Calls \ {c} : Phase(d)' = Phase(d) /\ (Runs(d)' <=> Runs(d))
  BY DEF Phase, Runs
<1>2. Phases' = [d \in Calls |-> Phase(d)'] /\ Bodies' = {d \in Calls : Runs(d)'}
  BY DEF Phases, Bodies
<1>3. Bodies = {d \in Calls : Runs(d)}
  BY DEF Bodies
<1>4. Phases' = [Phases EXCEPT ![c] = Phase(c)']
  BY <1>1, <1>2 DEF Phases
<1>5. CASE Runs(c)'
  <2>1. Bodies' = Bodies \cup {c}
    BY <1>1, <1>2, <1>3, <1>5
  <2> QED BY <1>4, <1>5, <2>1
<1>6. CASE ~Runs(c)'
  <2>1. Bodies' = Bodies \ {c}
    BY <1>1, <1>2, <1>3, <1>6
  <2> QED BY <1>4, <1>6, <2>1
<1> QED BY <1>5, <1>6

(* A host step moves at most one call's phase, and never back; admission   *)
(* looks at the counter, which is the number of pending calls.             *)
LEMMA HostMovesPhase ==
  ASSUME TypeOK, TypeOK', NEW c \in Calls, HostStep(c)
  PROVE  \/ Phase(c)' = Phase(c)
         \/ Phase(c) = "new" /\ Phase(c)' = "returned"
         \/ /\ Phase(c) = "new" /\ Phase(c)' = "pending"
            /\ counters["pending_invocations"] < MaxPending
         \/ Phase(c) = "pending" /\ Phase(c)' = "returned"
<1>1. CASE InvokeRefused(c)
  <2>1. host[c] = "idle" /\ host'[c] = "done"
    BY <1>1 DEF InvokeRefused, TypeOK
  <2> QED BY <2>1, PhaseOf DEF Phase
<1>2. CASE InvokeAdmitted(c)
  <2>1. /\ host[c] = "idle" /\ host'[c] = "waiting"
        /\ counters["pending_invocations"] < MaxPending
    BY <1>2 DEF InvokeAdmitted, TypeOK
  <2> QED BY <2>1 DEF Phase
<1>3. CASE ~InvokeRefused(c) /\ ~InvokeAdmitted(c)
  <2>1. host[c] \in {"waiting", "timeout_join", "cancel_join", "closing"}
    BY <1>3 DEF HostStep, HostObserves, HostTimesOut, HostCancelled, HostCancelledInJoin,
                JoinAfterTimeout, JoinAfterCancel, ProgressCloses, HostCancelledInClose, Return
  <2>2. host'[c] # "idle"
    <3>1. ASSUME NEW s, NEW up, Leaves(c, s, up) PROVE host'[c] # "idle"
      BY <3>1 DEF Leaves, TypeOK
    <3>2. CASE \/ HostObserves(c) \/ HostCancelledInJoin(c)
               \/ JoinAfterTimeout(c) \/ JoinAfterCancel(c)
      BY <2>1, <3>1, <3>2
         DEF HostObserves, HostCancelledInJoin, JoinAfterTimeout, JoinAfterCancel
    <3>3. CASE \/ HostTimesOut(c) \/ HostCancelled(c)
               \/ ProgressCloses(c) \/ HostCancelledInClose(c)
      BY <3>3 DEF HostTimesOut, HostCancelled, ProgressCloses, HostCancelledInClose,
                  Return, TypeOK
    <3> QED BY <1>3, <3>2, <3>3 DEF HostStep
  <2>3. host'[c] \in HostPlaces
    BY DEF TypeOK
  <2> QED BY <2>1, <2>2, <2>3 DEF Phase, HostPlaces
<1> QED BY <1>1, <1>2, <1>3

(* A body begins while its call waits for it, and while fewer bodies than  *)
(* permits run: the call that begins holds a permit and did not run yet.   *)
LEMMA BodyBegins ==
  ASSUME TypeOK, Control, PermitsConserved, NEW c \in Calls, ExecStep(c) \/ WorkerStep(c),
         ~Runs(c), Runs(c)'
  PROVE  Phase(c) = "pending" /\ Cardinality(Bodies) < MaxConcurrency
<1> DEFINE Holders == {d \in Calls : HoldsSlot(d)}
<1>1. /\ IsFiniteSet(Holders) /\ IsFiniteSet(Bodies) /\ Bodies \subseteq Holders
      /\ Cardinality(Holders) \in Nat /\ Cardinality(Bodies) \in Nat
      /\ slots \in Nat /\ slots + Cardinality(Holders) = MaxConcurrency
  <2>1. Bodies \subseteq Holders
    BY DEF Bodies, Runs, HoldsSlot
  <2>2. IsFiniteSet(Holders) /\ IsFiniteSet(Bodies)
    BY RuntimeAssumption, FS_Subset DEF Bodies
  <2>3. slots \in Nat
    BY DEF TypeOK, PermitsConserved
  <2> QED BY <2>1, <2>2, <2>3, FS_CardinalityType DEF PermitsConserved
<1>2. \/ exec[c] = "slot_wait" /\ slots > 0
      \/ exec[c] = "submitted" /\ worker[c] = "queued"
  <2>1. CASE WorkerStep(c)
    <3>1. CASE WorkerStarts(c)
      BY <3>1 DEF WorkerStarts, Control, InStep
    <3>2. CASE ~WorkerStarts(c)
      <4>1. exec' = exec /\ worker'[c] # "running"
        BY <2>1, <3>2 DEF WorkerStep, WorkerEnds, WorkerRecords, WorkerNotifies,
                          ReleasesSlots, execVars, TypeOK
      <4> QED BY <4>1 DEF Runs
    <3> QED BY <3>1, <3>2
  <2>2. CASE ExecStep(c)
    <3>1. CASE StartsAsync(c)
      BY <3>1 DEF StartsAsync, Starts, GetsSlot
    <3>2. CASE ~StartsAsync(c)
      <4>1. exec'[c] # "running"
        <5>1. CASE StartsUnguarded(c) \/ PolicyAllows(c)
          BY <5>1 DEF StartsUnguarded, PolicyAllows, EntersCircuit, Finishes, TypeOK
        <5>2. CASE ~StartsUnguarded(c) /\ ~PolicyAllows(c)
          BY <2>2, <3>2, <5>2
             DEF ExecStep, EntersPolicy, PolicyRefuses, TakesToolSlot, StartRefused,
                 StartsSync, AsyncEnds, CancelWaiting, CancelSubmitted, ReceivesResult,
                 Finishes, TypeOK
        <5> QED BY <5>1, <5>2
      <4>2. worker'[c] = worker[c] \/ worker'[c] \in {"queued", "notified"}
        BY <2>2, <3>2
           DEF ExecStep, StartsUnguarded, EntersPolicy, PolicyAllows, PolicyRefuses,
               TakesToolSlot, StartRefused, StartsSync, AsyncEnds, CancelWaiting,
               CancelSubmitted, ReceivesResult, workerVars, TypeOK
      <4> QED BY <4>1, <4>2 DEF Runs
    <3> QED BY <3>1, <3>2
  <2> QED BY <2>1, <2>2
<1>3. Phase(c) = "pending"
  BY <1>2 DEF Control, InStep, Phase
<1>4. Cardinality(Bodies) < MaxConcurrency
  <2>1. CASE slots > 0
    <3>1. Cardinality(Bodies) <= Cardinality(Holders)
      BY <1>1, FS_Subset
    <3> HIDE DEF Holders
    <3> QED BY <1>1, <2>1, <3>1, RuntimeAssumption
  <2>2. CASE worker[c] = "queued"
    <3>1. c \in Holders /\ c \notin Bodies
      BY <2>2 DEF HoldsSlot, Bodies
    <3>2. Cardinality(Bodies) < Cardinality(Holders)
      <4>1. Cardinality(Bodies \cup {c}) = Cardinality(Bodies) + 1
        BY <1>1, <3>1, FS_AddElement
      <4>2. Bodies \cup {c} \subseteq Holders
        BY <1>1, <3>1
      <4>3. Cardinality(Bodies \cup {c}) <= Cardinality(Holders)
        BY <1>1, <4>2, FS_Subset
      <4> HIDE DEF Holders
      <4> QED BY <1>1, <4>1, <4>3
    <3> HIDE DEF Holders
    <3> QED BY <1>1, <3>2, RuntimeAssumption
  <2> QED BY <1>2, <2>1, <2>2
<1> QED BY <1>3, <1>4

(***************************************************************************)
(* ImplementsExecutor: for every number of calls, tools, permits and       *)
(* threads the runtime is a bounded executor.  At most MaxPending calls    *)
(* are pending, at most MaxConcurrency bodies run, a body begins only for  *)
(* a pending call, and a call that has returned stays so.                  *)
(***************************************************************************)
THEOREM RuntimeImplementsExecutor == Spec => ImplementsExecutor
<1> DEFINE ENext == Executor!Next
           EVars == <<Phases, Bodies>>
<1>1. Init => Executor!Init
  <2> SUFFICES ASSUME Init PROVE Executor!Init
    OBVIOUS
  <2>1. \A c \in Calls : Phase(c) = "new" /\ ~Runs(c)
    BY DEF Init, Phase, Runs
  <2> QED BY <2>1 DEF Executor!Init
<1>2. ASSUME TypeOK, TypeOK', Control, PermitsConserved, MetricsConserved, [Next]_vars
      PROVE  ENext \/ UNCHANGED EVars
  <2>1. ASSUME NEW c \in Calls, HostStep(c)
        PROVE  ENext \/ UNCHANGED EVars
    <3>1. /\ Phases' = [Phases EXCEPT ![c] = Phase(c)']
          /\ Bodies' = IF Runs(c)' THEN Bodies \cup {c} ELSE Bodies \ {c}
      BY <1>2, <2>1, HostFrame, OneCallMoves
    <3>2. Bodies' = Bodies
      <4>1. Runs(c)' <=> Runs(c)
        BY <1>2, <2>1, HostFrame DEF Runs
      <4> QED BY <3>1, <4>1 DEF Bodies
    <3>3. Phases[c] = Phase(c)
      BY DEF Phases
    <3>4. CASE Phase(c)' = Phase(c)
      <4>1. Phases' = Phases
        BY <3>1, <3>4 DEF Phases
      <4> QED BY <3>2, <4>1
    <3>5. CASE Phase(c) = "new" /\ Phase(c)' = "returned"
      <4>1. Executor!Refuse(c)
        BY <3>1, <3>2, <3>3, <3>5 DEF Executor!Refuse, Phases, Bodies
      <4> QED BY <4>1 DEF Executor!Next
    <3>6. CASE /\ Phase(c) = "new" /\ Phase(c)' = "pending"
               /\ counters["pending_invocations"] < MaxPending
      <4>1. Executor!Pending = {d \in Calls : Pends(d)}
        BY <1>2, PhaseOf DEF Executor!Pending
      <4>2. Cardinality(Executor!Pending) < MaxPending
        BY <1>2, <3>6, <4>1 DEF MetricsConserved
      <4>3. Executor!Admit(c)
        BY SameCardinality, <3>1, <3>2, <3>3, <3>6, <4>2 DEF Executor!Admit, Phases, Bodies
      <4> QED BY <4>3 DEF Executor!Next
    <3>7. CASE Phase(c) = "pending" /\ Phase(c)' = "returned"
      <4>1. Executor!Return(c)
        BY <3>1, <3>2, <3>3, <3>7 DEF Executor!Return, Phases, Bodies
      <4> QED BY <4>1 DEF Executor!Next
    <3> HIDE DEF ENext, EVars
    <3> QED BY <1>2, <2>1, <3>4, <3>5, <3>6, <3>7, HostMovesPhase
  <2>2. ASSUME NEW c \in Calls, ExecStep(c) \/ WorkerStep(c)
        PROVE  ENext \/ UNCHANGED EVars
    <3>1. /\ host' = host
          /\ \A d \in Calls \ {c} : exec'[d] = exec[d] /\ worker'[d] = worker[d]
      BY <1>2, <2>2, ExecFrame, WorkerFrame
    <3>2. Bodies' = IF Runs(c)' THEN Bodies \cup {c} ELSE Bodies \ {c}
      BY <3>1, OneCallMoves
    <3>3. Phases' = Phases
      BY <3>1 DEF Phases, Phase
    <3>4. CASE Runs(c)' <=> Runs(c)
      <4>1. Bodies' = Bodies
        BY <3>2, <3>4 DEF Bodies
      <4> QED BY <3>3, <4>1
    <3>5. CASE ~Runs(c) /\ Runs(c)'
      <4>1. Phase(c) = "pending" /\ Cardinality(Bodies) < MaxConcurrency
        BY <1>2, <2>2, <3>5, BodyBegins
      <4>2. c \notin Bodies /\ Bodies' = Bodies \cup {c} /\ Phases[c] = "pending"
        BY <3>2, <3>5, <4>1 DEF Bodies, Phases
      <4>3. Executor!Start(c)
        BY SameCardinality, <3>3, <4>1, <4>2 DEF Executor!Start, Phases, Bodies
      <4> QED BY <4>3 DEF Executor!Next
    <3>6. CASE Runs(c) /\ ~Runs(c)'
      <4>1. c \in Bodies /\ Bodies' = Bodies \ {c}
        BY <3>2, <3>6 DEF Bodies
      <4>2. Executor!Stop(c)
        BY <3>3, <4>1 DEF Executor!Stop, Phases, Bodies
      <4> QED BY <4>2 DEF Executor!Next
    <3> HIDE DEF ENext, EVars
    <3> QED BY <3>4, <3>5, <3>6
  <2>3. ASSUME UNCHANGED <<host, exec, worker>>
        PROVE  UNCHANGED EVars
    BY <2>3 DEF Phases, Bodies, Phase, Runs
  <2> HIDE DEF ENext, EVars
  <2> QED BY <1>2, <2>1, <2>2, <2>3, StepCases, ElseFrame
<1>3. ENext \/ UNCHANGED EVars => [Executor!Next]_(Executor!vars)
  BY DEF Executor!vars, Phases, Bodies
<1> HIDE DEF ENext, EVars
<1> QED BY <1>1, <1>2, <1>3, RuntimeTypesHold, ActivitiesInStep, PermitsAreConserved,
           MetricsAreConserved, PTL DEF Spec, ImplementsExecutor, Executor!Spec
=============================================================================
