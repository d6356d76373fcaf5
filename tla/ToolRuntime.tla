---------------------------- MODULE ToolRuntime -----------------------------
(***************************************************************************)
(* ToolRuntime.invoke and everything it sets in motion (runtime.py).       *)
(*                                                                         *)
(* One invocation is up to three concurrent activities:                    *)
(*   - the host coroutine, which admits the call, waits for the execution  *)
(*     with a deadline and turns its end into a result;                    *)
(*   - the execution task, which asks the policy, passes the circuit       *)
(*     breaker, the tool's bulkhead, the global semaphore and the rate     *)
(*     limit, and runs an asynchronous tool;                               *)
(*   - for a synchronous tool, the worker thread and the callbacks of its  *)
(*     future, which outlive the other two after a timeout.                *)
(* Coroutines interleave at their awaits only; threads interleave freely.  *)
(***************************************************************************)
EXTENDS BreakerOps, FiniteSets

CONSTANTS
  Calls,              \* invocations, each made once
  Tools,              \* registrations
  ToolOf,             \* the registration each invocation resolves
  SyncTools,          \* the tools that run in a worker thread
  Bulkhead,           \* per-tool max_concurrency; 0: none configured
  Burst,              \* burst capacity of the tool's bucket; 0: no rate limit
  ProtectedTools,     \* the tools registered with a circuit breaker
  MaxConcurrency,     \* max_concurrency: slots, policy slots and threads
  MaxPending,         \* max_pending_invocations
  Policies,           \* whether the host may configure a policy, or none
  StubbornPolicy,     \* whether the policy may still answer when cancelled
  ProgressCalls,      \* invocations with a progress handler
  CancellableCalls,   \* bound: invocations whose caller may cancel them
  MayClose,           \* bound: whether the host closes the runtime
  MaxTime             \* bound: the circuit clock reads 0 .. MaxTime

ASSUME RuntimeAssumption ==
  /\ IsFiniteSet(Calls)
  /\ ToolOf \in [Calls -> Tools]
  /\ SyncTools \subseteq Tools /\ ProtectedTools \subseteq Tools
  /\ Bulkhead \in [Tools -> Nat]
  /\ Burst \in [Tools -> Nat]
  /\ MaxConcurrency \in Nat \ {0}
  /\ MaxPending \in Nat \ {0}
  /\ Policies \subseteq BOOLEAN /\ StubbornPolicy \in BOOLEAN
  /\ ProgressCalls \subseteq Calls /\ CancellableCalls \subseteq Calls
  /\ MayClose \in BOOLEAN
  /\ MaxTime \in Nat

VARIABLES
  host,         \* where the host coroutine is
  status,       \* what its handler decided, before the cleanup in `finally`
  result,       \* what the caller finally got
  interrupted,  \* whether the caller cancelled the host coroutine
  exec,         \* where the execution task is
  outcome,      \* how the execution ended
  cancelling,   \* a cancellation of the execution is not delivered yet
  worker,       \* the worker thread and the callbacks of its future
  yielded,      \* what the synchronous function ended with
  attempt,      \* the permit in the invocation's _CircuitAttempt
  breaker,      \* each registration's circuit breaker
  tokens,       \* each registration's rate tokens
  slots,        \* free permits of _semaphore
  toolSlots,    \* free permits of each tool's semaphore
  policy,       \* whether the host configured one
  policySlots,  \* free permits of _policy_semaphore
  counters,     \* _counters
  closing       \* how far aclose has come

hostVars   == <<host, status, result, interrupted>>
execVars   == <<exec, outcome, cancelling>>
workerVars == <<worker, yielded>>
circuit    == <<attempt, breaker>>
policyVars == <<policy, policySlots>>
capacity   == <<slots, toolSlots, policyVars>>
vars == <<hostVars, execVars, workerVars, circuit, tokens, capacity,
          counters, closing>>

HostPlaces   == {"idle", "waiting", "timeout_join", "cancel_join", "closing", "done"}
ExecPlaces   == {"none", "created", "policy", "tool_wait", "slot_wait",
                 "running", "submitted", "finished"}
WorkerPlaces == {"none", "queued", "running", "returned", "recorded",
                 "notified", "released"}

(* How a tool's own code can end: a value, an Exception, a TimeoutError,   *)
(* a ProgressHandlerError or a CancelledError.                             *)
BodyOutcomes == {"output", "error", "timeout_error", "progress_error", "cancelled"}
ExecOutcomes == BodyOutcomes \cup {"denied", "policy_failed", "circuit_open",
                                   "rate_limited"}
(* Terminal counters; SUCCESS is named by its counter, "succeeded".        *)
Refusals == {"runtime_closed", "busy", "not_found", "invalid_arguments"}
Statuses == Refusals \cup {"succeeded", "denied", "rate_limited", "circuit_open",
                           "timed_out", "failed", "cancelled"}
Gauges   == {"calls_total", "circuit_breaker_trips", "pending_invocations", "in_flight"}

Clock == 0 .. MaxTime

TypeOK ==
  /\ host \in [Calls -> HostPlaces]
  /\ status \in [Calls -> Statuses \cup {"none", "aborted"}]
  /\ result \in [Calls -> Statuses \cup {"none", "aborted"}]
  /\ interrupted \in [Calls -> BOOLEAN]
  /\ exec \in [Calls -> ExecPlaces]
  /\ outcome \in [Calls -> ExecOutcomes \cup {"none"}]
  /\ cancelling \in [Calls -> BOOLEAN]
  /\ worker \in [Calls -> WorkerPlaces]
  /\ yielded \in [Calls -> BodyOutcomes \cup {"none"}]
  /\ attempt \in [Calls -> Permit]
  /\ breaker \in [Tools -> Breaker]
  /\ tokens \in [Tools -> Nat]
  /\ slots \in Int
  /\ toolSlots \in [Tools -> Int]
  /\ policy \in BOOLEAN /\ policySlots \in Int
  /\ counters \in [Statuses \cup Gauges -> Int]
  /\ closing \in {"open", "joining", "interrupted", "shut"}

Init ==
  /\ host = [c \in Calls |-> "idle"]
  /\ status = [c \in Calls |-> "none"]
  /\ result = [c \in Calls |-> "none"]
  /\ interrupted = [c \in Calls |-> FALSE]
  /\ exec = [c \in Calls |-> "none"]
  /\ outcome = [c \in Calls |-> "none"]
  /\ cancelling = [c \in Calls |-> FALSE]
  /\ worker = [c \in Calls |-> "none"]
  /\ yielded = [c \in Calls |-> "none"]
  /\ attempt = [c \in Calls |-> NoPermit]
  /\ breaker = [t \in Tools |-> NewBreaker(0)]
  /\ tokens = Burst
  /\ slots = MaxConcurrency
  /\ toolSlots = Bulkhead
  /\ policy \in Policies /\ policySlots = MaxConcurrency
  /\ counters = [k \in Statuses \cup Gauges |-> 0]
  /\ closing = "open"

-----------------------------------------------------------------------------
(* Shared pieces of the handlers.                                          *)

(* A status other than "aborted" has a counter of its name. *)
Counted(s) == {s} \cap Statuses

(* _increment and the gauges, under the metrics lock. *)
Bump(up, down) ==
  [k \in Statuses \cup Gauges |-> counters[k] + (IF k \in up THEN 1 ELSE 0)
                                              - (IF k \in down THEN 1 ELSE 0)]

(* _CircuitAttempt.succeed / fail / abandon, and _record_circuit_failure's *)
(* trip counter.                                                           *)
RecordedOrDropped(c, report, now) ==   \* mutant: abandon forgets the breaker
  /\ breaker' = IF report = "abandon" THEN breaker
                ELSE [breaker EXCEPT ![ToolOf[c]] = Settle(@, attempt[c], report, now)]
  /\ attempt' = [attempt EXCEPT ![c] = NoPermit]

Recorded(c, report, now) ==
  /\ breaker' = [breaker EXCEPT ![ToolOf[c]] = Settle(@, attempt[c], report, now)]
  /\ attempt' = [attempt EXCEPT ![c] = NoPermit]

Tripped(c, report) ==
  IF report = "fail" /\ Trips(breaker[ToolOf[c]], attempt[c])
  THEN {"circuit_breaker_trips"} ELSE {}

HasBulkhead(c) == Bulkhead[ToolOf[c]] > 0
IsSync(c)      == ToolOf[c] \in SyncTools

ToolSlotsPlus(c, n) ==
  [toolSlots EXCEPT ![ToolOf[c]] = IF HasBulkhead(c) THEN @ + n ELSE @]

(* The execution task ends; a request to cancel it is then void. *)
Finishes(c, o) ==
  /\ exec' = [exec EXCEPT ![c] = "finished"]
  /\ outcome' = [outcome EXCEPT ![c] = o]
  /\ cancelling' = [cancelling EXCEPT ![c] = FALSE]

(* `finally`: the call leaves once its progress scope is closed; without a *)
(* progress handler it leaves at once and gives its admission back.        *)
Leaves(c, s, up) ==
  /\ status' = [status EXCEPT ![c] = s]
  /\ IF c \in ProgressCalls
     THEN /\ host' = [host EXCEPT ![c] = "closing"]
          /\ UNCHANGED result
          /\ counters' = Bump(up, {})
     ELSE /\ host' = [host EXCEPT ![c] = "done"]
          /\ result' = [result EXCEPT ![c] = s]
          /\ counters' = Bump(up, {"pending_invocations"})

-----------------------------------------------------------------------------
(* The host coroutine.                                                     *)

(***************************************************************************)
(* invoke returns at once: the runtime is closed, the timeout is invalid,  *)
(* the pending capacity is full, or (after an admission given back in the  *)
(* same step) the tool is unknown or the arguments are invalid.  A         *)
(* progress handler that is not callable raises before any of that.        *)
(***************************************************************************)
RefusalReasons ==
  {"aborted"} \cup
  IF closing # "open" THEN {"runtime_closed"}
  ELSE {"invalid_arguments"} \cup
       (IF counters["pending_invocations"] >= MaxPending THEN {"busy"}
                                                         ELSE {"not_found"})

InvokeRefused(c) ==
  /\ host[c] = "idle"
  /\ \E r \in RefusalReasons :
       /\ status' = [status EXCEPT ![c] = r]
       /\ result' = [result EXCEPT ![c] = r]
       /\ counters' = Bump({"calls_total"} \cup Counted(r), {})
  /\ host' = [host EXCEPT ![c] = "done"]
  /\ UNCHANGED <<interrupted, execVars, workerVars, circuit, tokens, capacity, closing>>

InvokeAdmitted(c) ==
  /\ host[c] = "idle"
  /\ closing = "open"
  /\ counters["pending_invocations"] < MaxPending
  /\ host' = [host EXCEPT ![c] = "waiting"]
  /\ exec' = [exec EXCEPT ![c] = "created"]
  /\ counters' = Bump({"calls_total", "pending_invocations"}, {})
  /\ UNCHANGED <<status, result, interrupted, outcome, cancelling, workerVars,
                 circuit, tokens, capacity, closing>>

(* What the except and else clauses make of an execution that has ended.   *)
(* TimeoutError enters the clause meant for the deadline, which records a  *)
(* failure and re-raises it from `await execution`.                        *)
ReportOf(o) ==
  CASE o = "output"                      -> "succeed"
    [] o \in {"error", "timeout_error"}  -> "fail"
    [] OTHER                             -> "abandon"

StatusOf(o) ==
  CASE o = "output"                              -> "succeeded"
    [] o \in {"error", "policy_failed"}          -> "failed"
    [] o \in {"timeout_error", "progress_error"} -> "aborted"
    [] OTHER                                     -> o

(* A caller cancels its host at most once. *)
MayCancel(c) == c \in CancellableCalls /\ ~interrupted[c]

(* wait_for returns.  Before Python 3.12 it also returns, and the caller's *)
(* cancellation is lost, when both arrive together.                        *)
HostObserves(c) ==
  /\ host[c] = "waiting" /\ exec[c] = "finished"
  /\ \E lost \in BOOLEAN :
       interrupted' = [interrupted EXCEPT ![c] = @ \/ (lost /\ MayCancel(c))]
  /\ LET report == ReportOf(outcome[c])
         s      == StatusOf(outcome[c])
     IN  /\ \E now \in Clock : Recorded(c, report, now)
         /\ Leaves(c, s, Counted(s) \cup Tripped(c, report))
  /\ UNCHANGED <<execVars, workerVars, tokens, capacity, closing>>

(* execution.cancel(): no effect on a task that is done. *)
CancelIfStarted(c) ==                  \* mutant: a queued call is not cancelled
  cancelling' = [cancelling EXCEPT ![c] = exec[c] \in {"policy", "running", "submitted"}]

Cancel(c) ==
  cancelling' = [cancelling EXCEPT ![c] = exec[c] # "finished"]

HostTimesOut(c) ==
  /\ host[c] = "waiting"
  /\ host' = [host EXCEPT ![c] = "timeout_join"]
  /\ \E now \in Clock : Recorded(c, "fail", now)
  /\ counters' = Bump(Tripped(c, "fail"), {})
  /\ Cancel(c)
  /\ UNCHANGED <<status, result, interrupted, exec, outcome, workerVars, tokens,
                 capacity, closing>>

(* The caller cancels the host while it waits ... *)
HostCancelled(c) ==
  /\ host[c] = "waiting" /\ MayCancel(c)
  /\ host' = [host EXCEPT ![c] = "cancel_join"]
  /\ interrupted' = [interrupted EXCEPT ![c] = TRUE]
  /\ Cancel(c)
  /\ UNCHANGED <<status, result, exec, outcome, workerVars, circuit, tokens,
                 capacity, counters, closing>>

(* ... or while it joins the execution, which it awaits unshielded: the    *)
(* request goes to the execution, or is thrown at the await.               *)
HostCancelledInJoin(c) ==
  /\ host[c] = "timeout_join" /\ MayCancel(c)
  /\ interrupted' = [interrupted EXCEPT ![c] = TRUE]
  /\ IF exec[c] = "finished"
     THEN Leaves(c, "timed_out", {"timed_out"}) /\ UNCHANGED cancelling
     ELSE Cancel(c) /\ UNCHANGED <<host, status, result, counters>>
  /\ UNCHANGED <<exec, outcome, workerVars, circuit, tokens, capacity, closing>>

(* `await execution` suppresses only CancelledError. *)
JoinsQuietly(c) == outcome[c] \in {"output", "cancelled"}

JoinAfterTimeout(c) ==
  /\ host[c] = "timeout_join" /\ exec[c] = "finished"
  /\ LET s == IF JoinsQuietly(c) THEN "timed_out" ELSE "aborted"
     IN  Leaves(c, s, Counted(s))
  /\ UNCHANGED <<interrupted, execVars, workerVars, circuit, tokens, capacity, closing>>

JoinAfterCancel(c) ==
  /\ host[c] = "cancel_join" /\ exec[c] = "finished"
  /\ IF JoinsQuietly(c)
     THEN /\ \E now \in Clock : Recorded(c, "abandon", now)
          /\ Leaves(c, "cancelled", {"cancelled"})
     ELSE /\ UNCHANGED circuit
          /\ Leaves(c, "aborted", {})
  /\ UNCHANGED <<interrupted, execVars, workerVars, tokens, capacity, closing>>

(* await _close_progress, the admission's release and the terminal event.  *)
ReturnCounted(c, r) ==                 \* mutant: the status is counted again
  /\ host[c] = "closing"
  /\ host' = [host EXCEPT ![c] = "done"]
  /\ result' = [result EXCEPT ![c] = r]
  /\ counters' = Bump({r}, {"pending_invocations"})
  /\ UNCHANGED <<status, execVars, workerVars, circuit, tokens, capacity, closing>>

Return(c, r) ==
  /\ host[c] = "closing"
  /\ host' = [host EXCEPT ![c] = "done"]
  /\ result' = [result EXCEPT ![c] = r]
  /\ counters' = Bump({}, {"pending_invocations"})
  /\ UNCHANGED <<status, execVars, workerVars, circuit, tokens, capacity, closing>>

ProgressCloses(c) == Return(c, status[c]) /\ UNCHANGED interrupted

HostCancelledInClose(c) ==
  /\ MayCancel(c)
  /\ Return(c, "cancelled")
  /\ interrupted' = [interrupted EXCEPT ![c] = TRUE]

-----------------------------------------------------------------------------
(* The execution task.                                                     *)

(* _execute begins: the circuit is checked before any capacity is taken.   *)
EntersCircuit(c, now) ==
  LET t == ToolOf[c] IN
  IF t \notin ProtectedTools
  THEN /\ exec' = [exec EXCEPT ![c] = IF HasBulkhead(c) THEN "tool_wait" ELSE "slot_wait"]
       /\ cancelling' = [cancelling EXCEPT ![c] = FALSE]
       /\ UNCHANGED <<outcome, circuit>>
  ELSE /\ breaker' = [breaker EXCEPT ![t] = Acquire(@, now)]
       /\ IF Admits(breaker[t], now)
          THEN /\ attempt' = [attempt EXCEPT ![c] = Granted(breaker[t], now)]
               /\ exec' = [exec EXCEPT ![c] = IF HasBulkhead(c) THEN "tool_wait"
                                                                ELSE "slot_wait"]
               /\ cancelling' = [cancelling EXCEPT ![c] = FALSE]
               /\ UNCHANGED outcome
          ELSE Finishes(c, "circuit_open") /\ UNCHANGED attempt

StartsUnguarded(c) ==
  /\ ~policy
  /\ exec[c] = "created" /\ ~cancelling[c]
  /\ \E now \in Clock : EntersCircuit(c, now)
  /\ UNCHANGED <<hostVars, workerVars, tokens, capacity, counters, closing>>

EntersPolicy(c) ==
  /\ policy
  /\ exec[c] = "created" /\ ~cancelling[c]
  /\ policySlots > 0
  /\ policySlots' = policySlots - 1 /\ UNCHANGED policy
  /\ exec' = [exec EXCEPT ![c] = "policy"]
  /\ UNCHANGED <<hostVars, outcome, cancelling, workerVars, circuit, tokens, slots,
                 toolSlots, counters, closing>>

(* A policy that is being cancelled may catch that and answer all the same;*)
(* the request is then used up.                                            *)
PolicyMayAnswer(c) == exec[c] = "policy" /\ (cancelling[c] => StubbornPolicy)

(* `async with` gives the policy slot back however the policy ends. *)
PolicySlotBack(c) == policySlots' = policySlots + 1 /\ UNCHANGED policy

PolicyAllows(c) ==
  /\ PolicyMayAnswer(c)
  /\ PolicySlotBack(c)
  /\ \E now \in Clock : EntersCircuit(c, now)
  /\ UNCHANGED <<hostVars, workerVars, tokens, slots, toolSlots, counters, closing>>

PolicyRefuses(c) ==
  /\ exec[c] = "policy"
  /\ PolicySlotBack(c)
  /\ \/ PolicyMayAnswer(c) /\ Finishes(c, "denied")
     \/ Finishes(c, "policy_failed")
     \/ Finishes(c, "cancelled")
  /\ UNCHANGED <<hostVars, workerVars, circuit, tokens, slots, toolSlots, counters, closing>>

TakesToolSlot(c) ==
  /\ exec[c] = "tool_wait" /\ ~cancelling[c]
  /\ toolSlots[ToolOf[c]] > 0
  /\ toolSlots' = ToolSlotsPlus(c, -1)
  /\ exec' = [exec EXCEPT ![c] = "slot_wait"]
  /\ UNCHANGED <<hostVars, outcome, cancelling, workerVars, circuit, tokens, slots,
                 policyVars, counters, closing>>

(***************************************************************************)
(* The step that gets the global slot runs on to the tool's first line     *)
(* (or to the submission to the executor) without an await: it validates   *)
(* the permit, then takes a rate token; a refusal gives the slots back.    *)
(***************************************************************************)
Validated(c) == \/ ToolOf[c] \notin ProtectedTools
                \/ PermitIsCurrent(breaker[ToolOf[c]], attempt[c])
HasToken(c)  == Burst[ToolOf[c]] > 0 => tokens[ToolOf[c]] > 0

GetsSlot(c) ==
  /\ exec[c] = "slot_wait" /\ ~cancelling[c]
  /\ slots > 0
  /\ IF ToolOf[c] \in ProtectedTools
     THEN \E now \in Clock : breaker' = [breaker EXCEPT ![ToolOf[c]] = Observe(@, now)]
     ELSE UNCHANGED breaker
  /\ UNCHANGED <<hostVars, yielded, attempt, policyVars, closing>>

(* The refused step released the slot that it had just acquired.           *)
RefundTwice == slots' = slots + 1        \* mutant: released on two paths
Refund == slots' = slots

StartRefused(c) ==
  /\ GetsSlot(c)
  /\ \/ ~Validated(c) /\ Finishes(c, "circuit_open")
     \/ Validated(c) /\ ~HasToken(c) /\ Finishes(c, "rate_limited")
  /\ toolSlots' = ToolSlotsPlus(c, 1)
  /\ Refund
  /\ UNCHANGED <<worker, tokens, counters>>

Starts(c) ==
  /\ GetsSlot(c)
  /\ Validated(c) /\ HasToken(c)
  /\ slots' = slots - 1
  /\ tokens' = [tokens EXCEPT ![ToolOf[c]] = IF Burst[ToolOf[c]] > 0 THEN @ - 1 ELSE @]
  /\ UNCHANGED <<outcome, cancelling, toolSlots>>

StartsAsync(c) ==
  /\ ~IsSync(c)
  /\ Starts(c)
  /\ exec' = [exec EXCEPT ![c] = "running"]
  /\ counters' = Bump({"in_flight"}, {})
  /\ UNCHANGED worker

StartsSync(c) ==
  /\ IsSync(c)
  /\ Starts(c)
  /\ exec' = [exec EXCEPT ![c] = "submitted"]
  /\ worker' = [worker EXCEPT ![c] = "queued"]
  /\ UNCHANGED counters

(***************************************************************************)
(* An asynchronous tool ends, cancelled or not, and its output is checked. *)
(* The breaker hears of it before the slots are released; of a             *)
(* CancelledError it only hears from the host.                             *)
(***************************************************************************)
TellsOfOutput(o) == o = "output"         \* mutant: the host reports failures
TellsBreaker(o) == o # "cancelled"

AsyncEnds(c) ==
  /\ exec[c] = "running"
  /\ \E o \in BodyOutcomes :
       /\ Finishes(c, o)
       /\ IF TellsBreaker(o)
          THEN /\ \E now \in Clock : Recorded(c, ReportOf(o), now)
               /\ counters' = Bump(Tripped(c, ReportOf(o)), {"in_flight"})
          ELSE UNCHANGED circuit /\ counters' = Bump({}, {"in_flight"})
  /\ slots' = slots + 1
  /\ toolSlots' = ToolSlotsPlus(c, 1)
  /\ UNCHANGED <<hostVars, workerVars, tokens, policyVars, closing>>

(* A cancellation reaches an execution that has not started its tool. *)
ToolSlotKept(c) == toolSlots             \* mutant: no release on cancellation
ToolSlotsAfterCancel(c) ==
  IF exec[c] = "slot_wait" THEN ToolSlotsPlus(c, 1) ELSE toolSlots

CancelWaiting(c) ==
  /\ cancelling[c]
  /\ exec[c] \in {"created", "tool_wait", "slot_wait"}
  /\ Finishes(c, "cancelled")
  /\ toolSlots' = ToolSlotsAfterCancel(c)
  /\ UNCHANGED <<hostVars, workerVars, circuit, tokens, slots, policyVars,
                 counters, closing>>

(***************************************************************************)
(* A cancellation reaches an execution that waits for a worker thread.     *)
(* wrap_future cancels the thread's future too: if the thread has not      *)
(* started, the callbacks run here, and concurrent.futures.CancelledError, *)
(* an Exception, is recorded as a failure.                                 *)
(***************************************************************************)
FutureUntouched(c) == FALSE              \* mutant: the thread's future is left alone
FutureCancelled(c) == worker[c] = "queued"

CancelSubmitted(c) ==
  /\ cancelling[c] /\ exec[c] = "submitted"
  /\ Finishes(c, "cancelled")
  /\ IF FutureCancelled(c)
     THEN /\ worker' = [worker EXCEPT ![c] = "notified"]
          /\ \E now \in Clock : Recorded(c, "fail", now)
          /\ counters' = Bump(Tripped(c, "fail"), {})
     ELSE UNCHANGED <<worker, circuit, counters>>
  /\ UNCHANGED <<hostVars, yielded, tokens, capacity, closing>>

(* The wrapped future delivers the thread's result. *)
ReceivesResult(c) ==
  /\ exec[c] = "submitted" /\ ~cancelling[c]
  /\ worker[c] = "released"
  /\ Finishes(c, yielded[c])
  /\ UNCHANGED <<hostVars, workerVars, circuit, tokens, capacity,
                 counters, closing>>

-----------------------------------------------------------------------------
(* The worker thread and the callbacks of its future.                      *)

BusyThreads == {c \in Calls : worker[c] \in {"running", "returned", "recorded"}}

WorkerStarts(c) ==
  /\ worker[c] = "queued"
  /\ Cardinality(BusyThreads) < MaxConcurrency
  /\ worker' = [worker EXCEPT ![c] = "running"]
  /\ counters' = Bump({"in_flight"}, {})
  /\ UNCHANGED <<hostVars, execVars, yielded, circuit, tokens, capacity, closing>>

WorkerEnds(c) ==
  /\ worker[c] = "running"
  /\ worker' = [worker EXCEPT ![c] = "returned"]
  /\ \E o \in BodyOutcomes : yielded' = [yielded EXCEPT ![c] = o]
  /\ counters' = Bump({}, {"in_flight"})
  /\ UNCHANGED <<hostVars, execVars, circuit, tokens, capacity, closing>>

(* _sync_circuit_finished *)
WorkerRecords(c) ==
  /\ worker[c] = "returned"
  /\ worker' = [worker EXCEPT ![c] = "recorded"]
  /\ \E now \in Clock : Recorded(c, ReportOf(yielded[c]), now)
  /\ counters' = Bump(Tripped(c, ReportOf(yielded[c])), {})
  /\ UNCHANGED <<hostVars, execVars, yielded, tokens, capacity, closing>>

(* _sync_finished: the future leaves _sync_futures, release_slots is posted *)
WorkerNotifies(c) ==
  /\ worker[c] = "recorded"
  /\ worker' = [worker EXCEPT ![c] = "notified"]
  /\ UNCHANGED <<hostVars, execVars, yielded, circuit, tokens, capacity, counters, closing>>

(* release_slots, on the event loop *)
ReleasesSlots(c) ==
  /\ worker[c] = "notified"
  /\ worker' = [worker EXCEPT ![c] = "released"]
  /\ slots' = slots + 1
  /\ toolSlots' = ToolSlotsPlus(c, 1)
  /\ UNCHANGED <<hostVars, execVars, yielded, circuit, tokens, policyVars, counters, closing>>

-----------------------------------------------------------------------------
(* aclose, the rate limit's clock and the whole system.                    *)

Active == {c \in Calls : host[c] \in {"waiting", "timeout_join", "cancel_join"}}

CancelsActive ==
  cancelling' = [c \in Calls |-> IF c \in Active /\ exec[c] # "finished"
                                 THEN TRUE ELSE cancelling[c]]

CloseBegins ==
  /\ MayClose /\ closing = "open"
  /\ closing' = "joining"
  /\ CancelsActive
  /\ UNCHANGED <<hostVars, exec, outcome, workerVars, circuit, tokens, capacity, counters>>

(* Its caller cancels aclose inside gather: the executor is not shut down. *)
CloseInterrupted ==
  /\ closing = "joining"
  /\ closing' = "interrupted"
  /\ CancelsActive
  /\ UNCHANGED <<hostVars, exec, outcome, workerVars, circuit, tokens, capacity, counters>>

(* No future is queued any more here, so shutdown finds none to cancel     *)
(* (see ReturnedIsSettled).                                                    *)
NotAwaited == TRUE                       \* mutant: gather is not awaited
Joined == \A c \in Calls : exec[c] \in {"none", "finished"}

CloseJoined ==
  /\ closing = "joining"
  /\ Joined
  /\ closing' = "shut"
  /\ UNCHANGED <<hostVars, execVars, workerVars, circuit, tokens, capacity, counters>>

(* Time passes and a bucket gains a token (ToolRegistry has the arithmetic). *)
Refill(t) ==
  /\ tokens[t] < Burst[t]
  /\ tokens' = [tokens EXCEPT ![t] = @ + 1]
  /\ UNCHANGED <<hostVars, execVars, workerVars, circuit, capacity, counters, closing>>

(* Every call has returned, no thread is left and aclose is over. *)
Quiescent ==
  /\ \A c \in Calls : host[c] = "done" /\ worker[c] \in {"none", "released"}
  /\ closing # "joining"
  /\ UNCHANGED vars

HostStep(c) ==
  \/ InvokeRefused(c) \/ InvokeAdmitted(c)
  \/ HostObserves(c) \/ HostTimesOut(c) \/ HostCancelled(c) \/ HostCancelledInJoin(c)
  \/ JoinAfterTimeout(c) \/ JoinAfterCancel(c)
  \/ ProgressCloses(c) \/ HostCancelledInClose(c)

ExecStep(c) ==
  \/ StartsUnguarded(c) \/ EntersPolicy(c) \/ PolicyAllows(c) \/ PolicyRefuses(c)
  \/ TakesToolSlot(c) \/ StartRefused(c) \/ StartsAsync(c) \/ StartsSync(c)
  \/ AsyncEnds(c) \/ CancelWaiting(c) \/ CancelSubmitted(c) \/ ReceivesResult(c)

WorkerStep(c) ==
  \/ WorkerStarts(c) \/ WorkerEnds(c) \/ WorkerRecords(c) \/ WorkerNotifies(c)
  \/ ReleasesSlots(c)

Next ==
  \/ \E c \in Calls : HostStep(c) \/ ExecStep(c) \/ WorkerStep(c)
  \/ CloseBegins \/ CloseInterrupted \/ CloseJoined
  \/ \E t \in Tools : Refill(t)
  \/ Quiescent

Spec == Init /\ [][Next]_vars

(***************************************************************************)
(* Deadlines always fire, code that is ready to run does run, and tools,   *)
(* policies and progress handlers end when they are cancelled.  Nothing is *)
(* assumed of a tool or a policy that is not cancelled, nor of a           *)
(* synchronous function at all.                                            *)
(***************************************************************************)
CancelledBodyEnds(c) ==
  cancelling[c] /\ (AsyncEnds(c) \/ PolicyRefuses(c) \/ CancelWaiting(c)
                      \/ CancelSubmitted(c))

CallbackRuns(c) == WorkerRecords(c) \/ WorkerNotifies(c) \/ ReleasesSlots(c)

Fairness ==
  /\ \A c \in Calls :
       /\ WF_vars(HostObserves(c) \/ HostTimesOut(c))
       /\ WF_vars(JoinAfterTimeout(c) \/ JoinAfterCancel(c) \/ ProgressCloses(c))
       /\ WF_vars(CancelledBodyEnds(c))
       /\ WF_vars(WorkerStarts(c) \/ CallbackRuns(c))
  /\ WF_vars(CloseJoined)

FairSpec == Spec /\ Fairness
-----------------------------------------------------------------------------
(* Who uses what.                                                          *)

HoldsSlot(c) ==
  \/ exec[c] = "running"
  \/ worker[c] \in {"queued", "running", "returned", "recorded", "notified"}

HoldsToolSlot(c) == HasBulkhead(c) /\ (HoldsSlot(c) \/ exec[c] = "slot_wait")
HoldsPolicySlot(c) == exec[c] = "policy"
Runs(c) == exec[c] = "running" \/ worker[c] = "running"
Pends(c) == host[c] \in {"waiting", "timeout_join", "cancel_join", "closing"}

CallsOf(t) == {c \in Calls : ToolOf[c] = t}

(***************************************************************************)
(* Every permit of every semaphore is either free or held by one call that *)
(* really uses it: no path through refusal, failure, timeout, cancellation *)
(* or a thread that outlives its call loses a permit or returns it twice.  *)
(***************************************************************************)
PermitsConserved ==
  /\ slots >= 0
  /\ slots + Cardinality({c \in Calls : HoldsSlot(c)}) = MaxConcurrency
  /\ \A t \in Tools :
       /\ toolSlots[t] >= 0
       /\ toolSlots[t] + Cardinality({c \in CallsOf(t) : HoldsToolSlot(c)}) = Bulkhead[t]
  /\ policySlots >= 0
  /\ policySlots + Cardinality({c \in Calls : HoldsPolicySlot(c)}) = MaxConcurrency

(***************************************************************************)
(* Besides the types of all variables:                                     *)
(* pending_invocations is the number of calls that have not returned, and  *)
(* never exceeds the cap; in_flight is the number of bodies that physically *)
(* run, abandoned threads included; and each call that a counter stands    *)
(* for is counted once, under the status its handler decided.              *)
(***************************************************************************)
MetricsConserved ==
  /\ TypeOK
  /\ counters["pending_invocations"] = Cardinality({c \in Calls : Pends(c)})
  /\ counters["pending_invocations"] <= MaxPending
  /\ counters["in_flight"] = Cardinality({c \in Calls : Runs(c)})
  /\ counters["calls_total"] = Cardinality({c \in Calls : host[c] # "idle"})
  /\ \A s \in Statuses : counters[s] = Cardinality({c \in Calls : status[c] = s})

(***************************************************************************)
(* A half-open breaker has exactly one outstanding probe.                  *)
(***************************************************************************)
ProbeIn(c) ==
  attempt[c].probe /\ PermitIsCurrent(breaker[ToolOf[c]], attempt[c])

ProbeConserved ==
  \A t \in Tools :
    /\ breaker[t].state = "half_open" => \E c \in CallsOf(t) : ProbeIn(c)
    /\ \A c, d \in CallsOf(t) : ProbeIn(c) /\ ProbeIn(d) => c = d

(***************************************************************************)
(* A call that has left its handler, and every call once aclose has        *)
(* joined, leaves nothing behind but a thread: its execution is over, its  *)
(* function is not waiting for a thread, and unless an exception escaped   *)
(* or its policy answered after having been cancelled, its circuit attempt *)
(* is settled.                                                             *)
(***************************************************************************)
ReturnedIsSettled ==
  \A c \in Calls :
    /\ host[c] \in {"closing", "done"} \/ closing = "shut" =>
         exec[c] \in {"none", "finished"} /\ worker[c] # "queued"
    /\ host[c] \in {"closing", "done"} /\ status[c] # "aborted" /\ ~StubbornPolicy =>
         attempt[c] = NoPermit

(***************************************************************************)
(* Capacity that a finished body gives back reaches the next call only     *)
(* after the breaker has heard of the outcome (CIRCUIT_BREAKERS.md: before *)
(* capacity is released), so a queued call is stopped by the trip.         *)
(***************************************************************************)
CircuitHearsFirst ==
  [][\A c \in Calls : HoldsSlot(c) /\ ~HoldsSlot(c)' =>
       attempt'[c] = NoPermit \/ outcome'[c] = "cancelled"]_vars

(* The runtime implements the bounded executor. *)
Phase(c) == CASE host[c] = "idle" -> "new"
              [] host[c] = "done" -> "returned"
              [] OTHER            -> "pending"

Executor == INSTANCE BoundedExecutor
              WITH MaxRunning <- MaxConcurrency,
                   phase      <- [c \in Calls |-> Phase(c)],
                   bodies     <- {c \in Calls : Runs(c)}

ImplementsExecutor == Executor!Spec
-----------------------------------------------------------------------------
(* A call that waits returns, even if tools, policies and threads hang     *)
(* until they are cancelled: its deadline also covers every queue.  And    *)
(* aclose joins unless its caller gives up, whatever the threads do.       *)
EveryCallReturns ==
  /\ \A c \in Calls : host[c] = "waiting" ~> host[c] = "done"
  /\ closing = "joining" ~> closing # "joining"

(* If every function returns in the end, all capacity comes back after the *)
(* last call, whatever was refused, cancelled or abandoned on the way.     *)
CapacityRecovers ==
  (\A c \in Calls : []<>(worker[c] # "running")) =>
    ((\A c \in Calls : host[c] = "done") ~>
       (slots = MaxConcurrency /\ toolSlots = Bulkhead))
-----------------------------------------------------------------------------
(* What the repository's documents say and the code does not do.           *)

(* API_REFERENCE.md: "Ordinary invocation failures are returned as         *)
(* ToolResult": only a progress handler's failure is raised.               *)
FailureIsAResult ==
  \A c \in Calls : outcome[c] \in {"error", "timeout_error"} => result[c] # "aborted"

(* RATE_LIMITS.md: a rate rejection "while holding the single half-open    *)
(* probe does not ... leave the breaker stuck".                            *)
ProbeNotStuck ==
  \A t \in Tools : breaker[t].state = "half_open" =>
    \E c \in CallsOf(t) : ProbeIn(c) /\ ~(host[c] = "done" /\ outcome[c] = "rate_limited")

(* CIRCUIT_BREAKERS.md: "caller cancellation do[es] not count". *)
CancellationIsNoFailure ==
  [][\A c \in Calls : host[c] = "cancel_join" /\ worker[c] = "queued"
                        /\ worker'[c] = "notified" =>
       breaker'[ToolOf[c]].failures = breaker[ToolOf[c]].failures]_vars
=============================================================================
