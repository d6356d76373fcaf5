# samsarix-core in TLA+

A verification project for `samsarix-core`, a Python runtime that executes
registered tools (coroutines, or functions in worker threads) for a host
application or for an MCP client.  The models follow the source under
`src/src/samsarix_core/`, one example and the archived prototypes under
`src/legacy/`; `PROJECT.json` maps every definition to the lines it stands for.

## The system

### Components

| component | state it keeps | operations | what makes it correct |
|---|---|---|---|
| Circuit breaker (`runtime.py:114-278`) | state, failure streak, end of the interval, generation, last observed time; one permit per invocation | acquire, validate, succeed, fail, abandon, reset | one probe per half-open period; one charge per invocation; stale outcomes ignored; a half-open period decided whoever is late |
| Runtime (`runtime.py:283-1163`) | counters, semaphores, active executions, thread pool and its futures, closed flag | `invoke`, `aclose`, the callbacks of futures | permits conserved on every path; capacity returned after the breaker knows; every call returns; close joins |
| Registry and `register` (`registry.py`, `runtime.py:389-448`) | registrations by name; semaphore, bucket and breaker by identity | register, replace, unregister, resolve | a call uses the controls of the registration it resolved; capacity never exceeded |
| Token bucket (`runtime.py:78-111`) | tokens, time of the last update | `try_acquire` | no window of time has more starts than burst and rate allow |
| Batches (`runtime.py:788-810`) | shared iterator, results | `invoke_many` | results in their places, each call made once |
| Tool contracts (`schema.py`, `decorators.py`) | none, one pass per call | compile, bound, validate, normalize | schema and validator agree; bounds are exact; issues are honest |
| Progress scope (`progress.py`) | closed flag, last progress, number of updates, lock | report, stop, close | nothing delivered after the call; order and cap |
| MCP task store (`_mcp_tasks.py`) | retained tasks with status, result, expiry | create, get, result, cancel, aclose | bounded; terminal states final; waiters never stuck |
| MCP server (`mcp.py:60-768`) | protocol era, initialised flag, requests in flight, progress tokens | `handle` and the methods behind it, aclose | each request answered once or cancelled by its client; ids and tokens have one owner |
| Stdio transport (`mcp.py:771-1010`) | tasks in flight, pending errors, write lock | the reading loop, responses, end of input | admission bounded; failures surface; nothing left behind |
| SQLite example (`examples/sqlite_reservations.py`) | inventory and reservations in a database | reserve, check | a request id reserves once, across retries and crashes |
| Legacy gateway, bus, context manager, algorithm of thoughts (`legacy/`) | response cache and Redis sentinel; queues and history; shared values and timers; solution paths | chat and its variants; publish, send, receive; set, expire; reason | cache shared only by what shares a label; calls accounted for; messages in order; nothing stale; the best path wins |

Models, errors and timeout normalisation are immutable data and range checks;
scripts, benchmarks, the other examples and the compatibility package hold no
logic of the system.

### How they interact

`invoke` is a coroutine on the host's event loop.  It resolves the tool,
validates the arguments against its contract, admits the call, starts an
*execution task*, and waits for it with a deadline.  The execution asks the
policy, then passes the circuit breaker, the tool's bulkhead, the global
semaphore, the permit's revalidation and the rate limit, in this order, and
runs the tool.  A synchronous tool runs in a *worker thread*; three callbacks
follow it: the breaker is told in the thread, the future leaves the set of
pending ones in the thread, and the slots are released on the loop.  The host
stops the progress scope, turns the execution's end into a `ToolResult`, an
exception or a cancellation, and closes the scope before it returns.
`invoke_many` makes several such calls from workers that share an iterator,
while other threads may register, replace and unregister tools.

The MCP server calls `invoke` from request tasks and from retained background
tasks, whose results the task store keeps; the stdio transport runs both
concurrently with its reading loop.  Coroutines interleave only at their
awaits, threads everywhere.  The archived components are connected to nothing.

### What is hard

* Up to three activities settle one circuit attempt: the host after a timeout
  or a cancellation, the execution's end, and the worker thread.
* A function cannot be stopped: it outlives its call, its slots and its permit
  must too, and its outcome arrives late.
* Permits of four semaphores and one counter are given back on paths through
  refusal, failure, deadline, cancellation and a closed runtime.
* A deadline, a result and a caller's cancellation can meet in one join.
* Clocks are read before the lock that orders the readings.
* A registration changes while calls that resolved it are queued or running.
* Request ids and progress tokens are reused by clients, while cancellations,
  failing siblings, retained tasks and a broken pipe race for them.
* A commit is durable before its answer is delivered.
* A schema and a validator are two translations of one annotation.

`PROJECT.json` lists these hazards by line, with the properties that watch
each of them.

## Modules

| module | models |
|---|---|
| `BreakerOps` | the methods of `_CircuitBreaker`, as functions from record to record: one application is one atomic step under the breaker's lock |
| `CircuitBreaker` | one breaker under concurrent invocations: host and worker race for the permit of the attempt and for the breaker's lock |
| `CircuitContract` | what a breaker promises: a mode and at most one prober |
| `ToolRuntime` | `invoke`, the execution task, worker threads and `aclose`, with breakers (`BreakerOps`), semaphores, rate tokens and counters |
| `BoundedExecutor` | what a runtime promises: bounded pending calls, bounded running bodies, calls that return once |
| `ToolRegistry` | registration from several threads, with the tables of bulkheads, buckets and breakers, and the bucket's arithmetic |
| `ToolBatch` | `invoke_many` over that registry (extends it) |
| `ToolSchema`, `ToolContracts` | annotations, their published schemas, the value limits and the validator; and the way of one call through them |
| `ToolProgress` | the progress scope around one call of an MCP client, and the log and the result the server makes of it |
| `MCPTaskStore` | retained MCP tasks: create, get, result, cancel, expiry on access, the background execution and `aclose` |
| `TaskLifecycle` | what a client may rely on for one task: accepted within capacity, ended once, kept, forgotten |
| `MCPSession` | the server and its stdio transport: reading loop, transport tasks, ids, tokens, eras, retained tasks, failures and the end |
| `SqliteReservations` | the inventory example: several processes, callers that retry, a database with one writer, crashes |
| `ReservationLedger` | what the example promises: one outcome per request id |
| `LLMGateway`, `MessageBus`, `AgentContext`, `AlgorithmOfThoughts` | the archived components that are modelled; `BoundedLists` has the capped lists of bus and context manager |
| `MCCircuitBreaker`, `MCToolRuntime`, `MCMCPTaskStore`, `MCMCPSession`, `MCToolkit`, `MCApplications` | the instances that TLC checks |
| `BreakerOpsProofs` | lemmas: what each breaker operation returns, keeps and bounds |
| `CircuitBreakerProofs`, `ToolRuntimeProofs`, `MCPTaskStoreProofs`, `ReservationProofs` | safety of the four components, and that each implements its abstract specification |
| `ToolkitProofs`, `MCPSessionProofs` | safety of the registry with its batches and of progress; safety of a session |
| `LegacyProofs` | safety of the bus, the context manager, the gateway and the engine of thoughts |

`CircuitBreaker` implements `CircuitContract`, `ToolRuntime` implements
`BoundedExecutor`, `MCPTaskStore` implements `TaskLifecycle` and
`SqliteReservations` implements `ReservationLedger`, under the refinement
mappings at the end of each module.  What one model takes as an input, another
produces: `ToolRuntime` takes the verdict of `ToolContracts` and the identity
of a registration that `ToolRegistry` hands out; `MCPSession` takes the end of
a call from `ToolRuntime` and the expiry of a task from `MCPTaskStore`.

### CircuitBreaker

`held[i][place]` is where the permit of invocation `i` is: still in its
`_CircuitAttempt`, or taken out by the host or by the worker.  `Take` is
`_CircuitAttempt._take` (attempt's lock), `Report` is the breaker method after
it (breaker's lock); between the two anything may happen in other threads.
Two hosts cannot be between them at once, because the event loop is one thread
(`LoopFree`).  The model has no clock variable: each operation carries a
reading from `0 .. MaxTime` that may be older than what the breaker has seen,
as `time.monotonic()` is read before the lock.  `charged` is a history variable
for the streak.  `ResetCircuit` is the host's manual reset.

A host does not always settle its attempt: the join of a cancelled caller
(`runtime.py:669-676`) suppresses `CancelledError` only, so an execution that
ended with another exception takes `invoke` out past the `abandon`
(`HostEscapes`).  If that host held the probe, the breaker stays half open
(`ProbeEscaped`); the run `probe_stuck` shows how this comes about in the
runtime.  `HalfOpenResolves` therefore says that a half-open period is decided
*or* its probe has escaped in this way, so that no late outcome, race of two
parties, hung thread or other call can leave it undecided.

### ToolRuntime

`host[c]`, `exec[c]` and `worker[c]` are the places in the code where the
three activities of a call wait; an action is the code from one such place to
the next.  `outcome[c]` is how the execution ended, `status[c]` what the
handler decided, `result[c]` what the caller got; `"aborted"` is an exception
that leaves `invoke`.  `cancelling[c]` is a cancellation requested and not yet
delivered.  Details kept on purpose:

* `HostObserves` may lose the caller's cancellation when both arrive together:
  `asyncio.wait_for` did so before Python 3.12, which the package supports.
  The join after a deadline swallows one as well (`runtime.py:655`), so a
  caller can get a result although it was cancelled.
* `CancelSubmitted`: cancelling the wrapper of a future cancels the thread's
  future; if no thread has started it, its callbacks run at once.
* `JoinsQuietly`: the joins after a deadline and after a cancellation suppress
  `CancelledError` only.
* A policy may answer although it was cancelled (`StubbornPolicy`), because the
  code awaits a host's coroutine.

Abstractions: which waiter of a semaphore is served next is left open
(asyncio's is first-come); a slot is taken when the waiter resumes; tokens are
whole and return one at a time (`Refill`); peak counters and lifecycle events
are left out.  One call is cancelled by its caller at most once, and one
`aclose` is made.

### ToolRegistry and ToolBatch

A registration is a number, so identity and name are different things, as in
the code, whose tables are keyed by the identity of the `ToolSpec`.  A thread
is at a `place`: `ToolRegistry.register` checks, compiles without the lock and
checks again; `ToolRuntime.register` takes the registry's lock for the whole.
`tables[k]` are the registrations that have control `k`; replacing a tool drops
the entries of other registrations with its name.  A worker of the batch
resolves the tool when its call is made and keeps (`held`) the controls it saw,
as `invoke` does in its local variables.  Buckets count units of which one is
refilled per tick of the clock and `Interval` make a token, so no rounding is
hidden; `starts` records when functions started.  Calls from outside the batch
(`others`) compete for the pending places.

### ToolSchema and ToolContracts

An annotation is a record with a kind; a value is a scalar or a reference into
a heap, so that containers can be shared and cyclic.  Numbers are abstract:
`"one"` is 1 or 1.0, `"huge"` an integer beyond any float, `"nan"` a float that
is not finite.  The modules use RECURSIVE operators (schemas and values are
trees) and hold no theorems.  `ContractIsEnforced` compares the validator with
`Conforms`, a definition of JSON Schema conformance on the published schema;
`LimitsAreExact` compares the iterative walk of the code with `Paths`, the tree
it bounds.  Sizes count tokens, issues are their codes.

### ToolProgress

One call of a client that may have asked for progress.  `lockQueue` is the
scope's `asyncio.Lock`: its head holds it while the handler sends.  Besides the
body the tool may have created tasks that inherit the scope and outlive it.
The stop before the cancellation, the close before the return, the failure of
the handler (which becomes the call's exception) and a cancellation during the
close are steps of their own.  After the call the server looks the registration
up again to log and to shape the result (`Logs`, `Answers`); the model allows
that it was replaced or is gone.

### MCPTaskStore

`tasks` is the dictionary; the other fields of a `RetainedTask` are functions
of the id, because a waiter and the execution keep the object after it has left
the dictionary.  `run[t]` is how far the background execution has come
(`"created"` until its first step), `cancelling[t]` that somebody cancelled it.
A task cancelled before its first step executes nothing of `_run`
(`NeverRuns`), so its event stays unset.  Expired tasks stay in the dictionary
until the next request purges them; `Create`, `CancelTask`, `Requests` and
`OnlyPurges` (tasks/get and every refusal) all begin with the purge.  A waiter
is woken by the event or by its timer; when both are due either may win, which
covers `asyncio.wait_for` before and since Python 3.12.  Ids are numbered in
the order they are handed out, which loses nothing as they are never compared.
A request may name a task that does not exist yet.  Left out: messages and
timestamps, a clock that advances between the two readings of one request, and
a second `aclose`.  Requests during and after `aclose` are modelled; what a task
created then can expect is nothing (`aclose` drops it unjoined), which is why
`NoOrphans` and a part of `WorkingMeansRunning` speak of an open store.

### MCPSession

`line` counts the lines taken; `mode` is where `serve_stdio` is: reading,
yielding to a task it has just created, draining after the end of input,
failing, closing, returned.  Each transport task has a `phase` and an
`outcome`; `"done"` and `"gone"` are before and after its done-callback, which
collects the error and cancels its siblings.  `inFlightRequests`,
`clientCancelled` and `activeTokens` are the server's tables, `named` a history
variable: the requests a client's cancellation has hit.  Retained tasks (`run`,
`kept`, `settled`, `stopping`) are the store's, reduced to what ids, tokens and
the close can see.  The writer's lock is never held across an await, so a
response is written in the step that ends its request; `PipeBreaks` makes every
later write fail.  `Script` bounds a session line by line.

### SqliteReservations

SQLite is external: from `BEGIN IMMEDIATE` one writer holds the file, a
transaction commits as a whole or not at all, and a writer that waits too long
gets an error (`BusyTimeout`).  Each statement of `reserve` is a step; a process
may crash between any two (`Crashes`), an answer may be lost after the commit
(`Loses`), and a client asks again with the same id, with the same or with
other arguments.  `told` are the outcomes clients have been given.

### The archived components

Nothing connects them to each other or to the inventory example, so
`MCApplications` puts them into one run: a behaviour is of one part, chosen by
its initial state.  Each module has an `Init`, a `Next` and a `Spec` of its own
name (`BusInit`, `ContextNext`, `GatewaySpec`, ...).

* `LLMGateway` gives each caller a program counter with a step per await
  (Redis, key service, provider, tracker).  An answer's model is the one asked
  for; the code prefers the vendor's name for it when there is one (lines 968
  and 1135).  The cache key leaves out temperature and token limit (lines
  849-858), so the model shares more than the code does.
* `MessageBus` has the one lock of the bus with its queue of waiters, held by
  `publish` while the handlers run.
* `AgentContext` has the expiry timers, which are never cancelled.
* `AlgorithmOfThoughts` shares the engine's paths and its step counter among
  concurrent calls.  A list of paths holds paths of one call in the order of
  their numbers, so it is a set of references.  A call suspends where the code
  does: at each answer of the LLM, at a gather of at least one exploration
  (also without an LLM: `Gathers`, `HasGathered`), and nowhere in between, so a
  sequential exploration goes straight on to the validation, and the validation
  of the last path to the elimination.  `is_valid` is stored, as in the code:
  it is true of a path until it is validated, whatever the threshold.
  `overlapped` is a history variable: the calls that were not alone.

Some of what the models contain disagrees with a docstring or a comment of
these archived, unsupported modules.  The properties state what does hold, and
these are kept here rather than as findings:

* eight providers share the label `openai`, and so cache entries, while the
  comment at `unified_gateway.py:943-946` binds entries "to the resolved
  provider and model": an answer of openai can be served to a request for groq.
  `CacheIsScoped` promises the model, the messages and the label
  (`SharesEntries`), not the provider;
* `_try_fallbacks` compares registry names with the failed provider's label
  (lines 1121-1123), while its docstring says "other available providers": when
  groq (label `openai`) fails, a configured openai is never asked and groq is
  called again.  `AnswerIsAccounted` names these targets (`TakenForOpenAI`) and
  holds every other request to the docstring;
* `structured_chat` reads an attribute of the string that `chat` returns, so it
  never returns the validated object its docstring describes (1158-1177);
* a value set with ttl `None`, "no expiry" (`context.py:312`), is deleted by the
  timer of an older value of its key, as is any newer value.  `NothingStale`
  speaks of the upper bound only;
* the history filters of the bus ("Filter by sender", "Filter by receiver",
  `message_bus.py:287-288`) read attributes its messages do not have;
* `SelfConsistency` majority vote, "using majority voting on solution
  similarity" (`self_consistency.py:279`, also 6-7), takes the most confident
  sample and counts no votes.  No model holds it to either.

Others contradict no document: a handler that uses the bus waits for ever for
the lock its own publisher holds; concurrent `reason()` calls on one engine
clear each other's paths; a stream that fails repeats the whole answer from a
fallback after the tokens already sent.

## Runs

| run | question | answer |
|---|---|---|
| `breaker` | does the breaker keep its promises when a host and two worker threads race, with stale clock readings and resets? | yes; `HalfOpenResolves` holds although a thread may hang for ever, up to a probe whose own host escapes with it |
| `runtime_calls` | one coroutine and one function that may run at once, with and without a policy, with bulkheads, breakers, progress, deadlines, cancellations and close: does every call settle what it started, and do gauges and counters say what happened? | yes |
| `runtime_capacity` | three calls for one slot, a bulkhead of one, one policy evaluation, a rate limit, a breaker and two pending places, a stubborn policy: is a permit or a probe lost or returned twice? | no; `BoundedExecutor` is implemented |
| `runtime_returns` | does every call return, does close complete, does capacity recover? | yes, under the fairness below |
| `mcp_tasks` | three tasks for a store of two, a waiter, expiry, tasks/cancel and close: one final result per task, no orphaned execution, no early loss, no wait that hangs? | yes; `TaskLifecycle` is implemented |
| `mcp_session` | a session of up to five lines, three requests and two retained tasks in either era, with reused ids and tokens, cancellations, a broken pipe, a cancelled host and an end of input: who owns an id, is an answer lost, does a failure surface, does serving end cleanly? | as the code intends, throughout |
| `toolkit` | does a batch keep its promises while threads change the registry; do schema and validator agree on some seventy tools; does progress stay within its call? | yes |
| `applications` | inventory: three callers, two processes, a crash and lost answers: is stock lost or sold twice, is a retry answered differently?  Archived parts: do they share, account, order, expire and choose as stated above? | no, `ReservationLedger` is implemented; yes |
| `failure_escapes` | is a tool's failure always a result? | no |
| `probe_stuck` | can a rate rejection leave the breaker stuck? | yes, when the caller is cancelled at that moment |
| `cancelled_counts_as_failure` | is a caller's cancellation never a dependency failure? | no, for a function that waits for a thread |
| `close_leaves_execution` | does the task store's `aclose` cancel and join every retained execution? | no: not that of a task created while it joins |

The last four check one sentence of the documentation each, and TLC finds the
execution of the code that contradicts it; the findings in `PROJECT.json` quote
the sentence and the line.  `toolkit` and `applications` each check several
modules that do not interact: a behaviour is of one part, chosen by its initial
state.

The close that loses a task needs a host that calls `handle()` while `aclose`
runs, as an embedding application may.  `serve_stdio` does not: it has drained
or cancelled its requests before it closes, and so `QuietAfterReturn`
(`mcp_session`) has no such case.

### Bounds

Three invocations are the fewest with which one party settles, a second races
and a third profits from a mistake (a second probe, a slot returned twice).
In `breaker`, `MaxTime = 2` with an interval of one tick gives readings before,
at and after the interval's end, and stale ones.  `ResetGenerations` bounds
manual resets only, to the first three generations; generations caused by
outcomes are bounded by the invocations.  Thresholds 1 and 2 cover a trip at
once and a trip after a streak.  One or two slots and a bulkhead of one make the
calls queue at every semaphore (`runtime_capacity`), or let both bodies run
(`runtime_calls`).  The liveness runs have no symmetry and two calls: one holds
what the other waits for.

In `mcp_tasks` three tasks fill a store of two and ask for one more place,
`MaxTime = 2` with a ttl of one tick lets tasks created at different times
expire apart; one waiter is enough because another client's purge is
`OnlyPurges`.  `Create` asks that the ttl ends within `MaxTime`, so that the
bound never keeps a timer from firing.

In `mcp_session` five lines are the fewest that initialise a session, start two
requests with one id or token between them, cancel one and reuse what it held;
two in flight of three requests make the third meet the limit, and a store of
one makes the second retained task meet a full one or an expiry.  `MCScript`
lists what each line may hold: handshakes of both eras, junk, calls, retained
calls, cancellations, a wait for a result and a refused call.


In `toolkit` a capacity of one and two names make every registration a
conflict, two registrations are one and its replacement, a batch of three calls
shares two pending places with one call from outside, and a burst of one with
an interval of two ticks refuses and refills.  The contracts cover each kind of
annotation alone, nested once in each container, and unions, with values that
fit, miss by one kind, share, nest beyond `MaxDepth`, or form a cycle of one and
two containers; `MaxIssues = 3` is reached by one nested dictionary.  Two reporters and caps of
one and two updates make a report wait, exceed the cap and come late.

In `applications`, a stock of three and quantities of two sell out in the second
decision; two ids of three fill the request table; a reused id comes with equal
and with different arguments; one crash can hit any statement.  Of the archived
parts, two callers are enough to fill and to meet the cache, to queue behind a
publisher, or to make a second call on one engine, at once or after the first;
the gateway's requests include an openai and a groq one with the same model and
messages, and one user's.  Up to two paths of two steps make paths of different
scores, ties, failed explorations and eliminations.

Deadlock is checked in the runs of the breaker and the runtime, where
`Quiescent` is the step of a system that has nothing left to do.  The other
runs have clients that may stop asking, or (the bus) hang as described above.

### Fairness

A deadline is always finite, so a waiting host is always resumed by the result
or by the timer (`HostObserves \/ HostTimesOut`).  That it then settles its
attempt is not assumed: in `CircuitBreaker` the fairness is of
`HostTakes \/ HostEscapes`, in `ToolRuntime` of the steps themselves.  Code that
is ready on the event loop or in a thread's callback runs.  An asynchronous
tool, a policy or a progress handler ends when it has been cancelled or, for
the handler, when the call waits for it: this is what the runtime asks of the
host's code, and without it no call can return.  Nothing is assumed of a tool that was not
cancelled or of a function in a thread: it may never return, and
`EveryCallReturns` (calls and close) and `HalfOpenResolves` hold all the same.
That the progress handler ends is assumed, so these runs say nothing about one
that does not.  `CapacityRecovers` alone has the premise that running functions end.
In `mcp_tasks` time goes on, the loop runs what is ready, and an operation that
was cancelled ends (it is a call of `invoke`, whose host gives up then); an
operation that was not may hang, and `EveryWaitEnds` holds by the timers.
In `mcp_session` the loop runs what is ready, a call ends (by its deadline), a
retained task ends or expires; no line need ever come, no pipe need break.

## Proofs

`CircuitBreakerProofs` proves the properties of the run `breaker`, except
liveness, for every threshold and interval, every finite set of invocations
and every clock and generation bound (`BreakerPolicyAssumption`,
`InvocationsAssumption`).

`ExactlyOneProbe` and `ChargedOnce` are not inductive: they do not say where a
permit can be or when it goes stale.  `Inv` adds

* `PlacesInv`: an invocation's permit is in one place at most, and a party that
  is not about to report holds none;
* `ProgressInv`: how the stages of host and worker go together;
* `GenerationInv`: no permit is ahead of the breaker's generation, and one of
  the current generation fits the breaker's state.  Every change of state
  begins a generation, so "current" and "same generation" coincide;
* `ProbeInv`: in a half-open period some permit is current, and only one;
* `StreakInv`: who is in the streak has no current permit left.

Each action has a lemma that it keeps `Inv`.  What a report does to a record is
in `BreakerOpsProofs` (`AcquireFacts`, `SettleFacts`, ...), so that no step of
the proof expands a breaker method.  The action properties follow from `Inv`
and from the lemma that only `Report` ends a report (`ReportingStep`).  The
refinement maps the owner of the outstanding probe to the contract's prober;
`ProbersFacts` shows that `Inv` determines it.

`MCPTaskStoreProofs` proves the safety of the run `mcp_tasks` for every finite
set of task ids, every set of waiters, every capacity, ttl and clock bound
(`StoreAssumption`).  Here most of `Inv` is the properties themselves; they
need `FieldsInv` (how status, result, event and execution of one task go
together: a task without a result has not ended, so what a waiter saw can only
come from a task that nobody settles again), `TargetInv` and the capacity
bound.  `ExpireKeeps` says once what `_expire` preserves, for every set of tasks
and every caller.  For the refinement `OneMoves` reduces a step to "one task
moves, the others only leave".

`ReservationProofs` proves that the example implements the ledger, for every
set of calls, processes, ids and quantities and any number of crashes
(`ReservationAssumption`, `NullAssumption`).  `Inv` says that the call inside a
transaction is the one that holds the lock (`Exclusive`), and, for each
statement, how its uncommitted writes differ from the file (`Progress`): nothing
before the update, the stock after it, stock and row after the insert, and a
decision (`Fresh`) that still fits the file because nobody else can have
written.  So the commit is the ledger's `Decide`, the delivery of an answer its
`Tell`, and every other step, crashes included, a stutter.  `Frame` and
`Elsewhere` say what the steps of one call leave true of another.

`StockIsConserved` adds the books: `Booked` says that in a complete file the
stock that is left and the quantities of the reserved rows add up to `Stock`.
The sum is the community modules' `SumFunctionOnSet`, a recursion over subsets.
The provers cannot use the library's induction theorems, but they can use the
fact they rest on: a set of numbers that is not empty has a least element
(`WFMin`).  `PartialSums` takes the least cardinality at which no table of sums
would exist and refutes it; from `SumsExist` follow the recursion equation
(`SumOfRest`), that functions which agree have one sum (`SumOfSame`), and that
any element may be taken out first (`SumOfOthers`).  So a commit adds the new
row's quantity and nothing else.

`ToolRuntimeProofs` proves every safety property of the runs `runtime_calls`
and `runtime_capacity`, for every finite set of calls and every set of tools,
capacity, bulkhead, breaker and policy (`RuntimeAssumption`,
`BreakerPolicyAssumption`).  The invariant has layers, each proved inductive
with the help of the ones before:

* `TypeOK`, and `Control`: which places of host, execution and thread of one
  call go together, so that every action knows who else is still on its way;
* `PermitsConserved`: a semaphore's value and the number of its holders make up its size.
  An action moves one call into or out of a set of holders, and the lemmas on
  cardinality say what that does to the number; `WantsToolSlot` names the calls
  between a bulkhead and the global semaphore;
* `MetricsConserved`: the same for each gauge and counter;
* `Settled`: when the attempt of a call is spent: after the thread has recorded
  its outcome, after the host's timeout, and at the return unless an exception
  escaped or the policy ignored its cancellation;
* `Probes`: generations of the permits and the one probe, as in
  `CircuitBreakerProofs` and from the same lemmas of `BreakerOpsProofs`, now with
  permits in the hands of three activities.

`ImplementsExecutor` maps pending calls and running bodies through `Phase`; its
bounds come from `PermitsConserved` and `MetricsConserved`.  `CircuitHearsFirst`
is an action property that only needs `Control` and `Settled`.

`ToolkitProofs` proves the safety of registry, controls, bucket and batch for
every number of threads, names, orders and calls.  `RegistryTypes`, `Locked`
(a thread that attaches controls holds the registry's lock) and `Attached`
(an entry of a table belongs to a registration that asked for that control, one
per name; the registration of a name has all its entries, unless a thread is
attaching them) give `RegistryIsGuarded`; `Governed` (a queued or running worker
took exactly the controls of its registration, and nobody can have resolved one
that is still being attached) gives `ControlsFollowRegistration`.
`RateBounded` needs `Metered`: the tokens still in a bucket, together with what every suffix of its starts has consumed,
never exceed what burst and time have paid for (`Paid`), so a window between any
two starts is paid for (`Paced`).  `HandedOut` says that exactly the calls
before the iterator's position have been entered, once, and that each of them
has its result or is in some worker's hands; with it `BatchIsFaithful` follows,
including that only calls from outside can make a call of the batch busy.

It also proves `ProgressInOrder` for every set of reporters and every cap
(`ProgressAssumption`).  Who sends is the head of the queue and its update the
latest one taken up (`Delivery`); what was taken up is in order and below that
update (`Ordered`); and nothing is taken up once the scope is closed, while the
host goes on only when it is itself the head of the queue (`Ending`).

`MCPSessionProofs` proves the safety of the run `mcp_session` for every script
of messages, every limit and every number of requests and retained tasks
(`SessionAssumption`).  `Typed` holds the ownership of ids: the table names a
request exactly while it waits under that id.  `TokensOwned` says the same of
progress tokens, whose number is the number of calls that report; `Reasons` why
a request may be cancelled or silent; `Surfacing` where a failure is between the
done-callback that collects it and the exception of `serve_stdio`; `Unwinds`
what may still run at the end.

`LegacyProofs` proves four of the archived components, each for every value of
its constants.

* Bus (`BusAssumption`): `MessagesInOrder`.  The lock is a queue of distinct
  tasks, ordered by their calls (`InCallOrder`), whose head alone may be inside
  an operation (`HolderFirst`); a task that is cancelled or gives up leaves the
  queue, and the others stay in order.  `OlderOut` relates the three places a
  message can be: what a handler, a receiver or the history was given is older
  than what waits for them, and that is older than the next number.
* Context manager (`ContextAssumption`): `NothingStale`.  `Timed` says that for
  each shared value with a time to live a timer sleeps until its own deadline,
  whatever timers older values of the key have left behind, and that time does
  not pass a timer that is due.  The capped lists and `Cleanup` keep entries in
  order of age (`InOrderOfAge`), so that cleaning up removes a prefix.
* Gateway (`GatewayAssumption`): `CacheIsScoped` and `AnswerIsAccounted`, the
  latter with its exception for targets that go by openai's label.
  `GatewayInv` says for each await of a request what it has done so far:
  nothing (`Uncalled`), its own target (`Called`), or each of the fallbacks it
  has tried, once and on the platform's key (`Fallen`).  An entry of the cache
  (`Storable`) was written by such a request.  So nobody else's step matters to a
  request but by the cache.
* Engine of thoughts (`ThoughtsAssumption`): `BestPathWins`.  By itself it is not
  enough to induct: the list and the counter are shared, and earlier calls leave
  paths in them.  `Apart` says that a call which nobody overlaps is the only one
  running, and that no later call knows its paths once it has returned.
  `FoundOut` says what such a call has established at each stage: the shared
  list is exactly its paths and the shared counter exactly their steps (a
  cardinality, by `Complete`); every path already validated is judged by its
  score; after the elimination the best path is the chosen one.  `TurnOf` and
  `Bounded` describe a turn of any call; `TurnKeeps` reduces every action to
  them and to what it does for its own call.  That a best score exists
  (`GreatestExists`) follows from the least number of better paths, as the
  provers cannot induct over a finite set.

Assumptions on constants say what the code guarantees: `RegistryAssumption` that
an order is a call of one of the two `register` methods and that only the
runtime's takes controls, `BatchAssumption` that a batch is a finite sequence of
names and that `max_pending_invocations` is positive, `SessionAssumption` that
requests and retained tasks are numbered from 1 and that an id is a value that
can be compared; `BusAssumption` and `ContextAssumption` that limits, ages and
times to live are natural numbers; `GatewayAssumption` that a registered key
belongs to a provider of the fallback order and that every ask is a well-formed
request;
`ThoughtsAssumption` that an engine has room for a path of a step and that
scores and threshold are numbers.

Only model-checked:

* liveness (fairness and `ENABLED` are beyond the prover): `HalfOpenResolves`,
  `EveryCallReturns`, `CapacityRecovers`, `EveryWaitEnds`, `ServingEnds`;
* `ContractIsEnforced` and `RefusalsAreExact`: annotations, schemas and values
  are trees and their modules use RECURSIVE operators.

## Not modelled

* `wait_for_sync` and `pending_sync_calls`: they wait for, and report, a set of
  futures that `ToolRuntime`'s workers empty, and change nothing.
* Peak counters, lifecycle events and the export of metrics; a second
  cancellation of one call, a second `aclose`, whose behaviour no document
  describes.
* Models, errors and timeout normalisation: data and range checks.
* JSON framing and byte limits of a line, tools/list, ping and the other
  requests that only read.  The retry hints, and floating point in the bucket.
* What SQLite, Redis, LLM vendors and the operating system do inside.
* In the gateway: statistics, health checks, prices, and each vendor's
  translation of messages.  In the context manager: the dictionary of agent
  states, and flags nobody reads.
* `legacy/reasoning/self_consistency.py`: each call folds samples of its own,
  and its majority vote is not what its docstrings say (above).
* The rest of `legacy/`: the orchestrator, the execution loop and the task
  classes raise `AttributeError` or `TypeError` when used with the `base.py`
  beside them (missing `TaskStatus` members, fields and keyword arguments), so
  there is no behaviour to model.  The first tool registry and executor
  (`tools/`), the metrics and their store (`ucf/`), `adapter.py` and
  `llm_bridge.py` keep tables, toggles and statistics whose operations look up
  or update one entry; the supported registry and executor are modelled instead.
  `features.py` is a table of constants and `exceptions.py` a list of classes.
* Scripts, benchmarks, the other examples and the compatibility package: they
  drive or re-export the library and keep no state.

## What remains

Every safety property the passing runs check is a theorem, except the two about
trees.  Open, in this order:

1. `MCPSession` and `MCPTaskStore` describe the retained tasks twice; a
   composition would replace the reduced store of the session, and show the close
   of `close_leaves_execution` from the server's side.
2. Four hazards have no property.  Of a progress handler that never ends
   (`progress.py:77`) nothing is promised, and no document says what should
   happen in the others: an `aclose` that is interrupted while it waits
   (`runtime.py:883`), a cancellation that arrives while the progress scope is
   closed (`runtime.py:786`), and a registration that is replaced between a
   call and the shaping of its result (`mcp.py:716`).  The models contain these
   three.
3. The lifecycle events and the peak counters of the runtime.
