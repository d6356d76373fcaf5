---------------------------- MODULE MCPTaskStore ----------------------------
(***************************************************************************)
(* MCPTaskStore (_mcp_tasks.py): task-augmented tool calls that run in the *)
(* background, and the tasks/get, tasks/result and tasks/cancel requests   *)
(* of their client.                                                        *)
(*                                                                         *)
(* Everything runs on one event loop: an action is what happens between    *)
(* two awaits.  A task expires when the store is next accessed after its   *)
(* time, or when the timer of somebody who waits for its result fires.     *)
(***************************************************************************)
EXTENDS Naturals, FiniteSets

CONSTANTS
  Tasks,           \* task ids, numbered in the order they are handed out
  Waiters,         \* tasks/result requests, each made once
  MaxTasks,        \* max_tasks
  RequestedTTLs,   \* what clients ask for; 0: no ttl in the request
  DefaultTTL,      \* default_ttl_ms, in ticks
  MaxTTL,          \* max_ttl_ms, in ticks
  MaxTime          \* bound: the clock stops there, and no ttl ends later

ASSUME StoreAssumption ==
  /\ Tasks \subseteq Nat \ {0} /\ IsFiniteSet(Tasks)
  /\ MaxTasks \in Nat \ {0}
  /\ RequestedTTLs \subseteq Nat
  /\ DefaultTTL \in Nat \ {0} /\ MaxTTL \in Nat \ {0}
  /\ DefaultTTL <= MaxTTL
  /\ MaxTime \in Nat

VARIABLES
  now,         \* the monotonic clock
  tasks,       \* the ids in _tasks
  status,      \* RetainedTask.status
  result,      \* RetainedTask.result
  done,        \* RetainedTask.done is set
  expiry,      \* when the task's ttl is over
  run,         \* how far the task's execution has come
  cancelling,  \* a cancellation of the unfinished execution was requested
  wait,        \* how far each tasks/result request has come
  target,      \* the task it asks for
  answer,      \* what it got
  closing,     \* how far aclose has come
  joined       \* the executions that aclose waits for

entry  == <<tasks, status, result, done, expiry, run, cancelling>>
waits  == <<wait, target, answer>>
vars   == <<now, entry, waits, closing, joined>>

Terminal == {"completed", "failed", "cancelled"}
Results  == {"output", "tool_error", "task_cancelled"}
NoTask   == 0

(* The type invariant: a request is answered exactly when it has an answer. *)
TypeOK ==
  /\ now \in 0 .. MaxTime
  /\ tasks \subseteq Tasks
  /\ status \in [Tasks -> {"none", "working"} \cup Terminal]
  /\ result \in [Tasks -> Results \cup {"none"}]
  /\ done \in [Tasks -> BOOLEAN]
  /\ expiry \in [Tasks -> Nat]
  /\ run \in [Tasks -> {"none", "created", "operating", "finished"}]
  /\ cancelling \in [Tasks -> BOOLEAN]
  /\ wait \in [Waiters -> {"idle", "waiting", "answered", "cancelled"}]
  /\ target \in [Waiters -> Tasks \cup {NoTask}]
  /\ answer \in [Waiters -> Results \cup {"none", "not_found"}]
  /\ closing \in {"open", "joining", "closed"}
  /\ joined \subseteq Tasks
  /\ \A w \in Waiters : wait[w] = "answered" <=> answer[w] # "none"

Init ==
  /\ now = 0
  /\ tasks = {}
  /\ status = [t \in Tasks |-> "none"]
  /\ result = [t \in Tasks |-> "none"]
  /\ done = [t \in Tasks |-> FALSE]
  /\ expiry = [t \in Tasks |-> 0]
  /\ run = [t \in Tasks |-> "none"]
  /\ cancelling = [t \in Tasks |-> FALSE]
  /\ wait = [w \in Waiters |-> "idle"]
  /\ target = [w \in Waiters |-> NoTask]
  /\ answer = [w \in Waiters |-> "none"]
  /\ closing = "open"
  /\ joined = {}

-----------------------------------------------------------------------------
Unfinished == {t \in Tasks : run[t] \in {"created", "operating"}}
ExpiredOrEnded ==                      \* mutant: ended tasks are evicted too
  {t \in tasks : expiry[t] <= now \/ status[t] # "working"}

Expired    == {t \in tasks : expiry[t] <= now}
Live       == tasks \ Expired

(* _expire, for the tasks of E: they leave the store, their waiters wake   *)
(* up and their executions are cancelled.                                  *)
CancelledIfStarted(E) ==               \* mutant: a created execution is left
  [t \in Tasks |-> cancelling[t] \/ (t \in E /\ run[t] = "operating")]

CancelledWith(E)    == [t \in Tasks |-> cancelling[t] \/ t \in E \cap Unfinished]
WokenWith(E)        == [t \in Tasks |-> done[t] \/ t \in E]

Expire(E) ==
  /\ tasks' = tasks \ E
  /\ done' = WokenWith(E)
  /\ cancelling' = CancelledWith(E)

(* The end of the working state; whoever comes later changes nothing.      *)
Settles(t, s, r) ==
  /\ status' = [status EXCEPT ![t] = s]
  /\ result' = [result EXCEPT ![t] = r]

Ttl(requested) ==
  LET asked == IF requested = 0 THEN DefaultTTL ELSE requested
  IN  IF asked > MaxTTL THEN MaxTTL ELSE asked

-----------------------------------------------------------------------------
(* Requests.  Each first purges what has expired.                          *)

(* create, and the background execution it schedules *)
HasRoom     == Cardinality(Live) <= MaxTasks    \* mutant: one task too many
HasCapacity == Cardinality(Live) < MaxTasks
IsNextId(t) == /\ status[t] = "none"
               /\ \A u \in Tasks : u < t => status[u] # "none"

Create(t, requested) ==
  /\ IsNextId(t)
  /\ now + Ttl(requested) <= MaxTime
  /\ HasCapacity
  /\ tasks' = Live \cup {t}
  /\ done' = WokenWith(Expired)
  /\ cancelling' = CancelledWith(Expired)
  /\ status' = [status EXCEPT ![t] = "working"]
  /\ expiry' = [expiry EXCEPT ![t] = now + Ttl(requested)]
  /\ run' = [run EXCEPT ![t] = "created"]
  /\ UNCHANGED <<now, result, waits, closing, joined>>

(* tasks/get, the refusals of tasks/cancel and the refusal of a full store *)
OnlyPurges ==
  /\ Expired # {}
  /\ Expire(Expired)
  /\ UNCHANGED <<now, status, result, expiry, run, waits, closing, joined>>

CancelTask(t) ==
  /\ t \in Live /\ status[t] = "working"
  /\ tasks' = Live
  /\ Settles(t, "cancelled", "task_cancelled")
  /\ done' = [WokenWith(Expired) EXCEPT ![t] = TRUE]
  /\ cancelling' = CancelledWith(Expired \cup {t})
  /\ UNCHANGED <<now, expiry, run, waits, closing, joined>>

(* tasks/result: get, then a wait that ends with the task's ttl at latest. *)
Requests(w, t) ==
  /\ wait[w] = "idle"
  /\ target' = [target EXCEPT ![w] = t]
  /\ Expire(Expired)
  /\ IF t \in Live
     THEN wait' = [wait EXCEPT ![w] = "waiting"] /\ UNCHANGED answer
     ELSE /\ wait' = [wait EXCEPT ![w] = "answered"]
          /\ answer' = [answer EXCEPT ![w] = "not_found"]
  /\ UNCHANGED <<now, status, result, expiry, run, closing, joined>>

(* The event wakes it: the entry is looked up once more. *)
Reread(w) ==
  IF target[w] \in tasks /\ result[target[w]] # "none"
  THEN result[target[w]] ELSE "not_found"

Wakes(w) ==
  /\ wait[w] = "waiting" /\ done[target[w]]
  /\ wait' = [wait EXCEPT ![w] = "answered"]
  /\ answer' = [answer EXCEPT ![w] = Reread(w)]
  /\ UNCHANGED <<now, entry, target, closing, joined>>

(* Its timer fires, and may win over an event that was set meanwhile. *)
TimerFiresIfKept(w) ==                 \* mutant: a dropped task has no timer
  target[w] \in tasks /\ now >= expiry[target[w]]

TimerFires(w) == now >= expiry[target[w]]

TimesOut(w) ==
  /\ wait[w] = "waiting" /\ TimerFires(w)
  /\ Expire({target[w]} \cap tasks)
  /\ wait' = [wait EXCEPT ![w] = "answered"]
  /\ answer' = [answer EXCEPT ![w] = "not_found"]
  /\ UNCHANGED <<now, status, result, expiry, run, target, closing, joined>>

(* The client cancels the request, not the task. *)
WaitCancelled(w) ==
  /\ wait[w] = "waiting"
  /\ wait' = [wait EXCEPT ![w] = "cancelled"]
  /\ UNCHANGED <<now, entry, target, answer, closing, joined>>

-----------------------------------------------------------------------------
(* _run: the background execution.                                         *)

RunStarts(t) ==
  /\ run[t] = "created" /\ ~cancelling[t]
  /\ run' = [run EXCEPT ![t] = "operating"]
  /\ UNCHANGED <<now, tasks, status, result, done, expiry, cancelling, waits,
                 closing, joined>>

Finishes(t) ==
  /\ run' = [run EXCEPT ![t] = "finished"]
  /\ cancelling' = [cancelling EXCEPT ![t] = FALSE]
  /\ UNCHANGED <<now, tasks, expiry, waits, closing, joined>>

(* Cancelled before its first step: none of _run is executed. *)
NeverRuns(t) ==
  /\ run[t] = "created" /\ cancelling[t]
  /\ Finishes(t)
  /\ UNCHANGED <<status, result, done>>

StillKept(t) == t \in tasks            \* mutant: a cancelled task may end again

StillWorking(t) == status[t] = "working"

(* The operation returns or raises, or is cancelled: by expiry, by         *)
(* tasks/cancel, by aclose, or by the runtime that is being closed.  It    *)
(* may return although a cancellation was requested.                       *)
RunEndsOrRaises(t, s, r) ==            \* mutant: an exception settles nothing
  /\ run[t] = "operating"
  /\ Finishes(t)
  /\ IF StillWorking(t) /\ s # "failed"
     THEN Settles(t, s, r) /\ done' = [done EXCEPT ![t] = TRUE]
     ELSE UNCHANGED <<status, result, done>>

RunEnds(t, s, r) ==
  /\ run[t] = "operating"
  /\ Finishes(t)
  /\ IF StillWorking(t)
     THEN Settles(t, s, r) /\ done' = [done EXCEPT ![t] = TRUE]
     ELSE UNCHANGED <<status, result, done>>

RunCompletes(t) == \/ RunEnds(t, "completed", "output")
                   \/ RunEnds(t, "failed", "tool_error")
RunCancelled(t) == RunEnds(t, "cancelled", "task_cancelled")

-----------------------------------------------------------------------------
(* aclose cancels and joins the executions it finds, then drops the store; *)
(* with nothing to join it does not give up the loop.                      *)
CloseBegins ==
  /\ closing = "open"
  /\ joined' = tasks \cap Unfinished
  /\ cancelling' = CancelledWith(tasks)
  /\ IF joined' = {}
     THEN closing' = "closed" /\ tasks' = {}
     ELSE closing' = "joining" /\ UNCHANGED tasks
  /\ UNCHANGED <<now, status, result, done, expiry, run, waits>>

CloseJoined ==
  /\ closing = "joining"
  /\ joined \cap Unfinished = {}
  /\ closing' = "closed"
  /\ tasks' = {}
  /\ UNCHANGED <<now, status, result, done, expiry, run, cancelling, waits, joined>>

Tick ==
  /\ now < MaxTime
  /\ now' = now + 1
  /\ UNCHANGED <<entry, waits, closing, joined>>

Next ==
  \/ \E t \in Tasks : \/ \E r \in RequestedTTLs : Create(t, r)
                      \/ CancelTask(t)
                      \/ RunStarts(t) \/ NeverRuns(t)
                      \/ RunCompletes(t) \/ RunCancelled(t)
  \/ \E w \in Waiters : \/ \E t \in Tasks : Requests(w, t)
                        \/ Wakes(w) \/ TimesOut(w) \/ WaitCancelled(w)
  \/ OnlyPurges
  \/ CloseBegins \/ CloseJoined \/ Tick

Spec == Init /\ [][Next]_vars

(***************************************************************************)
(* The event loop runs what is ready and time goes on.  An operation ends  *)
(* once it is cancelled: it is a call of invoke, whose host gives up then. *)
(* Without a cancellation it may hang.                                     *)
(***************************************************************************)
FairSpec ==
  /\ Spec
  /\ WF_vars(Tick) /\ WF_vars(CloseJoined)
  /\ \A w \in Waiters : WF_vars(Wakes(w) \/ TimesOut(w))
  /\ \A t \in Tasks :
       /\ WF_vars(RunStarts(t) \/ NeverRuns(t))
       /\ WF_vars(cancelling[t] /\ (RunCompletes(t) \/ RunCancelled(t)))

-----------------------------------------------------------------------------
(* Until the store is closed, a task that a client sees working has an     *)
(* execution that nobody has cancelled and that will decide its end; one   *)
(* that is over has a result and its event, in the same step.              *)
WorkingMeansRunning ==
  \A t \in tasks :
    IF status[t] = "working"
    THEN /\ ~done[t] /\ result[t] = "none"
         /\ closing = "open" => t \in Unfinished /\ ~cancelling[t]
    ELSE done[t] /\ result[t] # "none"

(* An execution that no client can ask for any more, because its task has  *)
(* expired or was cancelled, is being cancelled: it cannot run on unseen.  *)
NoOrphans ==
  closing = "open" =>
    \A t \in Unfinished : (t \in tasks /\ status[t] = "working") \/ cancelling[t]

(* What tasks/result has answered stays the result of the task, although   *)
(* cancellation, expiry and the end of the execution race for it; with two *)
(* waiters: nobody is told another story.                                  *)
AnswerIsFinal ==
  \A w \in Waiters : answer[w] \in Results => answer[w] = result[target[w]]

(* Before its ttl is over a task leaves the store only when it is closed,  *)
(* and tasks/result says "not found" only of a task that is gone.          *)
RetainedUntilExpiry ==
  [][/\ \A t \in tasks \ tasks' : expiry[t] <= now \/ closing' = "closed"
     /\ \A w \in Waiters :
          answer'[w] = "not_found" /\ answer[w] = "none" => target'[w] \notin tasks']_vars

(* A task is accepted within capacity, ends once and never comes back. *)
Phase(t) == IF t \in tasks THEN status[t]
            ELSE IF status[t] = "none" THEN "unknown" ELSE "gone"

phases == [t \in Tasks |-> Phase(t)]

Lifecycle == INSTANCE TaskLifecycle WITH phase <- phases

ImplementsLifecycle == Lifecycle!Spec

(* Nobody waits for ever in tasks/result: whether the task hangs, expires, *)
(* is cancelled before its first step or is dropped by aclose.  And aclose  *)
(* ends although operations may hang until they are cancelled.             *)
EveryWaitEnds ==
  /\ \A w \in Waiters : wait[w] = "waiting" ~> wait[w] # "waiting"
  /\ closing = "joining" ~> closing = "closed"

(* "Cancel and join every retained background execution" (the docstring of *)
(* aclose): what the store lets go of at the end of aclose has ended.  A   *)
(* host that still calls handle() while aclose joins can have a task       *)
(* created that aclose has not seen; it is dropped and runs on.            *)
CloseJoinsAll ==
  [][closing # "closed" /\ closing' = "closed" => tasks \cap Unfinished = {}]_vars
=============================================================================
