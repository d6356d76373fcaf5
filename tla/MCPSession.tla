------------------------------ MODULE MCPSession ------------------------------
(***************************************************************************)
(* MCPServer and serve_stdio (mcp.py): one reader takes JSON-RPC lines     *)
(* from a client, answers control messages at once and runs tools/call and *)
(* tasks/result in transport tasks of their own.                           *)
(*                                                                         *)
(* Everything runs on one event loop: an action is what happens between    *)
(* two awaits.  The writer's lock is never held across an await, so a      *)
(* response is written in the step that ends its request.  What a call     *)
(* does inside the runtime is ToolRuntime's; the ttl and the results of    *)
(* retained tasks are MCPTaskStore's.                                      *)
(***************************************************************************)
EXTENDS Naturals, FiniteSets, FiniteSetsExt

CONSTANTS
  Script,         \* bound: Script[k] is the set of messages line k may hold
  Requests,       \* transport tasks, numbered in the order of admission
  Retained,       \* retained tasks, numbered in the order of creation
  NoMessage,
  NoToken,
  MaxInFlight,    \* max_in_flight_requests
  MaxRetained,    \* max_retained_tasks
  ModernEnabled,  \* enable_modern
  TasksEnabled,   \* enable_tasks
  CloseRuntime    \* close_runtime

Lines     == DOMAIN Script
Messages  == UNION {Script[k] : k \in Lines}
Ids       == {m.id : m \in Messages} \ {0}        \* 0: a notification
Tokens    == {m.token : m \in Messages} \ {NoToken}

ASSUME SessionAssumption ==
  /\ Requests \subseteq Nat \ {0} /\ IsFiniteSet(Requests)
  /\ Retained \subseteq Nat \ {0} /\ IsFiniteSet(Retained)
  /\ MaxInFlight \in Nat \ {0} /\ MaxRetained \in Nat \ {0}
  /\ {ModernEnabled, TasksEnabled, CloseRuntime} \subseteq BOOLEAN
  /\ \A m \in Messages : m.id \in Nat /\ m.valid \in BOOLEAN

VARIABLES
  session,          \* the era that was chosen and the handshake's state
  mode,             \* where serve_stdio stands
  line,             \* lines taken from the input
  late,             \* history: lines taken while a failure was waiting
  failed,           \* serve_stdio is going to raise
  pipe,             \* whether the output can still be written
  phase,            \* per request: how far its transport task has come
  message,          \* per request: its line
  outcome,          \* per request: how its task ended
  inFlightRequests, \* _in_flight_requests: request id -> its owner, or 0
  clientCancelled,  \* _client_cancelled_tasks
  named,            \* history: requests that a cancellation has named
  cancelling,       \* transport tasks with a cancellation to be delivered
  taskErrors,       \* task_errors, as a number
  activeTokens,     \* _active_progress_tokens
  run,              \* per retained task: how far its execution has come
  kept,             \* the retained tasks in the store
  settled,          \* those whose status is terminal
  stopping,         \* unfinished executions with a cancellation requested
  token             \* per retained task: its progress token

transport == <<phase, message, outcome, taskErrors>>
tracking  == <<inFlightRequests, clientCancelled, named, cancelling>>
store     == <<run, kept, settled, stopping, token>>
reader    == <<mode, line, late, failed>>
vars == <<session, reader, pipe, transport, tracking, activeTokens, store>>

Live(q)  == phase[q] \in {"created", "calling", "waiting"}
InFlight == {q \in Requests : phase[q] \notin {"idle", "gone"}}
Running  == {r \in Retained : run[r] \in {"created", "calling"}}

(* The type invariant. *)
TypeOK ==
  /\ session \in [modern : BOOLEAN, responded : BOOLEAN, initialized : BOOLEAN,
                  version : {"none", "tasks", "older"}]
  /\ mode \in {"reading", "yielding", "draining", "failing", "closing", "returned"}
  /\ line \in Lines \cup {0} /\ late \in Nat /\ failed \in BOOLEAN
  /\ pipe \in {"open", "broken"}
  /\ phase \in [Requests -> {"idle", "created", "calling", "waiting", "done", "gone"}]
  /\ message \in [Requests -> Messages \cup {NoMessage}]
  /\ outcome \in [Requests -> {"none", "answered", "silent", "cancelled", "failed"}]
  /\ inFlightRequests \in [Ids -> Requests \cup {0}]
  /\ clientCancelled \subseteq {q \in Requests : Live(q)} /\ named \subseteq Requests
  /\ cancelling \subseteq Requests
  /\ taskErrors \in Nat
  /\ activeTokens \subseteq Tokens
  /\ run \in [Retained -> {"none", "created", "calling", "ended"}]
  /\ kept \subseteq Retained /\ settled \subseteq Retained /\ stopping \subseteq Running
  /\ token \in [Retained -> Tokens \cup {NoToken}]

Init ==
  /\ session = [modern |-> FALSE, responded |-> FALSE, initialized |-> FALSE,
                version |-> "none"]
  /\ mode = "reading" /\ line = 0 /\ late = 0 /\ failed = FALSE
  /\ pipe = "open"
  /\ phase = [q \in Requests |-> "idle"]
  /\ message = [q \in Requests |-> NoMessage]
  /\ outcome = [q \in Requests |-> "none"]
  /\ inFlightRequests = [i \in Ids |-> 0]
  /\ clientCancelled = {} /\ named = {} /\ cancelling = {}
  /\ taskErrors = 0
  /\ activeTokens = {}
  /\ run = [r \in Retained |-> "none"]
  /\ kept = {} /\ settled = {} /\ stopping = {}
  /\ token = [r \in Retained |-> NoToken]

-----------------------------------------------------------------------------
(* handle: what becomes of a request, as the first row of a table whose    *)
(* condition holds.  "track" is a request that may block.                  *)

FirstOf(rows) == rows[Min({i \in DOMAIN rows : rows[i][1]})][2]

TasksAvailable == TasksEnabled /\ session.version = "tasks"

IsModern(m) ==
  /\ ModernEnabled
  /\ \/ session.modern
     \/ m.meta # "none"
     \/ ~session.responded /\ m.method \notin {"initialize", "ping"}

Unsupported(m) == m.meta # (IF session.responded THEN "legacy" ELSE "modern")

(* _handle_modern, up to the selection of the era *)
ModernRefusal(m) == FirstOf(<<
  <<m.method = "initialize" /\ session.modern,
      IF ~m.valid THEN "invalid_params"
      ELSE IF m.version = "modern" THEN "not_found" ELSE "unsupported">>,
  <<m.meta = "none", "invalid_params">>,
  <<session.responded /\ m.meta = "legacy", "invalid_params">>,
  <<Unsupported(m), "unsupported">>,
  <<TRUE, "accepted">> >>)

(* and after it *)
ModernRoute(m) == FirstOf(<<
  <<ModernRefusal(m) # "accepted", ModernRefusal(m)>>,
  <<m.method = "discover", "success">>,
  <<m.method \notin {"list", "call"}, "not_found">>,
  <<~m.valid, "invalid_params">>,
  <<m.method = "list", "success">>,
  <<m.asTask, "invalid_params">>,
  <<m.tool = "required", "not_found">>,
  <<TRUE, "track">> >>)

LegacyRoute(m) == FirstOf(<<
  <<m.method = "initialize", IF m.valid THEN "success" ELSE "invalid_params">>,
  <<m.method = "ping", "success">>,
  <<~session.initialized, "not_initialized">>,
  <<m.method = "list", IF m.valid THEN "success" ELSE "invalid_params">>,
  <<m.method = "call", "track">>,
  <<~TasksAvailable, "not_found">>,
  <<m.method = "result", "track">>,
  <<m.method = "get", IF m.target \in kept THEN "success" ELSE "invalid_params">>,
  <<m.method = "cancelTask",
      IF m.target \in kept \ settled THEN "success" ELSE "invalid_params">>,
  <<TRUE, "not_found">> >>)

Route(m) == IF IsModern(m) THEN ModernRoute(m) ELSE LegacyRoute(m)

(* The session after a message; the handshake may be repeated. *)
NextSession(m) ==
  IF m.id = 0
  THEN IF m.method = "initialized" /\ session.responded /\ ~session.modern
       THEN [session EXCEPT !.initialized = TRUE]
       ELSE session
  ELSE IF IsModern(m)
       THEN IF ModernRefusal(m) = "accepted"
            THEN [session EXCEPT !.modern = TRUE] ELSE session
       ELSE IF m.method = "initialize" /\ m.valid
            THEN [session EXCEPT !.responded = TRUE, !.initialized = FALSE,
                                 !.version = IF m.version = "older"
                                             THEN "older" ELSE "tasks"]
            ELSE session

-----------------------------------------------------------------------------
(* serve_stdio: the reader.  An iteration ends with a look at task_errors; *)
(* then the reader blocks in readline.  An exception of the reader cancels *)
(* the transport tasks of that instant and waits for them.                 *)

Proceeds(raises, c) ==
  LET fails == raises \/ taskErrors > 0
  IN  /\ mode' = IF fails THEN "failing" ELSE "reading"
      /\ failed' = fails
      /\ cancelling' = IF fails THEN c \cup {q \in Requests : Live(q)} ELSE c

WriteFails == pipe = "broken"

Takes(m) ==
  /\ mode = "reading"
  /\ line + 1 \in Lines /\ m \in Script[line + 1]
  /\ line' = line + 1
  /\ late' = IF taskErrors > 0 THEN late + 1 ELSE late

IsConcurrent(m) == m.id # 0 /\ m.method \in {"call", "result"}

(* A line that is too long, or not a JSON object, is answered and dropped. *)
Drops(m) ==
  /\ Takes(m) /\ m.method = "junk"
  /\ Proceeds(WriteFails, cancelling)
  /\ UNCHANGED <<session, pipe, transport, inFlightRequests, clientCancelled,
                 named, activeTokens, store>>

(* notifications/cancelled: whoever owns the id now, if anyone, is cancelled. *)
OwnerOf(m) == {inFlightRequests[i] : i \in Ids \cap {m.target}} \ {0}

CancelsRequest(m) ==
  /\ Takes(m) /\ m.id = 0 /\ m.method = "cancelled"
  /\ clientCancelled' = clientCancelled \cup OwnerOf(m)
  /\ named' = named \cup OwnerOf(m)
  /\ Proceeds(FALSE, cancelling \cup OwnerOf(m))
  /\ UNCHANGED <<session, pipe, transport, inFlightRequests, activeTokens, store>>

(* tasks/cancel: the task is over before its execution is. *)
CancelsRetained(m) ==
  /\ m.id # 0 /\ m.method = "cancelTask" /\ Route(m) = "success"
  /\ settled' = settled \cup {m.target}
  /\ stopping' = stopping \cup ({m.target} \cap Running)
  /\ UNCHANGED <<run, kept, token>>

(* Every other message that cannot block is handled before the next line. *)
HandlesInLine(m) ==
  /\ Takes(m) /\ m.method \notin {"junk", "cancelled"} /\ ~IsConcurrent(m)
  /\ session' = NextSession(m)
  /\ \/ CancelsRetained(m)
     \/ (m.method = "cancelTask" => Route(m) # "success") /\ UNCHANGED store
  /\ Proceeds(m.id # 0 /\ WriteFails, cancelling)
  /\ UNCHANGED <<pipe, transport, inFlightRequests, clientCancelled, named,
                 activeTokens>>

(* A request that may block: refused at the limit, or given a task. *)
HasRoom == Cardinality(InFlight) < MaxInFlight

IsBusy(m) ==
  /\ Takes(m) /\ IsConcurrent(m) /\ ~HasRoom
  /\ Proceeds(WriteFails, cancelling)
  /\ UNCHANGED <<session, pipe, transport, inFlightRequests, clientCancelled,
                 named, activeTokens, store>>

IsNext(n, unused) == n \in unused /\ n = Min(unused)

Admits(m) ==
  /\ Takes(m) /\ IsConcurrent(m) /\ HasRoom
  /\ \E q \in Requests :
       /\ IsNext(q, {x \in Requests : phase[x] = "idle"})
       /\ phase' = [phase EXCEPT ![q] = "created"]
       /\ message' = [message EXCEPT ![q] = m]
  /\ mode' = "yielding"
  /\ UNCHANGED <<session, failed, pipe, outcome, taskErrors, tracking,
                 activeTokens, store>>

(* sleep(0) is over: the new task has made its first step. *)
Resumes ==
  /\ mode = "yielding"
  /\ \A q \in Requests : phase[q] # "created"
  /\ Proceeds(FALSE, cancelling)
  /\ UNCHANGED <<session, line, late, pipe, transport, inFlightRequests,
                 clientCancelled, named, activeTokens, store>>

(* The input ends: the requests in flight are awaited. *)
EndOfInput ==
  /\ mode = "reading"
  /\ IF InFlight # {}
     THEN mode' = "draining" /\ UNCHANGED <<failed, cancelling>>
     ELSE IF taskErrors > 0
          THEN Proceeds(TRUE, cancelling)
          ELSE mode' = "closing" /\ UNCHANGED <<failed, cancelling>>
  /\ UNCHANGED <<session, line, late, pipe, transport, inFlightRequests,
                 clientCancelled, named, activeTokens, store>>

Drained ==
  /\ mode = "draining" /\ InFlight = {}
  /\ IF taskErrors > 0
     THEN mode' = "failing" /\ failed' = TRUE
     ELSE mode' = "closing" /\ UNCHANGED failed
  /\ UNCHANGED <<session, line, late, pipe, transport, tracking, activeTokens, store>>

(* The host cancels serve_stdio itself. *)
HostCancels ==
  /\ mode \in {"reading", "yielding", "draining"}
  /\ Proceeds(TRUE, cancelling)
  /\ UNCHANGED <<session, line, late, pipe, transport, inFlightRequests,
                 clientCancelled, named, activeTokens, store>>

Joined ==
  /\ mode = "failing" /\ InFlight = {}
  /\ mode' = "closing"
  /\ UNCHANGED <<session, line, late, failed, pipe, transport, tracking,
                 activeTokens, store>>

(* aclose cancels and joins the executions of the tasks still in the store *)
CloseStore ==
  /\ mode = "closing" /\ CloseRuntime
  /\ stopping' = stopping \cup (kept \cap Running)
  /\ stopping' # stopping
  /\ UNCHANGED <<session, reader, pipe, transport, tracking, activeTokens, run, kept, settled, token>>

Unjoined == {}                          \* mutant: nothing is joined
ToJoin   == kept \cap Running

Returns ==
  /\ mode = "closing"
  /\ CloseRuntime => ToJoin = {}
  /\ mode' = "returned"
  /\ kept' = IF CloseRuntime THEN {} ELSE kept
  /\ UNCHANGED <<session, line, late, failed, pipe, transport, tracking,
                 activeTokens, run, settled, stopping, token>>

-----------------------------------------------------------------------------
(* A transport task.  It releases its id and its token in the step that    *)
(* writes its answer; request_finished is called one step later.           *)

Answer == IF WriteFails THEN "failed" ELSE "answered"

Ends(q, how) ==
  /\ phase' = [phase EXCEPT ![q] = "done"]
  /\ outcome' = [outcome EXCEPT ![q] = how]
  /\ cancelling' = cancelling \ {q}
  /\ clientCancelled' = clientCancelled \ {q}
  /\ UNCHANGED <<reader, pipe, message, taskErrors, named>>

IdFreed(q) == [i \in Ids |-> IF inFlightRequests[i] = q THEN 0 ELSE inFlightRequests[i]]
TokenFreed(q) == activeTokens \ {message[q].token}

Enters(q, p) ==
  /\ phase' = [phase EXCEPT ![q] = p]
  /\ inFlightRequests' = [inFlightRequests EXCEPT ![message[q].id] = q]
  /\ UNCHANGED <<reader, pipe, message, outcome, taskErrors, clientCancelled,
                 named, cancelling>>

(* _call_or_create_task: a call, an accepted task, or a refusal *)
TokenFree(t) == t = NoToken \/ t \notin activeTokens

CallPlan(m) ==
  LET tasks == TasksAvailable /\ ~session.modern
  IN  FirstOf(<<
        <<~m.valid, "refuse">>,
        <<tasks /\ m.asTask /\ m.tool \in {"unknown", "forbidden"}, "refuse">>,
        <<tasks /\ ~m.asTask /\ m.tool = "required", "refuse">>,
        <<tasks /\ m.asTask,
            IF Cardinality(kept) < MaxRetained THEN "retain" ELSE "refuse">>,
        <<TokenFree(m.token), "call">>,
        <<TRUE, "refuse">> >>)

Plan(m) == IF m.method = "call" THEN CallPlan(m)
           ELSE IF m.target \in kept THEN "wait" ELSE "refuse"

AnyOwner(m) == TRUE                     \* mutant: an active id is taken over
IdIsFree(m) == inFlightRequests[m.id] = 0
Tracked(m)  == Route(m) = "track" /\ IdIsFree(m)

(* The first step of a request, up to its first await. *)
Started(q) == phase[q] = "created" /\ q \notin cancelling

NeverStarts(q) ==
  /\ phase[q] = "created" /\ q \in cancelling
  /\ Ends(q, "cancelled")
  /\ UNCHANGED <<session, inFlightRequests, activeTokens, store>>

Refuses(q) ==
  LET m == message[q]
  IN  /\ Started(q)
      /\ Tracked(m) => Plan(m) = "refuse"
      /\ session' = NextSession(m)
      /\ Ends(q, Answer)
      /\ UNCHANGED <<inFlightRequests, activeTokens, store>>

CallStarts(q) ==
  LET m == message[q]
  IN  /\ Started(q) /\ Tracked(m) /\ Plan(m) = "call"
      /\ session' = NextSession(m)
      /\ Enters(q, "calling")
      /\ activeTokens' = activeTokens \cup ({m.token} \ {NoToken})
      /\ UNCHANGED store

WaitStarts(q) ==
  LET m == message[q]
  IN  /\ Started(q) /\ Tracked(m) /\ Plan(m) = "wait"
      /\ Enters(q, "waiting")
      /\ UNCHANGED <<session, activeTokens, store>>

Retains(q) ==
  LET m == message[q]
  IN  /\ Started(q) /\ Tracked(m) /\ Plan(m) = "retain"
      /\ \E r \in Retained :
           /\ IsNext(r, {x \in Retained : run[x] = "none"})
           /\ run' = [run EXCEPT ![r] = "created"]
           /\ kept' = kept \cup {r}
           /\ token' = [token EXCEPT ![r] = m.token]
      /\ Ends(q, Answer)
      /\ UNCHANGED <<session, inFlightRequests, activeTokens, settled, stopping>>

(* The call returns, or its result wins over a cancellation. *)
CallEnds(q) ==
  /\ phase[q] = "calling"
  /\ Ends(q, Answer)
  /\ inFlightRequests' = IdFreed(q)
  /\ activeTokens' = TokenFreed(q)
  /\ UNCHANGED <<session, store>>

(* A progress notification that cannot be written ends the call. *)
ProgressFails(q) ==
  /\ phase[q] = "calling" /\ message[q].token # NoToken /\ WriteFails
  /\ Ends(q, "failed")
  /\ inFlightRequests' = IdFreed(q)
  /\ activeTokens' = TokenFreed(q)
  /\ UNCHANGED <<session, store>>

(* The task or its ttl ends. *)
WokenIfSettled(r) == r \in settled      \* mutant: expiry does not wake waiters
Woken(r)          == r \in settled \/ r \notin kept

WaitEnds(q) ==
  /\ phase[q] = "waiting" /\ q \notin cancelling
  /\ Woken(message[q].target)
  /\ Ends(q, Answer)
  /\ inFlightRequests' = IdFreed(q)
  /\ UNCHANGED <<session, activeTokens, store>>

SilentAnyway(q) == "silent"             \* mutant: no cancellation is re-raised
Silence(q) == IF q \in clientCancelled THEN "silent" ELSE "cancelled"

Cancelled(q) ==
  /\ phase[q] \in {"calling", "waiting"} /\ q \in cancelling
  /\ Ends(q, Silence(q))
  /\ inFlightRequests' = IdFreed(q)
  /\ activeTokens' = IF phase[q] = "calling" THEN TokenFreed(q) ELSE activeTokens
  /\ UNCHANGED <<session, store>>

(* request_finished: a failure is kept for the reader and ends the others. *)
NoSiblings(q) == {}                     \* mutant: the siblings go on
Siblings(q)   == {s \in Requests \ {q} : Live(s)}
TaskFailed(q) == outcome[q] = "failed"

RequestFinished(q) ==
  /\ phase[q] = "done"
  /\ phase' = [phase EXCEPT ![q] = "gone"]
  /\ taskErrors' = taskErrors + (IF TaskFailed(q) THEN 1 ELSE 0)
  /\ cancelling' = cancelling \cup (IF TaskFailed(q) THEN Siblings(q) ELSE {})
  /\ UNCHANGED <<session, reader, pipe, message, outcome, inFlightRequests,
                 clientCancelled, named, activeTokens, store>>

-----------------------------------------------------------------------------
(* The execution of a retained task, which outlives its request.           *)
RunOver(r) ==
  /\ run' = [run EXCEPT ![r] = "ended"]
  /\ stopping' = stopping \ {r}
  /\ UNCHANGED <<session, reader, pipe, transport, tracking, kept, token>>

RunStarts(r) ==
  /\ run[r] = "created" /\ r \notin stopping /\ TokenFree(token[r])
  /\ run' = [run EXCEPT ![r] = "calling"]
  /\ activeTokens' = activeTokens \cup ({token[r]} \ {NoToken})
  /\ UNCHANGED <<session, reader, pipe, transport, tracking, kept, settled,
                 stopping, token>>

(* Its token is in use: the task fails. *)
RunRefused(r) ==
  /\ run[r] = "created" /\ r \notin stopping /\ ~TokenFree(token[r])
  /\ settled' = settled \cup {r}
  /\ RunOver(r)
  /\ UNCHANGED activeTokens

NeverRuns(r) ==
  /\ run[r] = "created" /\ r \in stopping
  /\ RunOver(r)
  /\ UNCHANGED <<activeTokens, settled>>

RunEnds(r) ==
  /\ run[r] = "calling"
  /\ settled' = settled \cup {r}
  /\ activeTokens' = activeTokens \ {token[r]}
  /\ RunOver(r)

(* The ttl is over. *)
Expires(r) ==
  /\ r \in kept
  /\ kept' = kept \ {r}
  /\ stopping' = stopping \cup ({r} \cap Running)
  /\ UNCHANGED <<session, reader, pipe, transport, tracking, activeTokens, run,
                 settled, token>>

PipeBreaks ==
  /\ pipe = "open"
  /\ pipe' = "broken"
  /\ UNCHANGED <<session, reader, transport, tracking, activeTokens, store>>

ReaderStep == Resumes \/ Drained \/ Joined \/ CloseStore \/ Returns

Next ==
  \/ \E m \in Messages : \/ Drops(m) \/ CancelsRequest(m) \/ HandlesInLine(m)
                         \/ IsBusy(m) \/ Admits(m)
  \/ \E q \in Requests : \/ NeverStarts(q) \/ Refuses(q) \/ CallStarts(q)
                         \/ WaitStarts(q) \/ Retains(q)
                         \/ CallEnds(q) \/ ProgressFails(q) \/ WaitEnds(q)
                         \/ Cancelled(q) \/ RequestFinished(q)
  \/ \E r \in Retained : \/ RunStarts(r) \/ RunRefused(r) \/ NeverRuns(r)
                         \/ RunEnds(r) \/ Expires(r)
  \/ EndOfInput \/ HostCancels \/ PipeBreaks \/ ReaderStep

Spec == Init /\ [][Next]_vars

(***************************************************************************)
(* The loop runs what is ready; calls end, by their deadline at the        *)
(* latest, and a ttl passes.  Nothing makes the client send or stop.       *)
(***************************************************************************)
FairSpec ==
  /\ Spec
  /\ WF_vars(ReaderStep)
  /\ \A q \in Requests :
       WF_vars(\/ NeverStarts(q) \/ Refuses(q) \/ CallStarts(q) \/ WaitStarts(q)
               \/ Retains(q) \/ CallEnds(q) \/ WaitEnds(q) \/ Cancelled(q)
               \/ RequestFinished(q))
  /\ \A r \in Retained :
       /\ WF_vars(RunStarts(r) \/ RunRefused(r) \/ NeverRuns(r) \/ RunEnds(r))
       /\ WF_vars(Expires(r))

-----------------------------------------------------------------------------
(* The docstring of MCPServer: one instance selects either modern requests *)
(* or legacy initialization.  Whatever the order of the messages, no       *)
(* session is both, and a modern one has no retained tasks.                *)
OneEra ==
  ~(session.modern /\ (session.responded \/ \E r \in Retained : run[r] # "none"))

(* _tracked_request and _call_tool: while requests with equal ids, tasks   *)
(* that outlive their request, cancellations and failures interleave, an   *)
(* id names exactly the request that waits under it, and a progress token  *)
(* is active exactly as long as one call, and one only, reports under it.  *)
(* (Every variable keeps its type, no mark outlives its request, and the   *)
(* session is of one era.)                                                 *)
IdsAndTokensOwned ==
  /\ TypeOK /\ OneEra
  /\ \A i \in Ids, q \in Requests :
       inFlightRequests[i] = q <=> phase[q] \in {"calling", "waiting"} /\ message[q].id = i
  /\ LET calls == {q \in Requests : phase[q] = "calling" /\ message[q].token # NoToken}
         tasks == {r \in Retained : run[r] = "calling" /\ token[r] # NoToken}
     IN  /\ activeTokens = {message[q].token : q \in calls} \cup {token[r] : r \in tasks}
         /\ Cardinality(activeTokens) = Cardinality(calls) + Cardinality(tasks)

(* A request stays without an answer only if a client's cancellation named *)
(* it while it was active, or if serving itself fails: never because       *)
(* another request with its id, or a sibling, came to an end.              *)
NoAnswerLost ==
  \A q \in Requests :
    /\ outcome[q] = "silent" => q \in named
    /\ outcome[q] = "cancelled" => taskErrors > 0 \/ failed

(* serve_stdio and request_finished: after a background failure at most    *)
(* one more line is taken, the other requests are cancelled, and serving   *)
(* ends with an exception, also when the input ends at the same time.      *)
FailureSurfaces ==
  /\ late <= 1
  /\ taskErrors > 0 /\ late = 0 => \A q \in Requests : Live(q) => q \in cancelling
  /\ mode = "returned" /\ (\E q \in Requests : outcome[q] = "failed") => failed

(* When serve_stdio has returned, whatever ended it, no request is in      *)
(* flight, no id is left behind, and every execution that still unwinds    *)
(* was cancelled when its task expired.                                    *)
QuietAfterReturn ==
  mode = "returned" =>
    /\ InFlight = {}
    /\ \A i \in Ids : inFlightRequests[i] = 0
    /\ CloseRuntime => Running \subseteq stopping

(* Once the input has ended, or serving fails, serve_stdio returns. *)
ServingEnds == mode \in {"draining", "failing", "closing"} ~> mode = "returned"
=============================================================================
