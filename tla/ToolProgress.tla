---------------------------- MODULE ToolProgress -----------------------------
(***************************************************************************)
(* One tools/call of an MCP client that may have asked for progress: the   *)
(* tasks of the tool report through one _ProgressScope (progress.py), the  *)
(* runtime stops the scope before it cancels and closes it before it       *)
(* returns (runtime.py), and the server then logs the outcome and shapes   *)
(* the result by the registration it finds after the call (mcp.py).        *)
(*                                                                         *)
(* Body is the task the runtime cancels; the other reporters are tasks the *)
(* tool created, which inherit the scope with the context and may outlive  *)
(* it.  lockQueue is the asyncio.Lock of the scope: its head holds it, and *)
(* _ProgressScope.close (Host) queues like everybody else.                 *)
(***************************************************************************)
EXTENDS Integers, Sequences, FiniteSets

CONSTANTS Reporters,   \* the tasks of the tool, Body among them
          MaxProgress, \* progress values are 1..MaxProgress
          Caps,        \* what ToolRuntime.max_progress_updates may be
          MaxReports   \* bound: no report begins when this many are decided

Body == "body"
Host == "host"

ASSUME ProgressAssumption ==
  /\ Body \in Reporters /\ Host \notin Reporters
  /\ Caps \subseteq Nat /\ MaxProgress \in Nat

VARIABLES
  maxUpdates,   \* the cap of this runtime
  asked,        \* the client sent a progress token, and can be notified
  scope,        \* _ProgressScope: [last, updates, closed]
  lockQueue,
  doing,        \* reporter -> "running", "waiting", "sending" or "ended"
  pending,      \* reporter -> the progress of its latest update
  due,          \* reporters a CancelledError has still to be thrown into
  bodyOutcome,  \* how the execution ended
  host,         \* where the task of the request is
  verdict,      \* how ToolRuntime.invoke ends
  answer,       \* what _call_tool makes of it all
  wire,         \* what was written to the client, and where the scope stopped
  reports       \* what report_progress gave, in the order of the decisions

callVars == <<maxUpdates, asked>>
reportVars == <<scope, lockQueue, doing, pending, due, bodyOutcome, reports>>
hostVars == <<host, verdict, answer>>
progressVars == <<callVars, reportVars, hostVars, wire>>

ProgressInit ==
  /\ maxUpdates \in Caps /\ asked \in BOOLEAN
  /\ scope = [last |-> 0, updates |-> 0, closed |-> FALSE]
  /\ lockQueue = <<>> /\ due = {} /\ bodyOutcome = "none"
  /\ doing = [r \in Reporters |-> "running"]
  /\ pending = [r \in Reporters |-> 0]
  /\ host = "calling" /\ verdict = "none" /\ answer = "none"
  /\ wire = <<>> /\ reports = <<>>
-----------------------------------------------------------------------------
Message(kind, progress) == [kind |-> kind, progress |-> progress]
(* A task is in the queue once at most. *)
Without(queue, r) ==
  IF \A i \in DOMAIN queue : queue[i] # r THEN queue
  ELSE LET i == CHOOSE i \in DOMAIN queue : queue[i] = r
       IN  SubSeq(queue, 1, i - 1) \o SubSeq(queue, i + 1, Len(queue))
IsHead(r) == lockQueue # <<>> /\ Head(lockQueue) = r
Running(r) == doing[r] = "running" /\ r \notin due

(* report_progress gave r this result, and r goes on. *)
Gives(r, progress, result) ==
  /\ reports' = Append(reports, [progress |-> progress, result |-> result])
  /\ doing' = [doing EXCEPT ![r] = "running"]
  /\ lockQueue' = Without(lockQueue, r)

(* _ProgressScope.report under the lock.  The order of the updates is      *)
(* enforced beyond the cap, and kept by an update that is not delivered.   *)
Decides(r, progress) ==
  \/ scope.closed /\ Gives(r, progress, "false") /\ UNCHANGED scope
  \/ /\ ~scope.closed /\ progress <= scope.last
     /\ Gives(r, progress, "not_increasing") /\ UNCHANGED scope
  \/ /\ ~scope.closed /\ progress > scope.last
     /\ scope' = [scope EXCEPT !.last = progress]
     /\ IF scope.updates >= maxUpdates
          THEN Gives(r, progress, "false")
          ELSE /\ doing' = [doing EXCEPT ![r] = "sending"]
               /\ lockQueue' = <<r>> \o Without(lockQueue, r)
               /\ UNCHANGED reports

(* Without a scope nothing happens; with one the update is decided at once *)
(* when the lock is free, and has to wait for it otherwise.  What is no    *)
(* finite non-negative number, or too long a message, changes nothing.     *)
ReportProgress(r, progress) ==
  /\ Running(r) /\ Len(reports) < MaxReports
  /\ pending' = [pending EXCEPT ![r] = progress]
  /\ \/ ~asked /\ Gives(r, progress, "false") /\ UNCHANGED scope
     \/ asked /\ lockQueue = <<>> /\ Decides(r, progress)
     \/ /\ asked /\ lockQueue # <<>>
        /\ doing' = [doing EXCEPT ![r] = "waiting"]
        /\ lockQueue' = Append(lockQueue, r)
        /\ UNCHANGED <<scope, reports>>
  /\ UNCHANGED <<callVars, due, bodyOutcome, hostVars, wire>>

Enters(r) ==
  /\ doing[r] = "waiting" /\ r \notin due /\ IsHead(r)
  /\ Decides(r, pending[r])
  /\ UNCHANGED <<callVars, pending, due, bodyOutcome, hostVars, wire>>

(* The progress handler of the server: the notification is written under   *)
(* the lock of the transport, dropped as oversized, or the write fails.    *)
HandlerEnds(r) ==
  /\ doing[r] = "sending" /\ r \notin due
  /\ \/ /\ wire' \in {wire, Append(wire, Message("progress", pending[r]))}
        /\ scope' = [scope EXCEPT !.updates = @ + 1]
        /\ Gives(r, pending[r], "true")
     \/ Gives(r, pending[r], "failed") /\ UNCHANGED <<scope, wire>>
  /\ UNCHANGED <<callVars, pending, due, bodyOutcome, hostVars>>

(* The CancelledError arrives wherever the task is: it gives up the lock,  *)
(* or its place for it, and may be swallowed.  What the tool awaits in its *)
(* body (a gather) is cancelled with it; a task it only created is not.    *)
Cancelled(r) ==
  /\ r \in due /\ doing[r] # "ended"
  /\ lockQueue' = Without(lockQueue, r)
  /\ \E others \in SUBSET (Reporters \ {Body}) :
       due' = (due \ {r}) \cup IF r = Body THEN others ELSE {}
  /\ \/ doing' = [doing EXCEPT ![r] = "running"] /\ UNCHANGED bodyOutcome
     \/ r = Body /\ doing' = [doing EXCEPT ![r] = "ended"] /\ bodyOutcome' = "cancelled"
  /\ UNCHANGED <<callVars, scope, pending, hostVars, wire, reports>>

(* The tool returns or raises; the error of a handler may reach its body   *)
(* from any of its tasks.                                                  *)
BodyEnds ==
  /\ Running(Body)
  /\ doing' = [doing EXCEPT ![Body] = "ended"]
  /\ bodyOutcome' \in {"success", "failed"} \cup
       IF \E i \in DOMAIN reports : reports[i].result = "failed"
         THEN {"progress_failed"} ELSE {}
  /\ UNCHANGED <<callVars, scope, lockQueue, pending, due, hostVars, wire, reports>>
-----------------------------------------------------------------------------
(* _ProgressScope.stop.  The mark in wire is there for the properties.     *)
NotStopped(s) == s  \* mutant: closing only waits for the lock
Stopped(s) == [s EXCEPT !.closed = TRUE]
StopScope ==
  /\ scope' = Stopped(scope)
  /\ wire' = Append(wire, Message("stop", 0))

(* After close: an exception of the invocation is answered as an internal  *)
(* error, but that of the handler is raised on, into the transport.        *)
AfterClose ==
  CASE verdict \in {"success", "failed", "timed_out"} -> "logging"
    [] verdict = "raised" -> "answering"
    [] verdict \in {"cancelled", "progress_failed"} -> "silent"

(* The execution has ended, and _close_progress begins. *)
Resolves ==
  /\ host = "calling" /\ doing[Body] = "ended"
  /\ verdict' = bodyOutcome
  /\ host' = "closing" /\ lockQueue' = Append(lockQueue, Host)
  /\ StopScope
  /\ UNCHANGED <<callVars, doing, pending, due, bodyOutcome, reports, answer>>

(* The deadline, the client's cancellation or a closing runtime: the scope *)
(* is stopped first, then the execution is cancelled and joined.           *)
CancelsExecution ==
  /\ host = "calling" /\ doing[Body] # "ended"
  /\ host' = "joining" /\ verdict' \in {"timed_out", "cancelled"}
  /\ due' = due \cup {Body}
  /\ StopScope
  /\ UNCHANGED <<callVars, lockQueue, doing, pending, bodyOutcome, reports, answer>>

(* Only a CancelledError of the execution is suppressed: what else it      *)
(* raises replaces the verdict.                                            *)
Joins ==
  /\ host = "joining" /\ doing[Body] = "ended"
  /\ verdict' = CASE bodyOutcome \in {"success", "cancelled"} -> verdict
                  [] bodyOutcome = "failed" -> "raised"
                  [] bodyOutcome = "progress_failed" -> bodyOutcome
  /\ host' = "closing" /\ lockQueue' = Append(lockQueue, Host)
  /\ StopScope
  /\ UNCHANGED <<callVars, doing, pending, due, bodyOutcome, reports, answer>>

Closes ==
  /\ host = "closing" /\ IsHead(Host)
  /\ lockQueue' = Tail(lockQueue)
  /\ host' = AfterClose
  /\ answer' = IF AfterClose = "answering" THEN "internal_error" ELSE "none"
  /\ UNCHANGED <<callVars, scope, doing, pending, due, bodyOutcome, reports, verdict, wire>>

(* A cancellation while the request waits, for the lock of the scope or    *)
(* for that of the transport, replaces a result already counted.           *)
HostCancelled ==
  /\ host \in {"closing", "logging", "answering"}
  /\ host' = "silent"
  /\ lockQueue' = Without(lockQueue, Host)
  /\ UNCHANGED <<callVars, scope, doing, pending, due, bodyOutcome, reports,
                 verdict, answer, wire>>

(* _send_operational_log needs a registered tool, a sender and an event of *)
(* the level the client asked for; whatever fails in it is dropped.        *)
IsLogged(level, registration) ==
  /\ registration # "gone"
  /\ \/ level = "info"
     \/ level = "error" /\ verdict # "success"

(* _tool_result: the output schema is looked up again, and a success of a  *)
(* tool that is gone by now becomes an internal error.                     *)
ToolResult(registration) ==
  CASE verdict # "success" -> "is_error"
    [] verdict = "success" /\ registration = "gone" -> "internal_error"
    [] verdict = "success" /\ registration = "plain" -> "wrapped"
    [] verdict = "success" /\ registration = "object" -> "as_is"

(* Both look the tool up, and other threads may replace or unregister it   *)
(* during the call and in between.                                         *)
Registrations == {"object", "plain", "gone"}

Logs ==
  /\ host = "logging"
  /\ host' = "answering"
  /\ \E level \in {"off", "info", "error"}, before, now \in Registrations :
       /\ answer' = ToolResult(now)
       /\ wire' \in {wire} \cup
            IF IsLogged(level, before) THEN {Append(wire, Message("log", 0))} ELSE {}
  /\ UNCHANGED <<callVars, reportVars, verdict>>

Answers ==
  /\ host = "answering"
  /\ host' = "answered"
  /\ wire' = Append(wire, Message("answer", 0))
  /\ UNCHANGED <<callVars, reportVars, verdict, answer>>

ProgressNext ==
  \/ \E r \in Reporters :
       \/ \E progress \in 1..MaxProgress : ReportProgress(r, progress)
       \/ Enters(r) \/ HandlerEnds(r) \/ Cancelled(r)
  \/ BodyEnds
  \/ Resolves \/ CancelsExecution \/ Joins \/ Closes \/ HostCancelled
  \/ Logs \/ Answers

ProgressSpec == ProgressInit /\ [][ProgressNext]_progressVars
-----------------------------------------------------------------------------
(* The progress of the entries in I increases with their place. *)
Increasing(s, I) == \A i, j \in I : i < j => s[i].progress < s[j].progress
After(kind) == {i \in DOMAIN wire : \E j \in 1..(i - 1) : wire[j].kind = kind}
OfTool(i) == wire[i].kind = "progress"
Sent == {i \in DOMAIN wire : OfTool(i)}
TakenUp == {n \in DOMAIN reports : reports[n].result \in {"true", "failed"}}

(***************************************************************************)
(* However the tasks of a tool, its handler, the deadline and the client   *)
(* interleave: the updates a client sees increase and are not more than    *)
(* the cap; each was answered True; what the scope took up increases; once *)
(* the scope is stopped only the update in delivery still arrives; and     *)
(* nothing of the call follows its answer, nor an update its log event.    *)
(***************************************************************************)
ProgressInOrder ==
  /\ Increasing(wire, Sent) /\ Cardinality(Sent) <= maxUpdates
  /\ \A i \in Sent : \E n \in DOMAIN reports :
       reports[n] = [progress |-> wire[i].progress, result |-> "true"]
  /\ Increasing(reports, TakenUp)
  /\ \A i, j \in After("stop") : OfTool(i) /\ OfTool(j) => i = j
  /\ \A i \in DOMAIN wire : wire[i].kind = "answer" => i = Len(wire)
  /\ \A i \in After("log") : ~OfTool(i)
=============================================================================
