----------------------------- MODULE MCMCPSession -----------------------------
(* An instance of MCPSession: what a client may send, line by line. *)
EXTENDS MCPSession

CONSTANT tok

Blank == [method |-> "junk", id |-> 0, meta |-> "none", valid |-> TRUE,
          version |-> "tasks", tool |-> "optional", asTask |-> FALSE,
          token |-> NoToken, target |-> 1]

Junk        == Blank
Initialize  == [Blank EXCEPT !.method = "initialize", !.id = 1]
Old         == [Initialize EXCEPT !.version = "older"]
Initialized == [Blank EXCEPT !.method = "initialized"]
Call(i, t)  == [Blank EXCEPT !.method = "call", !.id = i, !.token = t]
Task(i)     == [Call(i, tok) EXCEPT !.asTask = TRUE]
Modern(m)   == [m EXCEPT !.meta = "modern"]
Result      == [Blank EXCEPT !.method = "result", !.id = 2]
Cancel(i)   == [Blank EXCEPT !.method = "cancelled", !.target = i]
CancelTask  == [Blank EXCEPT !.method = "cancelTask", !.id = 3]
Discover    == [Blank EXCEPT !.method = "discover", !.id = 3, !.meta = "modern"]
Refused     == [Call(1, NoToken) EXCEPT !.valid = FALSE]

MCScript == <<
  {Initialize, Old, Discover, Call(1, tok)},
  {Initialized, Modern(Call(1, tok))},
  {Call(1, tok), Call(2, NoToken), Task(2), Junk},
  {Call(1, tok), Call(2, NoToken), Task(2), Cancel(1), CancelTask, Result, Initialize},
  {Call(1, tok), Call(2, NoToken), Cancel(1), CancelTask, Discover, Refused} >>

MCRequests == 1 .. 3
MCRetained == 1 .. 2
=============================================================================
