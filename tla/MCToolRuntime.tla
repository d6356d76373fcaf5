---------------------------- MODULE MCToolRuntime ---------------------------
(* Instances of ToolRuntime for TLC.                                       *)
EXTENDS ToolRuntime, TLC

CONSTANTS c1, c2, c3, async_tool, sync_tool

TwoCalls   == {c1, c2}
ThreeCalls == {c1, c2, c3}
BothTools  == {async_tool, sync_tool}
AsyncTool  == {async_tool}
SyncTool   == {sync_tool}

(* c1 calls the coroutine, the others the function that needs a thread. *)
Mixed == [c \in Calls |-> IF c = c1 THEN async_tool ELSE sync_tool]
AllSync == [c \in Calls |-> sync_tool]
AllAsync == [c \in Calls |-> async_tool]

NoLimit  == [t \in Tools |-> 0]
OneSlot  == [t \in Tools |-> 1]

(* The function has a burst of one, the coroutine no limit. *)
SyncBurst == [t \in Tools |-> IF t = sync_tool THEN 1 ELSE 0]

SyncSymmetry == Permutations(Calls \ {c1})
AllSymmetry  == Permutations(Calls)
=============================================================================
