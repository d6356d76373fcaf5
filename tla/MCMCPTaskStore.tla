--------------------------- MODULE MCMCPTaskStore ---------------------------
(* Model checking of MCPTaskStore: two of three tasks retained, one waiter. *)
EXTENDS MCPTaskStore
CONSTANT w1
MCTasks == 1 .. 3
MCWaiters == {w1}
=============================================================================
