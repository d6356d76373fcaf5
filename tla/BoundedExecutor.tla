--------------------------- MODULE BoundedExecutor --------------------------
(***************************************************************************)
(* What a runtime promises about calls and the tool bodies behind them,    *)
(* without queues, permits, threads or cancellation: a bounded number of   *)
(* calls is pending, a bounded number of bodies runs, a body starts only   *)
(* while its call is pending, and a call that has returned stays so even   *)
(* if its body still runs.                                                 *)
(***************************************************************************)
EXTENDS Naturals, FiniteSets

CONSTANTS Calls, MaxPending, MaxRunning

VARIABLES
  phase,     \* "new", "pending" or "returned"
  bodies     \* the calls whose tool body is running

vars == <<phase, bodies>>

Pending == {c \in Calls : phase[c] = "pending"}

Init == phase = [c \in Calls |-> "new"] /\ bodies = {}

Refuse(c) ==
  /\ phase[c] = "new"
  /\ phase' = [phase EXCEPT ![c] = "returned"]
  /\ UNCHANGED bodies

Admit(c) ==
  /\ phase[c] = "new"
  /\ Cardinality(Pending) < MaxPending
  /\ phase' = [phase EXCEPT ![c] = "pending"]
  /\ UNCHANGED bodies

Start(c) ==
  /\ phase[c] = "pending" /\ c \notin bodies
  /\ Cardinality(bodies) < MaxRunning
  /\ bodies' = bodies \cup {c}
  /\ UNCHANGED phase

Stop(c) ==
  /\ c \in bodies
  /\ bodies' = bodies \ {c}
  /\ UNCHANGED phase

Return(c) ==
  /\ phase[c] = "pending"
  /\ phase' = [phase EXCEPT ![c] = "returned"]
  /\ UNCHANGED bodies

Next == \E c \in Calls : Refuse(c) \/ Admit(c) \/ Start(c) \/ Stop(c) \/ Return(c)

Spec == Init /\ [][Next]_vars
=============================================================================
