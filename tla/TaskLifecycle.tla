---------------------------- MODULE TaskLifecycle ---------------------------
(***************************************************************************)
(* What a client may rely on for each retained task, whatever the store    *)
(* does with executions, waiters and clocks: a task is accepted, works,    *)
(* ends once, keeps its end until it is forgotten, and never comes back.   *)
(* One step may forget many tasks, but accepts and ends at most one.       *)
(***************************************************************************)
EXTENDS Naturals, FiniteSets

CONSTANTS Tasks, MaxTasks

VARIABLE phase

Ended == {"completed", "failed", "cancelled"}
Kept  == {t \in Tasks : phase[t] \in {"working"} \cup Ended}

Init == phase = [t \in Tasks |-> "unknown"]

(* The ways of one task. *)
Keeps(t)   == phase'[t] = phase[t]
Forgets(t) == t \in Kept /\ phase'[t] = "gone"
Accepts(t) == phase[t] = "unknown" /\ phase'[t] = "working"
Ends(t)    == phase[t] = "working" /\ phase'[t] \in Ended

Next ==
  /\ phase' \in [Tasks -> {"unknown", "working", "gone"} \cup Ended]
  /\ \E t \in Tasks :
       /\ Keeps(t) \/ Forgets(t) \/ Accepts(t) \/ Ends(t)
       /\ \A u \in Tasks \ {t} : Keeps(u) \/ Forgets(u)
  /\ Cardinality(Kept') <= MaxTasks

Spec == Init /\ [][Next]_phase
=============================================================================
