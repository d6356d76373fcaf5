-------------------------- MODULE CircuitContract ---------------------------
(***************************************************************************)
(* What a circuit breaker promises, whatever permits and generations it    *)
(* uses: it opens only from closed, it leaves open only by choosing one    *)
(* prober (or by a manual reset), and while it is half open that one       *)
(* prober, and no other caller, decides what happens next.                 *)
(***************************************************************************)
CONSTANT Callers

VARIABLES
  mode,      \* "closed", "open" or "half_open"
  probers    \* the callers that hold the probe

vars == <<mode, probers>>

Init == mode = "closed" /\ probers = {}

Trip ==
  /\ mode = "closed"
  /\ mode' = "open"
  /\ UNCHANGED probers

BeginProbe(c) ==
  /\ mode = "open"
  /\ mode' = "half_open"
  /\ probers' = {c}

EndProbe ==
  /\ mode = "half_open"
  /\ mode' \in {"closed", "open"}
  /\ probers' = {}

Reset == mode' = "closed" /\ probers' = {}

Next == Trip \/ (\E c \in Callers : BeginProbe(c)) \/ EndProbe \/ Reset

Spec == Init /\ [][Next]_vars
=============================================================================
