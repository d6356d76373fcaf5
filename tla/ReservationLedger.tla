--------------------------- MODULE ReservationLedger ---------------------------
(***************************************************************************)
(* What the inventory example promises its clients: a request id has one   *)
(* outcome, decided once together with the stock it takes, and every       *)
(* answer about the id is that outcome, whatever is retried, lost or       *)
(* restarted.                                                              *)
(***************************************************************************)
EXTENDS Naturals

CONSTANTS Ids, Outcomes, NoOutcome

VARIABLES
  ledger,  \* the outcome of each request id
  stock,   \* what is left
  told     \* the outcomes that clients have been told, per request id

Init ==
  /\ ledger = [i \in Ids |-> NoOutcome]
  /\ told = [i \in Ids |-> {}]

(* One id is decided; only a reservation takes stock, its own quantity.    *)
Decide(i, o) ==
  /\ ledger[i] = NoOutcome /\ o \in Outcomes
  /\ ledger' = [ledger EXCEPT ![i] = o]
  /\ stock' = IF o.status = "reserved" THEN stock - o.quantity ELSE stock
  /\ o.status = "reserved" => stock >= o.quantity /\ o.available = stock'
  /\ UNCHANGED told

Tell(i) ==
  /\ ledger[i] # NoOutcome
  /\ told' = [told EXCEPT ![i] = @ \cup {ledger[i]}]
  /\ UNCHANGED <<ledger, stock>>

(* The outcome of a decision is what is in the ledger afterwards.          *)
Next == \E i \in Ids : Tell(i) \/ Decide(i, ledger'[i])

Spec == Init /\ [][Next]_<<ledger, stock, told>>
=============================================================================
