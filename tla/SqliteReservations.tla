-------------------------- MODULE SqliteReservations --------------------------
(***************************************************************************)
(* The transactional inventory example (sqlite_reservations.py): reserve   *)
(* calls that run on worker threads of several server processes over one   *)
(* database file.  A client may lose its answer and try again; a process   *)
(* may crash between any two statements.                                   *)
(*                                                                         *)
(* SQLite is external: one writer at a time from BEGIN IMMEDIATE on, and   *)
(* a transaction that is committed as a whole or not at all.               *)
(***************************************************************************)
EXTENDS Naturals, FiniteSets, FiniteSetsExt

CONSTANTS
  ReserveCalls,  \* reserve calls, each made once
  Servers,       \* processes that may serve the file
  Writers,       \* those started with --allow-reservations
  Arguments,     \* what clients ask for: [id, sku, quantity]
  Sku,           \* the sku of the inventory; any other is unknown
  Stock,         \* --stock
  MaxQuantity,   \* the largest valid quantity
  MaxRequests,   \* max_requests
  MaxCrashes,    \* bound on crashes
  Null           \* no call, request or row

ASSUME ReservationAssumption ==
  /\ Stock \in Nat /\ MaxRequests \in Nat \ {0} /\ MaxQuantity \in Nat \ {0}
  /\ MaxCrashes \in Nat
  /\ Writers \subseteq Servers
  /\ \A a \in Arguments : a.quantity \in Nat

VARIABLES
  file,      \* the database file
  inventory, \* committed: what is available of Sku
  ledger,    \* committed: the row of each request id, or Null
  locked,    \* the call whose transaction is open, or Null
  writes,    \* what the open transaction would commit
  up,        \* the processes that serve
  at,        \* the process of each call
  pc,        \* how far each call has come
  argument,  \* what it asks for
  answer,    \* the answer of reserve
  told,      \* history: the outcomes clients were told, per request id
  crashes

database    == <<file, inventory, ledger>>
transaction == <<locked, writes>>
calls       == <<at, pc, argument, answer>>
vars        == <<database, transaction, up, calls, told, crashes>>

RequestIds == {a.id : a \in Arguments}
Decided    == {"reserved", "insufficient_stock", "unknown_sku"}
Statuses   == Decided \cup {"idempotency_conflict", "invalid_request", "capacity_exceeded"}
Rows == [sku : {a.sku : a \in Arguments}, quantity : 1 .. MaxQuantity,
         status : Decided, available : 0 .. Stock \cup {Null}]

(* Null is not a call, a request or a row. *)
ASSUME NullAssumption == Null \notin ReserveCalls \cup Arguments \cup Rows

InTransaction == {"begun", "updating", "inserting", "committing"}
Busy(c)  == pc[c] \in InTransaction \cup {"opened", "committed"}

(* The type invariant: the write lock is held by the one call whose        *)
(* transaction is open.                                                    *)
TypeOK ==
  /\ file \in {"absent", "created", "abandoned", "ready"}
  /\ inventory \in 0 .. Stock
  /\ ledger \in [RequestIds -> Rows \cup {Null}]
  /\ locked \in ReserveCalls \cup {Null}
  /\ \A c \in ReserveCalls : locked = c <=> pc[c] \in InTransaction
  /\ up \subseteq Servers
  /\ at \in [ReserveCalls -> Servers \cup {Null}]
  /\ pc \in [ReserveCalls -> InTransaction
               \cup {"idle", "opened", "committed", "returned", "failed", "lost"}]
  /\ argument \in [ReserveCalls -> Arguments \cup {Null}]
  /\ answer \in [ReserveCalls -> [status : Statuses, available : 0 .. Stock \cup {Null}]
                          \cup {Null}]
  /\ told \in [RequestIds -> SUBSET Rows]
  /\ crashes \in 0 .. MaxCrashes

Init ==
  /\ file = "absent" /\ inventory = 0 /\ ledger = [i \in RequestIds |-> Null]
  /\ locked = Null /\ writes = Null
  /\ up = {}
  /\ at = [c \in ReserveCalls |-> Null] /\ pc = [c \in ReserveCalls |-> "idle"]
  /\ argument = [c \in ReserveCalls |-> Null] /\ answer = [c \in ReserveCalls |-> Null]
  /\ told = [i \in RequestIds |-> {}]
  /\ crashes = 0

-----------------------------------------------------------------------------
(* create_database: the file first, exclusively, then its contents in one  *)
(* transaction.  A crash in between leaves a file nobody accepts.          *)
CreateFile ==
  /\ file = "absent" /\ file' = "created"
  /\ UNCHANGED <<inventory, ledger, transaction, up, calls, told, crashes>>

CreateTables ==
  /\ file = "created" /\ file' = "ready"
  /\ inventory' = Stock
  /\ UNCHANGED <<ledger, transaction, up, calls, told, crashes>>

InitCrashes ==
  /\ file = "created" /\ file' = "abandoned"
  /\ UNCHANGED <<inventory, ledger, transaction, up, calls, told, crashes>>

(* serve: validate_schema refuses anything but a complete file. *)
Serves(s) ==
  /\ file = "ready" /\ s \notin up
  /\ up' = up \cup {s}
  /\ UNCHANGED <<database, transaction, calls, told, crashes>>

(* run_server ends when its worker threads have stopped. *)
Stops(s) ==
  /\ s \in up /\ \A c \in ReserveCalls : at[c] = s => ~Busy(c)
  /\ up' = up \ {s}
  /\ UNCHANGED <<database, transaction, calls, told, crashes>>

-----------------------------------------------------------------------------
(* reserve.  The bulkhead admits one call at a time in each process.       *)
IsValidRequest(a) == 1 <= a.quantity /\ a.quantity <= MaxQuantity

Moves(c, p) == pc' = [pc EXCEPT ![c] = p]

Opens(c, s, a) ==
  /\ pc[c] = "idle" /\ s \in up \cap Writers
  /\ \A d \in ReserveCalls : at[d] = s => ~Busy(d)
  /\ at' = [at EXCEPT ![c] = s]
  /\ argument' = [argument EXCEPT ![c] = a]
  /\ IF IsValidRequest(a)
     THEN Moves(c, "opened") /\ UNCHANGED answer
     ELSE /\ Moves(c, "returned")
          /\ answer' = [answer EXCEPT ![c] = [status |-> "invalid_request",
                                              available |-> Null]]
  /\ UNCHANGED <<database, transaction, up, told, crashes>>

(* BEGIN IMMEDIATE, or the end of the busy timeout *)
Unlocked == locked = Null

BeginsWriting(c) ==
  /\ pc[c] = "opened" /\ Unlocked
  /\ locked' = c
  /\ writes' = [inventory |-> inventory, ledger |-> ledger]
  /\ Moves(c, "begun")
  /\ UNCHANGED <<database, up, at, argument, answer, told, crashes>>

BusyTimeout(c) ==
  /\ pc[c] = "opened" /\ locked # Null
  /\ Moves(c, "failed")
  /\ UNCHANGED <<database, transaction, up, at, argument, answer, told, crashes>>

(* The verdict on a request, from the row of its id or from the stock. *)
SameRequest(a, row) == row.sku = a.sku /\ row.quantity = a.quantity

Says(s, n) == [status |-> s, available |-> n]

Replay(a, row) == IF SameRequest(a, row) THEN Says(row.status, row.available)
                  ELSE Says("idempotency_conflict", Null)

Verdict(a) ==
  IF Cardinality({i \in RequestIds : ledger[i] # Null}) >= MaxRequests
  THEN Says("capacity_exceeded", Null)
  ELSE IF a.sku # Sku THEN Says("unknown_sku", Null)
  ELSE IF inventory < a.quantity THEN Says("insufficient_stock", inventory)
  ELSE Says("reserved", inventory - a.quantity)

Reads(c) ==
  LET a   == argument[c]
      row == ledger[a.id]
      v   == IF row # Null THEN Replay(a, row) ELSE Verdict(a)
  IN  /\ pc[c] = "begun"
      /\ answer' = [answer EXCEPT ![c] = v]
      /\ Moves(c, IF row # Null \/ v.status \notin Decided THEN "committing"
                  ELSE IF v.status = "reserved" THEN "updating" ELSE "inserting")
      /\ UNCHANGED <<database, transaction, up, at, argument, told, crashes>>

Updates(c) ==
  /\ pc[c] = "updating"
  /\ writes' = [writes EXCEPT !.inventory = @ - argument[c].quantity]
  /\ Moves(c, "inserting")
  /\ UNCHANGED <<database, locked, up, at, argument, answer, told, crashes>>

Row(c) == [sku |-> argument[c].sku, quantity |-> argument[c].quantity,
           status |-> answer[c].status, available |-> answer[c].available]

Inserts(c) ==
  /\ pc[c] = "inserting"
  /\ writes' = [writes EXCEPT !.ledger[argument[c].id] = Row(c)]
  /\ Moves(c, "committing")
  /\ UNCHANGED <<database, locked, up, at, argument, answer, told, crashes>>

(* The connection's context commits both writes before reserve returns... *)
Commits(c) ==
  /\ pc[c] = "committing"
  /\ inventory' = writes.inventory /\ ledger' = writes.ledger
  /\ locked' = Null /\ writes' = Null
  /\ Moves(c, "committed")
  /\ UNCHANGED <<file, up, at, argument, answer, told, crashes>>

(* ...and an exception in any statement rolls both back. *)
UpdateStays == inventory' = writes.inventory /\ UNCHANGED ledger  \* mutant: autocommit
Undone      == UNCHANGED <<inventory, ledger>>

RollsBack(c) ==
  /\ pc[c] \in InTransaction
  /\ Undone
  /\ locked' = Null /\ writes' = Null
  /\ Moves(c, "failed")
  /\ UNCHANGED <<file, up, at, argument, answer, told, crashes>>

(* The answer reaches the client, or is lost: the deadline of the call was *)
(* over, or the connection.                                                *)
AnswerIsKnown(c) ==                     \* mutant: the answer precedes the commit
  pc[c] = "committed" \/ (pc[c] = "committing" /\ answer[c] # Null)
AnswerIsFinal(c) == pc[c] = "committed"

ReturnsOutcome(c) ==
  /\ AnswerIsFinal(c)
  /\ Moves(c, IF pc[c] = "committed" THEN "returned" ELSE pc[c])
  /\ told' = IF answer[c].status \in Decided
             THEN [told EXCEPT ![argument[c].id] = @ \cup {Row(c)}] ELSE told
  /\ UNCHANGED <<database, transaction, up, at, argument, answer, crashes>>

Loses(c) ==
  /\ pc[c] = "committed"
  /\ Moves(c, "lost")
  /\ UNCHANGED <<database, transaction, up, at, argument, answer, told, crashes>>

(* A crash ends the threads of a process and rolls its transaction back.   *)
Crashes(s) ==
  LET hit == {c \in ReserveCalls : at[c] = s /\ Busy(c)}
  IN  /\ s \in up /\ crashes < MaxCrashes
      /\ crashes' = crashes + 1
      /\ up' = up \ {s}
      /\ pc' = [c \in ReserveCalls |-> IF c \in hit THEN "lost" ELSE pc[c]]
      /\ IF locked \in hit THEN locked' = Null /\ writes' = Null
                           ELSE UNCHANGED transaction
      /\ UNCHANGED <<database, at, argument, answer, told>>

Next ==
  \/ CreateFile \/ CreateTables \/ InitCrashes
  \/ \E s \in Servers : Serves(s) \/ Stops(s) \/ Crashes(s)
  \/ \E c \in ReserveCalls :
       \/ \E s \in Servers, a \in Arguments : Opens(c, s, a)
       \/ BeginsWriting(c) \/ BusyTimeout(c) \/ Reads(c) \/ Updates(c) \/ Inserts(c)
       \/ Commits(c) \/ RollsBack(c) \/ ReturnsOutcome(c) \/ Loses(c)

Spec == Init /\ [][Next]_vars

-----------------------------------------------------------------------------
(* reserve: what is available and what the committed rows have reserved    *)
(* make up the initial stock, whatever crashes or is rolled back between   *)
(* the UPDATE and the INSERT.                                              *)
Reserved == {i \in RequestIds : ledger[i] # Null /\ ledger[i].status = "reserved"}

StockConserved ==
  file = "ready" =>
    Stock = inventory
            + SumFunctionOnSet([i \in Reserved |-> ledger[i].quantity], Reserved)

(* The promise to the client: one outcome per request id and arguments,    *)
(* decided with the stock it takes, durable before anybody is told, and    *)
(* told to everybody who asks again.                                       *)
Remaining == IF file = "ready" THEN inventory ELSE Stock

Ledger == INSTANCE ReservationLedger WITH
            Ids <- RequestIds, Outcomes <- Rows, NoOutcome <- Null, stock <- Remaining

ImplementsLedger == Ledger!Spec
=============================================================================
