--------------------------- MODULE ReservationProofs ---------------------------
(***************************************************************************)
(* The inventory example keeps its promise for every number of calls,      *)
(* processes, retries and crashes: SqliteReservations implements           *)
(* ReservationLedger, and what the rows reserve and the stock that is left *)
(* add up to the stock of the beginning.  The last part needs the theory   *)
(* of the library's sum over a set, which comes before it.                 *)
(***************************************************************************)
EXTENDS SqliteReservations, FiniteSetTheorems, WellFoundedInduction, TLAPS

PCs == InTransaction \cup {"idle", "opened", "committed", "returned", "failed", "lost"}
Answers == [status : Statuses, available : 0 .. Stock \cup {Null}]

Types ==
  /\ inventory \in 0 .. Stock
  /\ ledger \in [RequestIds -> Rows \cup {Null}]
  /\ told \in [RequestIds -> SUBSET Rows]
  /\ locked \in ReserveCalls \cup {Null}
  /\ pc \in [ReserveCalls -> PCs]
  /\ argument \in [ReserveCalls -> Arguments \cup {Null}]
  /\ answer \in [ReserveCalls -> Answers \cup {Null}]

(* The file is complete before anything is served from it. *)
Complete ==
  /\ up # {} => file = "ready"
  /\ \A c \in ReserveCalls : pc[c] # "idle" => file = "ready"

(* The call whose transaction is open holds the lock. *)
Exclusive == \A c \in ReserveCalls : pc[c] \in InTransaction <=> locked = c

Asked(c) == argument[c] \in Arguments /\ IsValidRequest(argument[c])

Pending == InTransaction \cup {"opened", "committed"}

(* What is committed, as the writes of a transaction. *)
Unwritten == [inventory |-> inventory, ledger |-> ledger]

(* A fresh decision on the request of c, taken with the stock it sees. *)
Left(c) == IF answer[c].status = "reserved" THEN inventory - argument[c].quantity
           ELSE inventory
Fresh(c) ==
  /\ ledger[argument[c].id] = Null
  /\ answer[c] \in Answers /\ answer[c].status \in Decided
  /\ answer[c].status = "reserved" =>
       inventory >= argument[c].quantity /\ answer[c].available = Left(c)

(* The row of the request says what c was answered. *)
Recorded(c) ==
  /\ answer[c] \in Answers
  /\ answer[c].status \in Decided =>
       Row(c) \in Rows /\ ledger[argument[c].id] = Row(c)

(* The writes of an open transaction at each of its statements. *)
Progress(c) ==
  /\ pc[c] = "begun" => writes = Unwritten
  /\ pc[c] = "updating" => /\ Fresh(c) /\ answer[c].status = "reserved"
                           /\ writes = Unwritten
  /\ pc[c] = "inserting" => /\ Fresh(c)
                            /\ writes = [inventory |-> Left(c), ledger |-> ledger]
  /\ pc[c] = "committing" =>
       \/ writes = Unwritten /\ Recorded(c)
       \/ /\ Fresh(c)
          /\ writes = [inventory |-> Left(c),
                       ledger |-> [ledger EXCEPT ![argument[c].id] = Row(c)]]
  /\ pc[c] = "committed" => Recorded(c)

Inv ==
  /\ Types /\ Complete /\ Exclusive
  /\ \A c \in ReserveCalls : pc[c] \in Pending => Asked(c)
  /\ \A c \in ReserveCalls : Progress(c)

-----------------------------------------------------------------------------
(* A fresh decision makes a row of its request and leaves a stock in range. *)
LEMMA FreshRow ==
  ASSUME Types, NEW c \in ReserveCalls, Asked(c), Fresh(c)
  PROVE  Row(c) \in Rows /\ argument[c].id \in RequestIds /\ Left(c) \in 0 .. Stock
  BY ReservationAssumption
     DEF Types, Asked, Fresh, Row, Rows, RequestIds, IsValidRequest, Answers, Left

(* An empty directory, and nobody has called. *)
LEMMA InitInv == Init => Inv
  BY ReservationAssumption, NullAssumption
     DEF Init, Inv, Types, Complete, Exclusive, Pending, Progress, PCs, InTransaction

(* A call whose variables a step leaves alone stays where it was. *)
LEMMA Frame ==
  ASSUME NEW d \in ReserveCalls, Progress(d), UNCHANGED <<inventory, ledger>>,
         pc'[d] = pc[d], answer'[d] = answer[d], argument'[d] = argument[d],
         pc[d] \in InTransaction => writes' = writes
  PROVE  Progress(d)'
  BY DEF Progress, Fresh, Recorded, Left, Row, Unwritten, InTransaction

(* A call that is not between BEGIN and its answer has nothing to keep. *)
LEMMA Elsewhere ==
  ASSUME NEW d \in ReserveCalls, pc'[d] \notin InTransaction \cup {"committed"}
  PROVE  Progress(d)'
  BY DEF Progress, InTransaction

(* create_database, serve and the end of a process *)
LEMMA FileStep ==
  ASSUME Inv, CreateFile \/ CreateTables \/ InitCrashes
              \/ \E s \in Servers : Serves(s) \/ Stops(s)
  PROVE  Inv'
<1>1. UNCHANGED <<ledger, transaction, calls, told>>
  BY DEF CreateFile, CreateTables, InitCrashes, Serves, Stops, database
<1>2. UNCHANGED inventory \/ (\A c \in ReserveCalls : pc[c] = "idle")
  BY DEF CreateFile, CreateTables, InitCrashes, Serves, Stops, database, Inv, Complete
<1>3. Types'
  BY <1>1, ReservationAssumption
     DEF Inv, Types, CreateFile, CreateTables, InitCrashes, Serves, Stops, database,
         transaction, calls
<1>4. Complete'
  BY <1>1 DEF Inv, Complete, CreateFile, CreateTables, InitCrashes, Serves, Stops,
              database, calls
<1>5. Exclusive' /\ \A c \in ReserveCalls : pc'[c] \in Pending => Asked(c)'
  BY <1>1 DEF Inv, Exclusive, Asked, transaction, calls, Pending, InTransaction
<1>6. ASSUME NEW c \in ReserveCalls PROVE Progress(c)'
  <2>1. CASE pc[c] = "idle"
    BY <1>1, <2>1, Elsewhere DEF calls, InTransaction
  <2>2. CASE pc[c] # "idle"
    BY <1>1, <1>2, <2>2, Frame DEF Inv, calls, transaction
  <2> QED  BY <2>1, <2>2
<1> QED  BY <1>3, <1>4, <1>5, <1>6 DEF Inv

(* A call begins and asks a process that is up. *)
LEMMA OpensStep ==
  ASSUME Inv, NEW c \in ReserveCalls, NEW s \in Servers, NEW a \in Arguments, Opens(c, s, a)
  PROVE  Inv'
<1>1. Types'
  BY DEF Inv, Types, Opens, Moves, PCs, Answers, Statuses, database, transaction
<1>2. Complete'
  BY DEF Inv, Types, Complete, Opens, Moves, database
<1>3. Exclusive'
  BY DEF Inv, Types, Exclusive, Opens, Moves, InTransaction, transaction
<1>4. \A d \in ReserveCalls : pc'[d] \in Pending => Asked(d)'
  BY DEF Inv, Types, Asked, Opens, Moves, Pending, InTransaction, IsValidRequest
<1>5. ASSUME NEW d \in ReserveCalls PROVE Progress(d)'
  <2>1. CASE d = c
    BY <2>1, Elsewhere DEF Inv, Types, Opens, Moves, InTransaction
  <2>2. CASE d # c
    BY <2>2, Frame DEF Inv, Types, Opens, Moves, database, transaction
  <2> QED  BY <2>1, <2>2
<1> QED  BY <1>1, <1>2, <1>3, <1>4, <1>5 DEF Inv

(* A step of one call inside reserve: what it must show of the call itself *)
(* and of the lock.  Nothing of the database changes.                      *)
LEMMA CallStep ==
  ASSUME Inv, NEW c \in ReserveCalls, UNCHANGED <<database, up, argument, told>>,
         pc[c] # "idle", NEW p \in PCs, pc' = [pc EXCEPT ![c] = p], p # "idle",
         p \in Pending => pc[c] \in Pending,
         answer' \in [ReserveCalls -> Answers \cup {Null}],
         \A d \in ReserveCalls \ {c} : answer'[d] = answer[d],
         \/ locked' = locked /\ (p \in InTransaction <=> pc[c] \in InTransaction)
         \/ locked = c /\ locked' = Null /\ p \notin InTransaction
         \/ locked = Null /\ locked' = c /\ p \in InTransaction,
         writes' # writes => locked = c \/ locked = Null,
         Progress(c)'
  PROVE  Inv'
<1>1. Types' /\ Complete'
  BY DEF Inv, Types, Complete, database
<1>2. Exclusive'
  BY NullAssumption DEF Inv, Types, Exclusive
<1>3. \A d \in ReserveCalls : pc'[d] \in Pending => Asked(d)'
  BY DEF Inv, Types, Asked, IsValidRequest
<1>4. ASSUME NEW d \in ReserveCalls \ {c} PROVE Progress(d)'
  <2>1. pc[d] \in InTransaction => writes' = writes
    BY NullAssumption DEF Inv, Exclusive
  <2> QED  BY <2>1, Frame DEF Inv, Types, database
<1> QED  BY <1>1, <1>2, <1>3, <1>4 DEF Inv

(* BEGIN IMMEDIATE takes the free lock; nothing is written yet. *)
LEMMA BeginsStep ==
  ASSUME Inv, NEW c \in ReserveCalls, BeginsWriting(c)
  PROVE  Inv'
<1>1. pc' = [pc EXCEPT ![c] = "begun"] /\ pc'[c] = "begun"
  BY DEF BeginsWriting, Moves, Inv, Types
<1>2. Progress(c)'
  BY <1>1 DEF BeginsWriting, Progress, Unwritten, database
<1> QED
  BY <1>1, <1>2, CallStep
     DEF BeginsWriting, Unlocked, Inv, Types, PCs, Pending, InTransaction

(* A call gives up waiting for the lock, or its answer is lost: it         *)
(* holds none.                                                             *)
LEMMA BusyTimeoutStep ==
  ASSUME Inv, NEW c \in ReserveCalls, BusyTimeout(c) \/ Loses(c)
  PROVE  Inv'
<1> DEFINE p == pc'[c]
<1>1. /\ pc' = [pc EXCEPT ![c] = p]
      /\ p \in {"failed", "lost"}
      /\ pc[c] \in {"opened", "committed"}
  BY DEF BusyTimeout, Loses, Moves, Inv, Types
<1>2. Progress(c)'
  BY <1>1, Elsewhere DEF InTransaction
<1> HIDE DEF p
<1> QED
  BY <1>1, <1>2, CallStep
     DEF BusyTimeout, Loses, Inv, Types, PCs, Pending, InTransaction, transaction

(* A failed transaction gives up the lock and its writes. *)
LEMMA RollsBackStep ==
  ASSUME Inv, NEW c \in ReserveCalls, RollsBack(c)
  PROVE  Inv'
<1>1. pc' = [pc EXCEPT ![c] = "failed"] /\ pc'[c] = "failed"
  BY DEF RollsBack, Moves, Inv, Types
<1>2. Progress(c)'
  BY <1>1, Elsewhere DEF InTransaction
<1> QED
  BY <1>1, <1>2, CallStep
     DEF RollsBack, Undone, database, Inv, Types, Exclusive, PCs, Pending, InTransaction

(* An answer is told after its row is in the file. *)
LEMMA ReturnsStep ==
  ASSUME Inv, NEW c \in ReserveCalls, ReturnsOutcome(c)
  PROVE  Inv'
<1>1. /\ pc' = [pc EXCEPT ![c] = "returned"] /\ pc'[c] = "returned"
      /\ pc[c] = "committed"
  BY DEF ReturnsOutcome, AnswerIsFinal, Moves, Inv, Types
<1>2. Recorded(c) /\ argument[c].id \in RequestIds
  BY <1>1 DEF Inv, Progress, Asked, Pending, RequestIds
<1>3. told' \in [RequestIds -> SUBSET Rows]
  BY <1>2 DEF ReturnsOutcome, Inv, Types, Recorded
<1>4. Types' /\ Complete'
  BY <1>1, <1>3 DEF ReturnsOutcome, Inv, Types, Complete, PCs, database, transaction
<1>5. Exclusive' /\ \A d \in ReserveCalls : pc'[d] \in Pending => Asked(d)'
  BY <1>1 DEF ReturnsOutcome, Inv, Types, Exclusive, Asked, IsValidRequest, Pending, InTransaction,
              transaction
<1>6. ASSUME NEW d \in ReserveCalls PROVE Progress(d)'
  <2>1. CASE d = c
    BY <1>1, <2>1, Elsewhere DEF InTransaction
  <2>2. CASE d # c
    BY <1>1, <2>2, Frame DEF ReturnsOutcome, Inv, Types, database, transaction
  <2> QED  BY <2>1, <2>2
<1> QED  BY <1>4, <1>5, <1>6 DEF Inv

(* A verdict is an answer, and one that reserves leaves what it says. *)
LEMMA VerdictIsAnswer ==
  ASSUME Types, NEW a \in Arguments, IsValidRequest(a)
  PROVE  /\ Verdict(a) \in Answers
         /\ Verdict(a).status = "reserved" =>
              inventory >= a.quantity /\ Verdict(a).available = inventory - a.quantity
  BY ReservationAssumption DEF Verdict, Says, Answers, Statuses, Decided, Types, IsValidRequest

(* A replay of a row gives back the row, or a conflict. *)
LEMMA ReplayIsAnswer ==
  ASSUME NEW a \in Arguments, NEW row \in Rows
  PROVE  /\ Replay(a, row) \in Answers
         /\ Replay(a, row).status \in Decided =>
              row = [sku |-> a.sku, quantity |-> a.quantity,
                     status |-> Replay(a, row).status,
                     available |-> Replay(a, row).available]
<1>1. CASE SameRequest(a, row)
  BY <1>1 DEF SameRequest, Replay, Says, Rows, Answers, Statuses, Decided
<1>2. CASE ~SameRequest(a, row)
  BY <1>2 DEF SameRequest, Replay, Says, Rows, Answers, Statuses, Decided
<1> QED  BY <1>1, <1>2

(* The decision is taken from the file as it is, under the lock. *)
LEMMA ReadsStep ==
  ASSUME Inv, NEW c \in ReserveCalls, Reads(c)
  PROVE  Inv'
<1> DEFINE a   == argument[c]
           row == ledger[a.id]
           v   == IF row # Null THEN Replay(a, row) ELSE Verdict(a)
           p   == IF row # Null \/ v.status \notin Decided THEN "committing"
                  ELSE IF v.status = "reserved" THEN "updating" ELSE "inserting"
<1>1. /\ pc[c] = "begun" /\ pc' = [pc EXCEPT ![c] = p]
      /\ answer' = [answer EXCEPT ![c] = v]
      /\ UNCHANGED <<database, transaction, up, at, argument, told>>
  BY DEF Reads, Moves
<1>2. a \in Arguments /\ IsValidRequest(a) /\ row \in Rows \cup {Null} /\ writes = Unwritten
  BY <1>1 DEF Inv, Types, Asked, Pending, InTransaction, Progress, RequestIds
<1>3. v \in Answers
  BY <1>2, VerdictIsAnswer, ReplayIsAnswer DEF Inv
<1>4. answer'[c] = v /\ pc'[c] = p
  BY <1>1 DEF Inv, Types
<1>5. Progress(c)'
  <2>0. writes' = Unwritten' /\ a' = a /\ row' = row
    BY <1>1, <1>2 DEF transaction, database, Unwritten
  <2>1. CASE row # Null
    <3>1. Recorded(c)'
      BY <1>1, <1>2, <1>3, <1>4, <2>0, <2>1, ReplayIsAnswer
         DEF Recorded, Row, database
    <3> QED  BY <1>4, <2>0, <2>1, <3>1 DEF Progress
  <2>2. CASE row = Null /\ v.status \notin Decided
    BY <1>3, <1>4, <2>0, <2>2 DEF Progress, Recorded
  <2>3. CASE row = Null /\ v.status \in Decided
    <3>1. Fresh(c)'
      BY <1>1, <1>2, <1>3, <1>4, <2>0, <2>3, VerdictIsAnswer
         DEF Fresh, Left, Inv, database
    <3>2. v.status # "reserved" => writes' = [inventory |-> Left(c), ledger |-> ledger]'
      BY <1>4, <2>0 DEF Left, Unwritten
    <3> QED  BY <1>4, <2>0, <2>3, <3>1, <3>2 DEF Progress
  <2> QED  BY <2>1, <2>2, <2>3
<1>6. p \in {"committing", "updating", "inserting"}
  OBVIOUS
<1> HIDE DEF v, p
<1> QED
  BY <1>1, <1>3, <1>4, <1>5, <1>6, CallStep
     DEF Inv, Types, PCs, Pending, InTransaction, transaction

(* The update writes the stock that the decision leaves. *)
LEMMA UpdatesStep ==
  ASSUME Inv, NEW c \in ReserveCalls, Updates(c)
  PROVE  Inv'
<1>1. pc[c] = "updating" /\ pc' = [pc EXCEPT ![c] = "inserting"] /\ pc'[c] = "inserting"
  BY DEF Updates, Moves, Inv, Types
<1>2. Progress(c)'
  BY <1>1 DEF Updates, Inv, Progress, Fresh, Left, Unwritten, database
<1> QED
  BY <1>1, <1>2, CallStep
     DEF Updates, Inv, Types, Exclusive, PCs, Pending, InTransaction

(* The insert adds the row of the decision to the new stock. *)
LEMMA InsertsStep ==
  ASSUME Inv, NEW c \in ReserveCalls, Inserts(c)
  PROVE  Inv'
<1>1. /\ pc[c] = "inserting" /\ pc' = [pc EXCEPT ![c] = "committing"]
      /\ pc'[c] = "committing"
  BY DEF Inserts, Moves, Inv, Types
<1>2. Progress(c)'
  BY <1>1 DEF Inserts, Inv, Progress, Fresh, Left, Row, database
<1> QED
  BY <1>1, <1>2, CallStep
     DEF Inserts, Inv, Types, Exclusive, PCs, Pending, InTransaction

(* What a commit does to the database: nothing, or one fresh outcome with  *)
(* the stock it takes.                                                     *)
LEMMA CommitsEffect ==
  ASSUME Inv, NEW c \in ReserveCalls, Commits(c)
  PROVE  /\ argument[c].id \in RequestIds /\ file = "ready" /\ UNCHANGED <<file, told>>
         /\ \/ UNCHANGED <<inventory, ledger>> /\ Recorded(c)
            \/ /\ Fresh(c) /\ Row(c) \in Rows
               /\ inventory' = Left(c) /\ inventory' \in 0 .. Stock
               /\ ledger' = [ledger EXCEPT ![argument[c].id] = Row(c)]
<1>1. Progress(c) /\ Asked(c) /\ pc[c] = "committing" /\ Types /\ Complete
  BY DEF Inv, Commits, Pending, InTransaction
<1>2. argument[c].id \in RequestIds
  BY <1>1 DEF Asked, RequestIds
<1> QED
  BY <1>1, <1>2, FreshRow DEF Commits, Progress, Unwritten, Complete

(* The writes become the file, and the lock is free. *)
LEMMA CommitsStep ==
  ASSUME Inv, NEW c \in ReserveCalls, Commits(c)
  PROVE  Inv'
<1>1. /\ pc[c] = "committing" /\ pc' = [pc EXCEPT ![c] = "committed"]
      /\ locked = c /\ locked' = Null
      /\ UNCHANGED <<file, up, argument, answer, told>>
  BY DEF Commits, Moves, Inv, Exclusive, InTransaction
<1>2. Types'
  BY <1>1, CommitsEffect DEF Inv, Types, PCs
<1>3. Complete'
  BY <1>1 DEF Inv, Complete, Types
<1>4. Exclusive'
  BY <1>1, NullAssumption DEF Inv, Exclusive, Types, InTransaction
<1>5. \A d \in ReserveCalls : pc'[d] \in Pending => Asked(d)'
  BY <1>1 DEF Inv, Types, Asked, IsValidRequest, Pending, InTransaction
<1>6. \A i \in RequestIds : ledger[i] # Null => ledger'[i] = ledger[i]
  BY CommitsEffect DEF Fresh, Inv, Types
<1>7. Recorded(c)'
  BY <1>1, CommitsEffect DEF Recorded, Fresh, Row, Inv, Types
<1>8. ASSUME NEW d \in ReserveCalls PROVE Progress(d)'
  <2>1. CASE d = c
    BY <1>1, <1>7, <2>1 DEF Progress, Inv, Types
  <2>2. CASE d # c /\ pc[d] = "committed"
    <3>1. Recorded(d) /\ argument[d].id \in RequestIds
      BY <2>2 DEF Inv, Progress, Asked, Pending, RequestIds
    <3>2. Recorded(d)'
      BY <1>1, <1>6, <3>1, NullAssumption DEF Recorded, Row
    <3> QED  BY <1>1, <2>2, <3>2 DEF Progress, Inv, Types
  <2>3. CASE d # c /\ pc[d] # "committed"
    BY <1>1, <2>3, Elsewhere DEF Inv, Exclusive, Types
  <2> QED  BY <2>1, <2>2, <2>3
<1> QED  BY <1>2, <1>3, <1>4, <1>5, <1>8 DEF Inv

(* A crash ends the calls of one process; an open transaction goes with it. *)
LEMMA CrashesStep ==
  ASSUME Inv, NEW s \in Servers, Crashes(s)
  PROVE  Inv'
<1> DEFINE hit == {c \in ReserveCalls : at[c] = s /\ Busy(c)}
<1>1. /\ pc' = [c \in ReserveCalls |-> IF c \in hit THEN "lost" ELSE pc[c]]
      /\ IF locked \in hit THEN locked' = Null /\ writes' = Null
                           ELSE UNCHANGED transaction
      /\ up' \subseteq up
      /\ UNCHANGED <<database, argument, answer, told>>
  BY DEF Crashes
<1>2. Types' /\ Complete'
  BY <1>1 DEF Inv, Types, Complete, PCs, database, transaction, Busy, InTransaction
<1>3. Exclusive'
  <2>1. CASE locked \in hit
    BY <1>1, <2>1, NullAssumption DEF Inv, Types, Exclusive, InTransaction
  <2>2. CASE locked \notin hit
    BY <1>1, <2>2 DEF Inv, Types, Exclusive, InTransaction, transaction, Busy
  <2> QED  BY <2>1, <2>2
<1>4. \A d \in ReserveCalls : pc'[d] \in Pending => Asked(d)'
  BY <1>1 DEF Inv, Asked, IsValidRequest, Pending, InTransaction
<1>5. ASSUME NEW d \in ReserveCalls PROVE Progress(d)'
  <2>1. CASE d \in hit
    BY <1>1, <2>1, Elsewhere DEF InTransaction
  <2>2. CASE d \notin hit
    <3>1. pc'[d] = pc[d] /\ (pc[d] \in InTransaction => writes' = writes)
      BY <1>1, <2>2 DEF Inv, Exclusive, transaction
    <3> QED  BY <1>1, <3>1, Frame DEF Inv, database
  <2> QED  BY <2>1, <2>2
<1> QED  BY <1>2, <1>3, <1>4, <1>5 DEF Inv

(* Every step keeps the invariant. *)
LEMMA StepInv == Inv /\ [Next]_vars => Inv'
<1> SUFFICES ASSUME Inv, [Next]_vars PROVE Inv'
  OBVIOUS
<1>1. CASE UNCHANGED vars
  <2>1. ASSUME NEW d \in ReserveCalls PROVE Progress(d)'
    BY <1>1, Frame DEF Inv, vars, database, transaction, calls
  <2> QED
    BY <1>1, <2>1 DEF Inv, Types, Complete, Exclusive, Asked, vars, database,
                      transaction, calls
<1>2. CASE \/ CreateFile \/ CreateTables \/ InitCrashes
           \/ \E s \in Servers : Serves(s) \/ Stops(s)
  BY <1>2, FileStep
<1>3. CASE \E s \in Servers : Crashes(s)
  BY <1>3, CrashesStep
<1>4. ASSUME NEW c \in ReserveCalls, \E s \in Servers, a \in Arguments : Opens(c, s, a)
      PROVE  Inv'
  BY <1>4, OpensStep
<1>5. ASSUME NEW c \in ReserveCalls,
             \/ BeginsWriting(c) \/ BusyTimeout(c) \/ Reads(c) \/ Updates(c) \/ Inserts(c)
             \/ Commits(c) \/ RollsBack(c) \/ ReturnsOutcome(c) \/ Loses(c)
      PROVE  Inv'
  BY <1>5, BeginsStep, BusyTimeoutStep, ReadsStep, UpdatesStep, InsertsStep,
     CommitsStep, RollsBackStep, ReturnsStep
<1> QED  BY <1>1, <1>2, <1>3, <1>4, <1>5 DEF Next

(* SqliteReservations: the lock is held by the one open transaction, and   *)
(* what that transaction would commit is what the database holds, with at  *)
(* most the stock and the row of its own request changed.                  *)
THEOREM OneWriter == Spec => []Inv
  BY InitInv, StepInv, PTL DEF Spec

(* What is left of the types: the file, the processes and the crashes. *)
Others ==
  /\ file \in {"absent", "created", "abandoned", "ready"}
  /\ up \subseteq Servers /\ at \in [ReserveCalls -> Servers \cup {Null}]
  /\ crashes \in 0 .. MaxCrashes

(* The variables Types says nothing of keep their types. *)
LEMMA StepOthers == Others /\ [Next]_vars => Others'
<1> SUFFICES ASSUME Others, [Next]_vars PROVE Others'
  OBVIOUS
<1>1. CASE UNCHANGED vars
  BY <1>1 DEF Others, vars, database, calls
<1>2. CASE CreateFile \/ CreateTables \/ InitCrashes
  BY <1>2 DEF Others, CreateFile, CreateTables, InitCrashes, calls
<1>3. CASE \E s \in Servers : Serves(s) \/ Stops(s) \/ Crashes(s)
  BY <1>3, ReservationAssumption DEF Others, Serves, Stops, Crashes, database, calls
<1>4. ASSUME NEW c \in ReserveCalls, NEW s \in Servers, NEW a \in Arguments, Opens(c, s, a)
      PROVE  Others'
  BY <1>4 DEF Others, Opens, database
<1>5. ASSUME NEW c \in ReserveCalls,
             \/ BeginsWriting(c) \/ BusyTimeout(c) \/ Reads(c) \/ Updates(c) \/ Inserts(c)
             \/ Commits(c) \/ RollsBack(c) \/ ReturnsOutcome(c) \/ Loses(c)
      PROVE  Others'
  BY <1>5 DEF Others, BeginsWriting, BusyTimeout, Reads, Updates, Inserts, Commits, RollsBack, Undone,
              ReturnsOutcome, Loses, database
<1> QED  BY <1>1, <1>2, <1>3, <1>4, <1>5 DEF Next

(* SqliteReservations: every variable keeps its type, and the lock is held *)
(* by the one call whose transaction is open.                              *)
THEOREM TypesHold == Spec => []TypeOK
<1>1. Init => Others
  BY ReservationAssumption DEF Init, Others
<1>2. Inv /\ Others => TypeOK
  BY DEF Inv, Types, Exclusive, Others, TypeOK, Answers, PCs
<1> QED  BY <1>1, <1>2, StepOthers, OneWriter, PTL DEF Spec

-----------------------------------------------------------------------------
(* Every step decides one request, tells a client, or does nothing that a  *)
(* client could see.                                                       *)
LEMMA StepRefines ==
  ASSUME Inv, Inv', [Next]_vars
  PROVE  [Ledger!Next]_<<ledger, Remaining, told>>
<1> USE DEF Remaining
<1>1. CASE UNCHANGED vars
  BY <1>1 DEF vars, database
<1>2. CASE CreateFile \/ CreateTables \/ InitCrashes
  BY <1>2 DEF CreateFile, CreateTables, InitCrashes
<1>3. CASE \E s \in Servers : Serves(s) \/ Stops(s) \/ Crashes(s)
  BY <1>3 DEF Serves, Stops, Crashes, database
<1>4. ASSUME NEW c \in ReserveCalls,
             \/ \E s \in Servers, a \in Arguments : Opens(c, s, a)
             \/ BeginsWriting(c) \/ BusyTimeout(c) \/ Reads(c) \/ Updates(c) \/ Inserts(c)
             \/ RollsBack(c) \/ Loses(c)
      PROVE  UNCHANGED <<ledger, Remaining, told>>
  BY <1>4 DEF Opens, BeginsWriting, BusyTimeout, Reads, Updates, Inserts, RollsBack, Undone, Loses,
              database
<1>5. ASSUME NEW c \in ReserveCalls, Commits(c)
      PROVE  [Ledger!Next]_<<ledger, Remaining, told>>
  <2>1. CASE UNCHANGED <<inventory, ledger>>
    BY <1>5, <2>1, CommitsEffect
  <2>2. CASE Fresh(c) /\ ledger' = [ledger EXCEPT ![argument[c].id] = Row(c)]
             /\ inventory' = Left(c)
    <3>1. argument[c].id \in RequestIds /\ Row(c) \in Rows
      BY <1>5, <2>2, FreshRow DEF Inv, Pending, InTransaction, Commits
    <3>2. ledger'[argument[c].id] = Row(c)
      BY <2>2, <3>1 DEF Inv, Types
    <3>3. Ledger!Decide(argument[c].id, Row(c))
      BY <1>5, <2>2, <3>1, CommitsEffect DEF Ledger!Decide, Fresh, Left, Row
    <3> QED  BY <3>1, <3>2, <3>3 DEF Ledger!Next
  <2> QED  BY <1>5, <2>1, <2>2, CommitsEffect
<1>6. ASSUME NEW c \in ReserveCalls, ReturnsOutcome(c)
      PROVE  [Ledger!Next]_<<ledger, Remaining, told>>
  <2>1. Recorded(c) /\ argument[c].id \in RequestIds
    BY <1>6 DEF ReturnsOutcome, AnswerIsFinal, Inv, Progress, Asked, Pending, RequestIds
  <2>2. UNCHANGED <<ledger, Remaining>>
    BY <1>6 DEF ReturnsOutcome, database
  <2>3. CASE answer[c].status \in Decided
    <3>1. Ledger!Tell(argument[c].id)
      BY <1>6, <2>1, <2>2, <2>3, NullAssumption DEF ReturnsOutcome, Recorded, Ledger!Tell
    <3> QED  BY <2>1, <3>1 DEF Ledger!Next
  <2>4. CASE answer[c].status \notin Decided
    BY <1>6, <2>2, <2>4 DEF ReturnsOutcome
  <2> QED  BY <2>3, <2>4
<1> QED  BY <1>1, <1>2, <1>3, <1>4, <1>5, <1>6 DEF Next

(* reserve: whatever is retried, refused, lost, crashed or restarted, a    *)
(* request id gets one outcome, decided with the stock it takes and        *)
(* durable before any client is told.                                      *)
THEOREM KeepsItsPromise == Spec => ImplementsLedger
<1>1. Init => Ledger!Init
  BY DEF Init, Ledger!Init
<1>2. Inv /\ Inv' /\ [Next]_vars => [Ledger!Next]_<<ledger, Remaining, told>>
  BY StepRefines
<1> QED  BY <1>1, <1>2, OneWriter, PTL DEF Spec, ImplementsLedger, Ledger!Spec

-----------------------------------------------------------------------------
(* Sums over a finite set, as the community modules define them: one       *)
(* element after the other, in an order nobody knows.                      *)

(* A set of numbers that is not empty has a least one. *)
LEMMA SomeLeast ==
  ASSUME NEW N \in SUBSET Nat, N # {}
  PROVE  \E n \in N : \A m \in N : n <= m
<1> DEFINE Less == OpToRel(<, Nat)
<1>1. Less = {ss \in Nat \X Nat : ss[1] < ss[2]}
  BY DEF OpToRel
<1>2. IsWellFoundedOn(Less, Nat)
  BY NatLessThanWellFounded
<1> HIDE DEF Less
<1>3. PICK n \in N : \A m \in N : ~(<<m, n>> \in Less)
  BY <1>2, WFMin
<1>4. ASSUME NEW m \in N PROVE n <= m
  <2>1. ~(<<m, n>> \in Nat \X Nat /\ <<m, n>>[1] < <<m, n>>[2])
    BY <1>1, <1>3
  <2> QED BY <2>1
<1> QED BY <1>4

(* The element a sum takes out of a set first. *)
Pick(s) == CHOOSE x \in s : TRUE

Summand(f, F, s) == IF s = {} THEN 0 ELSE f[Pick(s)] + F[s \ {Pick(s)}]
Sums(f, S, F) == F = [s \in SUBSET S |-> Summand(f, F, s)]
Numbers(f, S) == \A x \in S : f[x] \in Nat

(* The element the library takes out of a set is one of it. *)
LEMMA PickIn ==
  ASSUME NEW s, s # {}
  PROVE  Pick(s) \in s
BY DEF Pick

(* Without its pick a finite set is smaller. *)
LEMMA Smaller ==
  ASSUME NEW s, IsFiniteSet(s), NEW x \in s
  PROVE  /\ IsFiniteSet(s \ {x}) /\ Cardinality(s) \in Nat /\ Cardinality(s \ {x}) \in Nat
         /\ Cardinality(s \ {x}) = Cardinality(s) - 1
         /\ Cardinality(s \ {x}) < Cardinality(s)
<1>1. IsFiniteSet(s \ {x}) /\ Cardinality(s \ {x}) = Cardinality(s) - 1
  BY FS_RemoveElement
<1>2. Cardinality(s) \in Nat /\ Cardinality(s \ {x}) \in Nat
  BY <1>1, FS_CardinalityType
<1> QED BY <1>1, <1>2

(* What the library's sum is. *)
LEMMA SumUnfolds ==
  ASSUME NEW f, NEW S
  PROVE  SumFunctionOnSet(f, S) = (CHOOSE F : Sums(f, S, F))[S]
BY DEF SumFunctionOnSet, FoldFunctionOnSet, MapThenFoldSet, Sums, Summand, Pick

(* The sums of the sets with n elements at most. *)
UpTo(S, n) == {s \in SUBSET S : Cardinality(s) <= n}
Partial(f, S, n, F) ==
  F \in [UpTo(S, n) -> Nat] /\ \A s \in UpTo(S, n) : F[s] = Summand(f, F, s)

(* The table of sums exists up to every cardinality: take the least one    *)
(* for which it does not.                                                  *)
LEMMA PartialSums ==
  ASSUME NEW f, NEW S, IsFiniteSet(S), Numbers(f, S), NEW k \in Nat
  PROVE  \E F : Partial(f, S, k, F)
<1> DEFINE Bad == {n \in Nat : ~ \E F : Partial(f, S, n, F)}
<1>1. \A s \in SUBSET S : IsFiniteSet(s) /\ Cardinality(s) \in Nat
  BY FS_Subset, FS_CardinalityType
<1>2. SUFFICES ASSUME Bad # {} PROVE FALSE
  OBVIOUS
<1>3. PICK n \in Bad : \A m \in Bad : n <= m
  <2> HIDE DEF Bad
  <2>1. Bad \in SUBSET Nat
    BY DEF Bad
  <2> QED BY <1>2, <2>1, SomeLeast
<1>4. CASE n = 0
  <2> DEFINE G == [s \in UpTo(S, 0) |-> 0]
  <2>1. \A s \in UpTo(S, 0) : s = {}
    <3> SUFFICES ASSUME NEW s \in UpTo(S, 0), s # {} PROVE FALSE
      OBVIOUS
    <3>1. s \in SUBSET S /\ Cardinality(s) <= 0
      BY DEF UpTo
    <3>2. Cardinality(s) < 1 /\ IsFiniteSet(s) /\ Pick(s) \in s
      BY <1>1, <3>1, PickIn
    <3>3. Cardinality(s \ {Pick(s)}) \in Nat /\ Cardinality(s \ {Pick(s)}) < Cardinality(s)
      BY <3>2, Smaller
    <3> QED BY <1>1, <3>1, <3>3
  <2>2. Partial(f, S, 0, G)
    BY <2>1 DEF Partial, Summand
  <2> QED BY <1>4, <2>2
<1>5. CASE n # 0
  <2>1. n - 1 \in Nat /\ n \in Nat /\ n - 1 < n
    BY <1>5
  <2>2. PICK F : Partial(f, S, n - 1, F)
    BY <1>3, <2>1
  <2> DEFINE G == [s \in UpTo(S, n) |-> Summand(f, F, s)]
  <2>3. ASSUME NEW s \in UpTo(S, n), s # {}
        PROVE  s \ {Pick(s)} \in UpTo(S, n - 1) /\ f[Pick(s)] \in Nat
    <3>1. s \in SUBSET S /\ Cardinality(s) <= n
      BY DEF UpTo
    <3>2. IsFiniteSet(s) /\ Pick(s) \in s /\ Cardinality(s) \in Nat
      BY <1>1, <2>3, <3>1, PickIn
    <3>3. Cardinality(s \ {Pick(s)}) \in Nat /\ Cardinality(s \ {Pick(s)}) = Cardinality(s) - 1
      BY <3>2, Smaller
    <3>4. Cardinality(s \ {Pick(s)}) <= n - 1
      BY <2>1, <3>1, <3>2, <3>3
    <3>5. f[Pick(s)] \in Nat
      BY <3>1, <3>2 DEF Numbers
    <3> QED BY <3>1, <3>4, <3>5 DEF UpTo
  <2>4. \A s \in UpTo(S, n - 1) : s \in UpTo(S, n)
    BY <1>1, <2>1 DEF UpTo
  <2>5. \A s \in UpTo(S, n) : Summand(f, F, s) \in Nat
    <3> SUFFICES ASSUME NEW s \in UpTo(S, n) PROVE Summand(f, F, s) \in Nat
      OBVIOUS
    <3>1. CASE s = {}
      BY <3>1 DEF Summand
    <3>2. CASE s # {}
      <4>1. F[s \ {Pick(s)}] \in Nat /\ f[Pick(s)] \in Nat
        BY <2>2, <2>3, <3>2 DEF Partial
      <4> QED BY <3>2, <4>1 DEF Summand
    <3> QED BY <3>1, <3>2
  <2>6. G \in [UpTo(S, n) -> Nat] /\ \A s \in UpTo(S, n) : G[s] = Summand(f, F, s)
    BY <2>5
  <2> HIDE DEF G
  <2>7. \A s \in UpTo(S, n - 1) : G[s] = F[s]
    BY <2>2, <2>4, <2>6 DEF Partial
  <2>8. \A s \in UpTo(S, n) : G[s] = Summand(f, G, s)
    <3> SUFFICES ASSUME NEW s \in UpTo(S, n) PROVE Summand(f, F, s) = Summand(f, G, s)
      BY <2>6
    <3>1. CASE s = {}
      BY <3>1 DEF Summand
    <3>2. CASE s # {}
      BY <2>3, <2>7, <3>2 DEF Summand
    <3> QED BY <3>1, <3>2
  <2>9. Partial(f, S, n, G)
    BY <2>6, <2>8 DEF Partial
  <2> QED BY <2>9
<1> QED BY <1>4, <1>5

(* Such functions of two sets agree where the numbers do. *)
LEMMA SumsAgree ==
  ASSUME NEW f, NEW g, NEW S, IsFiniteSet(S), \A x \in S : f[x] = g[x], NEW F, NEW G,
         \A s \in SUBSET S : F[s] = Summand(f, F, s),
         \A s \in SUBSET S : G[s] = Summand(g, G, s)
  PROVE  \A s \in SUBSET S : F[s] = G[s]
<1> DEFINE Sizes == {n \in Nat : \E s \in SUBSET S : Cardinality(s) = n /\ F[s] # G[s]}
<1>1. \A s \in SUBSET S : IsFiniteSet(s) /\ Cardinality(s) \in Nat
  BY FS_Subset, FS_CardinalityType
<1>2. SUFFICES ASSUME Sizes # {} PROVE FALSE
  BY <1>1
<1>3. PICK n \in Sizes : \A m \in Sizes : n <= m
  <2> HIDE DEF Sizes
  <2>1. Sizes \in SUBSET Nat
    BY DEF Sizes
  <2> QED BY <1>2, <2>1, SomeLeast
<1>4. PICK s \in SUBSET S : Cardinality(s) = n /\ F[s] # G[s]
  BY <1>3
<1>5. s # {}
  BY <1>4 DEF Summand
<1> DEFINE r == s \ {Pick(s)}
<1>6. Pick(s) \in s /\ r \in SUBSET S
  BY <1>5, PickIn
<1>7. Cardinality(r) \in Nat /\ Cardinality(r) < n
  BY <1>1, <1>4, <1>6, Smaller
<1>8. F[r] = G[r]
  BY <1>3, <1>6, <1>7
<1>9. F[s] = f[Pick(s)] + F[r] /\ G[s] = g[Pick(s)] + G[r]
  BY <1>5 DEF Summand
<1>10. f[Pick(s)] = g[Pick(s)]
  BY <1>6
<1> QED BY <1>4, <1>8, <1>9, <1>10

(* The function the sum of a finite set is read off. *)
SumTable(f, S, F) ==
  /\ F \in [SUBSET S -> Nat]
  /\ \A s \in SUBSET S : F[s] = Summand(f, F, s)
  /\ SumFunctionOnSet(f, S) = F[S]

(* There is one. *)
LEMMA SumsExist ==
  ASSUME NEW f, NEW S, IsFiniteSet(S), Numbers(f, S)
  PROVE  \E F : SumTable(f, S, F)
<1>1. Cardinality(S) \in Nat
  BY FS_CardinalityType
<1>2. UpTo(S, Cardinality(S)) = SUBSET S
  BY FS_Subset DEF UpTo
<1>3. PICK F : Partial(f, S, Cardinality(S), F)
  BY <1>1, PartialSums
<1>4. Sums(f, S, F) /\ F \in [SUBSET S -> Nat]
  BY <1>2, <1>3 DEF Partial, Sums
<1> DEFINE G == CHOOSE H : Sums(f, S, H)
<1>5. Sums(f, S, G)
  BY <1>4
<1>6. SumFunctionOnSet(f, S) = G[S]
  BY SumUnfolds
<1> HIDE DEF G
<1>7. \A s \in SUBSET S : G[s] = Summand(f, G, s)
  BY <1>5 DEF Sums
<1>8. \A s \in SUBSET S : F[s] = Summand(f, F, s)
  BY <1>2, <1>3 DEF Partial
<1>9. \A s \in SUBSET S : F[s] = G[s]
  BY <1>7, <1>8, SumsAgree
<1>10. S \in SUBSET S
  OBVIOUS
<1>11. SumTable(f, S, F)
  BY <1>4, <1>6, <1>8, <1>9, <1>10 DEF SumTable
<1> QED BY <1>11

(* Sums are numbers, depend on what is summed alone, and are zero of nothing. *)
LEMMA SumIsNatural ==
  ASSUME NEW f, NEW S, IsFiniteSet(S), Numbers(f, S)
  PROVE  SumFunctionOnSet(f, S) \in Nat
<1>1. PICK F : SumTable(f, S, F)
  BY SumsExist
<1>2. S \in SUBSET S
  OBVIOUS
<1> QED BY <1>1, <1>2 DEF SumTable

(* The empty set sums to zero. *)
LEMMA SumOfNothing ==
  ASSUME NEW f
  PROVE  SumFunctionOnSet(f, {}) = 0
<1>1. IsFiniteSet({}) /\ Numbers(f, {})
  BY FS_EmptySet DEF Numbers
<1>2. PICK F : SumTable(f, {}, F)
  BY <1>1, SumsExist
<1> QED BY <1>2 DEF SumTable, Summand

(* Functions that agree on a set have one sum on it. *)
LEMMA SumOfSame ==
  ASSUME NEW f, NEW g, NEW S, IsFiniteSet(S), Numbers(f, S), \A x \in S : f[x] = g[x]
  PROVE  SumFunctionOnSet(f, S) = SumFunctionOnSet(g, S)
<1>1. Numbers(g, S)
  BY DEF Numbers
<1>2. PICK F : SumTable(f, S, F)
  BY SumsExist
<1>3. PICK G : SumTable(g, S, G)
  BY <1>1, SumsExist
<1>4. \A s \in SUBSET S : F[s] = G[s]
  BY <1>2, <1>3, SumsAgree DEF SumTable
<1>5. S \in SUBSET S
  OBVIOUS
<1> QED BY <1>2, <1>3, <1>4, <1>5 DEF SumTable

(* The pick, and the sum of the rest. *)
LEMMA SumOfRest ==
  ASSUME NEW f, NEW S, IsFiniteSet(S), Numbers(f, S), S # {}
  PROVE  SumFunctionOnSet(f, S) = f[Pick(S)] + SumFunctionOnSet(f, S \ {Pick(S)})
<1> DEFINE R == S \ {Pick(S)}
<1>1. PICK F : SumTable(f, S, F)
  BY SumsExist
<1>2. IsFiniteSet(R) /\ Numbers(f, R) /\ R \in SUBSET S
  BY FS_Subset DEF Numbers
<1>3. PICK G : SumTable(f, R, G)
  <2> HIDE DEF R
  <2> QED BY <1>2, SumsExist
<1>4. \A s \in SUBSET R : F[s] = Summand(f, F, s)
  BY <1>1, <1>2 DEF SumTable
<1>5. F[R] = G[R]
  <2>1. R \in SUBSET R /\ \A x \in R : f[x] = f[x]
    OBVIOUS
  <2>2. /\ IsFiniteSet(R)
        /\ \A s \in SUBSET R : G[s] = Summand(f, G, s)
    BY <1>2, <1>3 DEF SumTable
  <2> HIDE DEF R
  <2>3. \A s \in SUBSET R : F[s] = G[s]
    BY <1>4, <2>1, <2>2, SumsAgree
  <2> QED BY <2>1, <2>3
<1>6. F[S] = f[Pick(S)] + F[R]
  BY <1>1 DEF Summand, SumTable
<1> QED BY <1>1, <1>3, <1>5, <1>6 DEF SumTable

(* Any element, and the sum of the rest. *)
LEMMA SumOfOthers ==
  ASSUME NEW f, NEW S, IsFiniteSet(S), Numbers(f, S), NEW y \in S
  PROVE  SumFunctionOnSet(f, S) = f[y] + SumFunctionOnSet(f, S \ {y})
<1> DEFINE Odd(s) == \E x \in s : SumFunctionOnSet(f, s) # f[x] + SumFunctionOnSet(f, s \ {x})
           Sizes == {n \in Nat : \E s \in SUBSET S : Cardinality(s) = n /\ Odd(s)}
<1>1. \A s \in SUBSET S : IsFiniteSet(s) /\ Cardinality(s) \in Nat /\ Numbers(f, s)
  BY FS_Subset, FS_CardinalityType DEF Numbers
<1>2. SUFFICES ASSUME Sizes # {} PROVE FALSE
  <2>1. ASSUME Odd(S) PROVE Sizes # {}
    BY <1>1, <2>1
  <2> QED BY <2>1
<1> HIDE DEF Odd
<1>3. PICK n \in Sizes : \A m \in Sizes : n <= m
  <2> HIDE DEF Sizes
  <2>1. Sizes \in SUBSET Nat
    BY DEF Sizes
  <2> QED BY <1>2, <2>1, SomeLeast
<1>4. PICK s \in SUBSET S : Cardinality(s) = n /\ Odd(s)
  BY <1>3
<1>5. PICK x \in s : SumFunctionOnSet(f, s) # f[x] + SumFunctionOnSet(f, s \ {x})
  BY <1>4 DEF Odd
<1> DEFINE p == Pick(s)
<1>6. p \in s /\ s # {}
  BY <1>5, PickIn
<1>7. \A r \in SUBSET S : Cardinality(r) < n => ~Odd(r)
  BY <1>1, <1>3
<1>8. ASSUME NEW z \in s, NEW w \in s, z # w
      PROVE  SumFunctionOnSet(f, s \ {z}) = f[w] + SumFunctionOnSet(f, (s \ {z}) \ {w})
  <2>1. s \ {z} \in SUBSET S /\ w \in s \ {z} /\ Cardinality(s \ {z}) < n
    BY <1>1, <1>4, <1>8, Smaller
  <2> QED BY <1>7, <2>1 DEF Odd
<1>9. SumFunctionOnSet(f, s) = f[p] + SumFunctionOnSet(f, s \ {p})
  BY <1>1, <1>6, SumOfRest
<1>10. x # p
  BY <1>5, <1>9
<1>11. (s \ {p}) \ {x} = (s \ {x}) \ {p}
  OBVIOUS
<1> DEFINE rest == SumFunctionOnSet(f, (s \ {x}) \ {p})
<1> HIDE DEF p
<1>12. SumFunctionOnSet(f, s \ {p}) = f[x] + rest /\ SumFunctionOnSet(f, s \ {x}) = f[p] + rest
  BY <1>6, <1>8, <1>10, <1>11
<1>13. f[x] \in Nat /\ f[p] \in Nat /\ rest \in Nat
  <2>1. (s \ {x}) \ {p} \in SUBSET S
    OBVIOUS
  <2> QED BY <1>1, <1>6, <2>1, SumIsNatural DEF Numbers
<1> HIDE DEF rest
<1>14. f[p] + (f[x] + rest) = f[x] + (f[p] + rest)
  BY <1>13
<1> QED BY <1>5, <1>9, <1>12, <1>14

-----------------------------------------------------------------------------
(* The stock and what is reserved of it.                                   *)

Quantities == [i \in Reserved |-> ledger[i].quantity]

(* The rows that reserve are finitely many, and none before the tables are  *)
(* there; and the stock is conserved.                                       *)
Booked ==
  /\ IsFiniteSet(Reserved)
  /\ file # "ready" => Reserved = {}
  /\ StockConserved

(* A row has a quantity. *)
LEMMA RowsCount ==
  ASSUME NEW row \in Rows
  PROVE  row.quantity \in Nat
<1>1. row.quantity \in 1 .. MaxQuantity
  BY DEF Rows
<1>2. MaxQuantity \in Nat
  BY ReservationAssumption
<1> QED BY <1>1, <1>2

(* A step that leaves the tables alone. *)
LEMMA BookedFrame ==
  ASSUME Booked, UNCHANGED <<file, inventory, ledger>>
  PROVE  Booked'
BY DEF Booked, Reserved, StockConserved

(* One more row: it takes its quantity from the stock if it reserves, and  *)
(* nothing otherwise.                                                      *)
LEMMA BookedCommit ==
  ASSUME Inv, Inv', Booked, NEW c \in ReserveCalls, Commits(c)
  PROVE  Booked'
<1> DEFINE i == argument[c].id
           q == argument[c].quantity
<1>1. /\ i \in RequestIds /\ file = "ready" /\ file' = file
      /\ \/ UNCHANGED <<inventory, ledger>>
         \/ /\ Fresh(c) /\ Row(c) \in Rows /\ inventory' = Left(c)
            /\ ledger' = [ledger EXCEPT ![i] = Row(c)]
  BY CommitsEffect
<1>2. CASE UNCHANGED <<inventory, ledger>>
  BY <1>1, <1>2, BookedFrame
<1>3. CASE /\ Fresh(c) /\ Row(c) \in Rows /\ inventory' = Left(c)
           /\ ledger' = [ledger EXCEPT ![i] = Row(c)]
  <2>1. /\ ledger \in [RequestIds -> Rows \cup {Null}] /\ ledger[i] = Null /\ i \notin Reserved
        /\ inventory \in Nat
    BY <1>3, ReservationAssumption DEF Inv, Types, Fresh, Reserved
  <2>2. ledger'[i] = Row(c) /\ \A j \in RequestIds : j # i => ledger'[j] = ledger[j]
    BY <1>1, <1>3, <2>1
  <2>3. Row(c) # Null /\ Row(c).status = answer[c].status /\ Row(c).quantity = q
    BY <1>3, NullAssumption DEF Row
  <2>4. IsFiniteSet(Reserved) /\ Numbers(Quantities, Reserved)
        /\ Stock = inventory + SumFunctionOnSet(Quantities, Reserved)
    <3>1. \A j \in Reserved : ledger[j] \in Rows
      BY <2>1 DEF Reserved
    <3>2. Numbers(Quantities, Reserved)
      BY <3>1, RowsCount DEF Numbers, Quantities
    <3> QED BY <1>1, <3>2 DEF Booked, StockConserved, Quantities
  <2>5. \A j \in Reserved : Quantities[j] = ledger'[j].quantity /\ j \in RequestIds /\ j # i
    BY <2>1, <2>2 DEF Quantities, Reserved
  <2>6. CASE answer[c].status = "reserved"
    <3>1. Reserved' = Reserved \cup {i}
      BY <1>1, <2>1, <2>2, <2>3, <2>6 DEF Reserved
    <3>2. IsFiniteSet(Reserved')
      BY <2>4, <3>1, FS_AddElement
    <3>3. Numbers(Quantities', Reserved')
      <4>1. \A j \in Reserved' : ledger'[j] \in Rows
        BY <1>3, <2>1, <2>2, <3>1 DEF Reserved
      <4> QED BY <4>1, RowsCount DEF Numbers, Quantities
    <3>4. Quantities'[i] = q /\ \A j \in Reserved : Quantities'[j] = Quantities[j]
      BY <2>2, <2>3, <2>5, <3>1 DEF Quantities
    <3>5. SumFunctionOnSet(Quantities', Reserved')
            = q + SumFunctionOnSet(Quantities', Reserved)
      <4>1. i \in Reserved' /\ Reserved' \ {i} = Reserved
        BY <2>1, <3>1
      <4> HIDE DEF i
      <4> QED BY <3>2, <3>3, <3>4, <4>1, SumOfOthers
    <3>6. SumFunctionOnSet(Quantities', Reserved) = SumFunctionOnSet(Quantities, Reserved)
      BY <2>4, <3>4, SumOfSame
    <3>7. inventory' = inventory - q /\ q \in Nat /\ q <= inventory
      <4>1. argument[c] \in Arguments
        BY DEF Inv, Asked, Pending, InTransaction, Commits
      <4> QED BY <1>3, <2>6, <4>1, ReservationAssumption DEF Left, Fresh
    <3>8. SumFunctionOnSet(Quantities, Reserved) \in Nat
      BY <2>4, SumIsNatural
    <3>9. Stock = inventory' + SumFunctionOnSet(Quantities', Reserved')
      <4> DEFINE sum == SumFunctionOnSet(Quantities, Reserved)
                 then == SumFunctionOnSet(Quantities', Reserved')
      <4>1. sum \in Nat /\ then = q + sum /\ Stock = inventory + sum
        BY <2>4, <3>5, <3>6, <3>8
      <4> HIDE DEF sum, then, q
      <4>2. Stock = inventory' + then
        BY <2>1, <3>7, <4>1
      <4> QED BY <4>2 DEF then
    <3> QED BY <1>1, <3>2, <3>9 DEF Booked, StockConserved, Quantities
  <2>7. CASE answer[c].status # "reserved"
    <3>1. Reserved' = Reserved
      BY <1>1, <2>1, <2>2, <2>3, <2>7 DEF Reserved
    <3>2. \A j \in Reserved : Quantities'[j] = Quantities[j]
      BY <2>5, <3>1 DEF Quantities
    <3>3. SumFunctionOnSet(Quantities', Reserved') = SumFunctionOnSet(Quantities, Reserved)
      BY <2>4, <3>1, <3>2, SumOfSame
    <3>4. inventory' = inventory
      BY <1>3, <2>7 DEF Left
    <3> QED BY <1>1, <2>4, <3>1, <3>3, <3>4 DEF Booked, StockConserved, Quantities
  <2> QED BY <2>6, <2>7
<1> QED BY <1>1, <1>2, <1>3

(* Every step keeps the books: a commit moves what it reserves from the    *)
(* stock to a row.                                                         *)
LEMMA BookedStep ==
  ASSUME Inv, Inv', Booked, [Next]_vars
  PROVE  Booked'
<1>1. CASE CreateTables
  <2>1. file # "ready" /\ inventory' = Stock /\ Reserved' = Reserved
    BY <1>1 DEF CreateTables, Reserved
  <2>2. Reserved' = {} /\ IsFiniteSet(Reserved')
    BY <2>1 DEF Booked
  <2>3. SumFunctionOnSet(Quantities', Reserved') = 0
    BY <2>2, SumOfNothing
  <2>4. Stock = inventory' + SumFunctionOnSet(Quantities', Reserved')
    BY <2>1, <2>3, ReservationAssumption
  <2> QED BY <2>2, <2>4 DEF Booked, StockConserved, Quantities
<1>2. CASE CreateFile \/ InitCrashes
  BY <1>2 DEF CreateFile, InitCrashes, Booked, StockConserved, Reserved
<1>3. ASSUME NEW c \in ReserveCalls, Commits(c)
      PROVE  Booked'
  BY <1>3, BookedCommit
<1>4. CASE UNCHANGED <<file, inventory, ledger>>
  BY <1>4, BookedFrame
<1>5. CASE UNCHANGED vars
  BY <1>4, <1>5 DEF vars, database
<1>6. CASE \E s \in Servers : Serves(s) \/ Stops(s) \/ Crashes(s)
  BY <1>4, <1>6 DEF Serves, Stops, Crashes, database
<1>7. ASSUME NEW c \in ReserveCalls,
             \/ \E s \in Servers, a \in Arguments : Opens(c, s, a)
             \/ BeginsWriting(c) \/ BusyTimeout(c) \/ Reads(c) \/ Updates(c) \/ Inserts(c)
             \/ RollsBack(c) \/ ReturnsOutcome(c) \/ Loses(c)
      PROVE  UNCHANGED <<file, inventory, ledger>>
  BY <1>7 DEF Opens, BeginsWriting, BusyTimeout, Reads, Updates, Inserts, RollsBack, Undone, ReturnsOutcome,
              Loses, database
<1> QED BY <1>1, <1>2, <1>3, <1>4, <1>5, <1>6, <1>7 DEF Next

(***************************************************************************)
(* reserve: for every stock and number of calls, and whatever crashes, is  *)
(* lost, retried or rolled back: what is available and what the committed  *)
(* rows have reserved make up the initial stock.                           *)
(***************************************************************************)
THEOREM StockIsConserved == Spec => []StockConserved
<1>1. Init => Booked
  <2> SUFFICES ASSUME Init PROVE Booked
    OBVIOUS
  <2>1. file = "absent" /\ ledger = [i \in RequestIds |-> Null]
    BY DEF Init
  <2>2. Reserved = {} /\ IsFiniteSet({})
    BY <2>1, FS_EmptySet DEF Reserved
  <2> QED BY <2>1, <2>2 DEF Booked, StockConserved
<1>2. Inv /\ Inv' /\ Booked /\ [Next]_vars => Booked'
  BY BookedStep
<1>3. Spec => []Booked
  BY <1>1, <1>2, OneWriter, PTL DEF Spec
<1> QED BY <1>3, PTL DEF Booked
=============================================================================
