--------------------------- MODULE MCPSessionProofs ---------------------------
(***************************************************************************)
(* Theorems about MCPSession, for every script of messages, every limit    *)
(* and every number of requests and retained tasks.                        *)
(*                                                                         *)
(* The invariants build on one another: which row of a dispatch table      *)
(* decides; the types together with the ownership of ids (Typed); the      *)
(* eras; the ownership of tokens; why a request may be cancelled           *)
(* (Reasons); how failures surface (Surfacing); and what still unwinds.    *)
(***************************************************************************)
EXTENDS MCPSession, FiniteSetTheorems, WellFoundedInduction, TLAPS

(* Min of numbers is the least of them. *)
LEMMA LeastOf ==
  ASSUME NEW S \in SUBSET Nat, S # {}
  PROVE  Min(S) \in S /\ \A i \in S : Min(S) =< i
<1> DEFINE Less == OpToRel(<, Nat)
<1>1. Less = {ss \in Nat \X Nat : ss[1] < ss[2]}
  BY DEF OpToRel
<1>2. IsWellFoundedOn(Less, Nat)
  BY NatLessThanWellFounded
<1> HIDE DEF Less
<1>3. PICK x \in S : \A y \in S : ~(<<y, x>> \in Less)
  BY <1>2, WFMin
<1>4. ASSUME NEW y \in S PROVE x =< y
  <2>1. ~(<<y, x>> \in Nat \X Nat /\ <<y, x>>[1] < <<y, x>>[2])
    BY <1>1, <1>3
  <2> QED BY <2>1
<1> QED BY <1>4 DEF Min

(* The row that decides. *)
Decides(rows, k) == rows[k][1] /\ \A j \in 1 .. k - 1 : ~rows[j][1]

(* A table whose last row always holds is decided by one of its rows, and  *)
(* that row's value is the table's.                                        *)
LEMMA RowDecides ==
  ASSUME NEW rows, NEW n \in Nat, DOMAIN rows = 1 .. n, NEW l \in 1 .. n, rows[l][1]
  PROVE  \E k \in 1 .. n : Decides(rows, k) /\ FirstOf(rows) = rows[k][2]
<1> DEFINE Holding == {i \in DOMAIN rows : rows[i][1]}
<1>1. Holding \in SUBSET Nat /\ l \in Holding
  OBVIOUS
<1>2. Min(Holding) \in Holding /\ \A i \in Holding : Min(Holding) =< i
  BY <1>1, LeastOf
<1>3. PICK k \in 1 .. n : k = Min(Holding) /\ k \in Holding /\ \A i \in Holding : k =< i
  BY <1>2
<1>4. rows[k][1] /\ FirstOf(rows) = rows[k][2]
  BY <1>2, <1>3 DEF FirstOf
<1> HIDE DEF Holding
<1>5. ASSUME NEW j \in 1 .. k - 1 PROVE ~rows[j][1]
  <2>1. j \in 1 .. n /\ j < k
    BY <1>3
  <2>2. j \notin Holding
    BY <1>3, <2>1
  <2> QED BY <2>1, <2>2 DEF Holding
<1> QED BY <1>4, <1>5 DEF Decides

(* An accepted modern request finds a session that no client initialized. *)
LEMMA AcceptedMeansModern ==
  ASSUME NEW m
  PROVE  /\ ModernRefusal(m) = "accepted" => ~session.responded
         /\ ModernRefusal(m) # "success"
<1> DEFINE rows == <<
      <<m.method = "initialize" /\ session.modern,
          IF ~m.valid THEN "invalid_params"
          ELSE IF m.version = "modern" THEN "not_found" ELSE "unsupported">>,
      <<m.meta = "none", "invalid_params">>,
      <<session.responded /\ m.meta = "legacy", "invalid_params">>,
      <<Unsupported(m), "unsupported">>,
      <<TRUE, "accepted">> >>
<1>1. DOMAIN rows = 1 .. 5 /\ rows[5][1] /\ 5 \in 1 .. 5 /\ 5 \in Nat
  OBVIOUS
<1>2. ModernRefusal(m) = FirstOf(rows)
  BY DEF ModernRefusal
<1> HIDE DEF rows
<1>3. PICK k \in 1 .. 5 : Decides(rows, k) /\ FirstOf(rows) = rows[k][2]
  BY <1>1, RowDecides
<1>4. rows[k][2] # "success" /\ (rows[k][2] = "accepted" => k = 5)
  BY DEF rows
<1>5. CASE k = 5
  <2>1. ~rows[3][1] /\ ~rows[4][1]
    BY <1>3, <1>5 DEF Decides
  <2>2. ~Unsupported(m) /\ ~(session.responded /\ m.meta = "legacy")
    BY <2>1 DEF rows
  <2> QED BY <1>2, <1>3, <1>4, <2>2 DEF Unsupported
<1> QED BY <1>2, <1>3, <1>4, <1>5

(* tasks/cancel succeeds only for a retained task that is not settled. *)
LEMMA CancelTaskRoute ==
  ASSUME NEW m, m.method = "cancelTask", Route(m) = "success"
  PROVE  m.target \in kept \ settled
<1>1. CASE IsModern(m)
  <2> DEFINE rows == <<
        <<ModernRefusal(m) # "accepted", ModernRefusal(m)>>,
        <<m.method = "discover", "success">>,
        <<m.method \notin {"list", "call"}, "not_found">>,
        <<~m.valid, "invalid_params">>,
        <<m.method = "list", "success">>,
        <<m.asTask, "invalid_params">>,
        <<m.tool = "required", "not_found">>,
        <<TRUE, "track">> >>
  <2>1. DOMAIN rows = 1 .. 8 /\ rows[8][1] /\ 8 \in 1 .. 8 /\ 8 \in Nat
    OBVIOUS
  <2>2. FirstOf(rows) = "success"
    BY <1>1 DEF Route, ModernRoute
  <2> HIDE DEF rows
  <2>3. PICK k \in 1 .. 8 : Decides(rows, k) /\ FirstOf(rows) = rows[k][2]
    BY <2>1, RowDecides
  <2>4. rows[k][1]
    BY <2>3 DEF Decides
  <2>5. k = 2 \/ k = 5
    BY <2>2, <2>3, AcceptedMeansModern DEF rows
  <2>6. ~rows[2][1] /\ ~rows[5][1]
    BY DEF rows
  <2> QED BY <2>4, <2>5, <2>6
<1>2. CASE ~IsModern(m)
  <2> DEFINE rows == <<
        <<m.method = "initialize", IF m.valid THEN "success" ELSE "invalid_params">>,
        <<m.method = "ping", "success">>,
        <<~session.initialized, "not_initialized">>,
        <<m.method = "list", IF m.valid THEN "success" ELSE "invalid_params">>,
        <<m.method = "call", "track">>,
        <<~TasksAvailable, "not_found">>,
        <<m.method = "result", "track">>,
        <<m.method = "get", IF m.target \in kept THEN "success" ELSE "invalid_params">>,
        <<m.method = "cancelTask",
            IF m.target \in kept \ settled THEN "success" ELSE "invalid_params">>,
        <<TRUE, "not_found">> >>
  <2>1. DOMAIN rows = 1 .. 10 /\ rows[10][1] /\ 10 \in 1 .. 10 /\ 10 \in Nat
    OBVIOUS
  <2>2. FirstOf(rows) = "success"
    BY <1>2 DEF Route, LegacyRoute
  <2> HIDE DEF rows
  <2>3. PICK k \in 1 .. 10 : Decides(rows, k) /\ FirstOf(rows) = rows[k][2]
    BY <2>1, RowDecides
  <2>4. rows[k][1]
    BY <2>3 DEF Decides
  <2>5. k \in {1, 2, 4, 8, 9}
    BY <2>2, <2>3 DEF rows
  <2>6. ~rows[1][1] /\ ~rows[2][1] /\ ~rows[4][1] /\ ~rows[8][1]
    BY DEF rows
  <2>7. k = 9
    BY <2>4, <2>5, <2>6
  <2> QED BY <2>2, <2>3, <2>7 DEF rows
<1> QED BY <1>1, <1>2

(* A call is made with a free token; a task is made where tasks are. *)
LEMMA PlansOfCalls ==
  ASSUME NEW m
  PROVE  /\ Plan(m) = "call" => TokenFree(m.token)
         /\ Plan(m) = "retain" => TasksAvailable
<1>1. CASE m.method = "call"
  <2> DEFINE tasks == TasksAvailable /\ ~session.modern
             rows == <<
        <<~m.valid, "refuse">>,
        <<tasks /\ m.asTask /\ m.tool \in {"unknown", "forbidden"}, "refuse">>,
        <<tasks /\ ~m.asTask /\ m.tool = "required", "refuse">>,
        <<tasks /\ m.asTask,
            IF Cardinality(kept) < MaxRetained THEN "retain" ELSE "refuse">>,
        <<TokenFree(m.token), "call">>,
        <<TRUE, "refuse">> >>
  <2>1. DOMAIN rows = 1 .. 6 /\ rows[6][1] /\ 6 \in 1 .. 6 /\ 6 \in Nat
    OBVIOUS
  <2>2. Plan(m) = FirstOf(rows)
    BY <1>1 DEF Plan, CallPlan
  <2> HIDE DEF rows
  <2>3. PICK k \in 1 .. 6 : Decides(rows, k) /\ FirstOf(rows) = rows[k][2]
    BY <2>1, RowDecides
  <2>4. rows[k][1]
    BY <2>3 DEF Decides
  <2>5. (rows[k][2] = "call" => k = 5) /\ (rows[k][2] = "retain" => k = 4)
    BY DEF rows
  <2>6. (rows[5][1] => TokenFree(m.token)) /\ (rows[4][1] => TasksAvailable)
    BY DEF rows
  <2> QED BY <2>2, <2>3, <2>4, <2>5, <2>6
<1>2. CASE m.method # "call"
  BY <1>2 DEF Plan
<1> QED BY <1>1, <1>2

-----------------------------------------------------------------------------
(* The steps by who makes them.                                            *)

LineStep(m) == Drops(m) \/ CancelsRequest(m) \/ HandlesInLine(m) \/ IsBusy(m) \/ Admits(m)

RequestStep(q) ==
  \/ NeverStarts(q) \/ Refuses(q) \/ CallStarts(q) \/ WaitStarts(q) \/ Retains(q)
  \/ CallEnds(q) \/ ProgressFails(q) \/ WaitEnds(q) \/ Cancelled(q) \/ RequestFinished(q)

TaskStep(r) == RunStarts(r) \/ RunRefused(r) \/ NeverRuns(r) \/ RunEnds(r) \/ Expires(r)

ServerStep == EndOfInput \/ HostCancels \/ PipeBreaks \/ ReaderStep

(* Every step is one of these. *)
LEMMA StepCases ==
  ASSUME [Next]_vars
  PROVE  \/ \E m \in Messages : LineStep(m)
         \/ \E q \in Requests : RequestStep(q)
         \/ \E r \in Retained : TaskStep(r)
         \/ ServerStep
         \/ UNCHANGED vars
BY DEF Next, LineStep, RequestStep, TaskStep, ServerStep

-----------------------------------------------------------------------------
(* Types, and who owns an id.                                              *)

(***************************************************************************)
(* A transport task runs a request with an id; it is in the table of ids   *)
(* under that id from its first await to its end, and only meanwhile can a *)
(* client's cancellation have marked it.                                   *)
(***************************************************************************)
Active(q) == phase[q] \in {"calling", "waiting"}

IdsOwned ==
  /\ \A q \in Requests : phase[q] # "idle" => message[q] \in Messages /\ message[q].id \in Ids
  /\ \A i \in Ids, q \in Requests :
       inFlightRequests[i] = q <=> Active(q) /\ message[q].id = i
  /\ \A q \in clientCancelled : Active(q)

Typed == TypeOK /\ IdsOwned

(* 0 is neither a request nor a task. *)
LEMMA Numbers ==
  /\ \A q \in Requests : q \in Nat /\ q # 0
  /\ \A r \in Retained : r \in Nat /\ r # 0
BY SessionAssumption

(* Nothing has been read yet. *)
LEMMA TypedInit == Init => Typed
<1> SUFFICES ASSUME Init PROVE Typed
  OBVIOUS
<1>1. TypeOK
  BY DEF Init, TypeOK
<1>2. IdsOwned
  BY Numbers DEF Init, IdsOwned, Active
<1> QED BY <1>1, <1>2 DEF Typed

(* The end of a reader's iteration. *)
LEMMA ProceedsTypes ==
  ASSUME TypeOK, NEW b \in BOOLEAN, NEW c \in SUBSET Requests, Proceeds(b, c)
  PROVE  /\ mode' \in {"reading", "failing"} /\ failed' \in BOOLEAN
         /\ cancelling' \in SUBSET Requests
BY DEF Proceeds, TypeOK

(* Whom a cancellation names is active. *)
LEMMA OwnerTypes ==
  ASSUME Typed, NEW m
  PROVE  OwnerOf(m) \in SUBSET Requests /\ \A q \in OwnerOf(m) : Active(q)
BY DEF OwnerOf, Typed, TypeOK, IdsOwned

(* The handshake keeps the session's type. *)
LEMMA SessionTypes ==
  ASSUME TypeOK, NEW m
  PROVE  NextSession(m) \in [modern : BOOLEAN, responded : BOOLEAN, initialized : BOOLEAN,
                             version : {"none", "tasks", "older"}]
BY DEF NextSession, TypeOK

(* The reader's steps. *)
LEMMA TypedLine ==
  ASSUME Typed, NEW m \in Messages, LineStep(m)
  PROVE  Typed'
<1> USE DEF transport, tracking, store, reader
<1>1. CASE Drops(m) \/ IsBusy(m)
  <2>1. /\ Takes(m) /\ Proceeds(WriteFails, cancelling)
        /\ UNCHANGED <<session, pipe, transport, inFlightRequests, clientCancelled,
                       named, activeTokens, store>>
    BY <1>1 DEF Drops, IsBusy
  <2>2. /\ mode' \in {"reading", "failing"} /\ failed' \in BOOLEAN
        /\ cancelling' \in SUBSET Requests
    BY <2>1, ProceedsTypes DEF Typed, TypeOK, WriteFails
  <2>3. TypeOK'
    BY <2>1, <2>2 DEF Typed, TypeOK, Takes, Live, Running
  <2>4. IdsOwned'
    BY <2>1 DEF Typed, IdsOwned, Active
  <2> QED BY <2>3, <2>4 DEF Typed
<1>2. CASE CancelsRequest(m)
  <2>1. OwnerOf(m) \in SUBSET Requests /\ \A q \in OwnerOf(m) : Active(q)
    BY OwnerTypes
  <2>2. /\ mode' \in {"reading", "failing"} /\ failed' \in BOOLEAN
        /\ cancelling' \in SUBSET Requests
    BY <1>2, <2>1, ProceedsTypes DEF Typed, TypeOK, CancelsRequest
  <2>3. TypeOK'
    BY <1>2, <2>1, <2>2 DEF Typed, TypeOK, CancelsRequest, Takes, Live, Running, Active
  <2>4. IdsOwned'
    BY <1>2, <2>1 DEF Typed, IdsOwned, CancelsRequest, Active
  <2> QED BY <2>3, <2>4 DEF Typed
<1>3. CASE HandlesInLine(m)
  <2>1. /\ mode' \in {"reading", "failing"} /\ failed' \in BOOLEAN
        /\ cancelling' \in SUBSET Requests
    BY <1>3, ProceedsTypes DEF Typed, TypeOK, HandlesInLine, WriteFails
  <2>2. session' \in [modern : BOOLEAN, responded : BOOLEAN, initialized : BOOLEAN,
                      version : {"none", "tasks", "older"}]
    BY <1>3, SessionTypes DEF HandlesInLine, Typed
  <2>3. /\ run' = run /\ kept' = kept /\ token' = token
        /\ settled' \in SUBSET Retained /\ stopping' \in SUBSET Running
    <3>1. CASE CancelsRetained(m)
      BY <3>1, CancelTaskRoute DEF CancelsRetained, Typed, TypeOK
    <3>2. CASE UNCHANGED store
      BY <3>2 DEF Typed, TypeOK
    <3> QED BY <1>3, <3>1, <3>2 DEF HandlesInLine
  <2>4. TypeOK'
    BY <1>3, <2>1, <2>2, <2>3 DEF Typed, TypeOK, HandlesInLine, Takes, Live, Running
  <2>5. IdsOwned'
    BY <1>3 DEF HandlesInLine, Typed, IdsOwned, Active
  <2> QED BY <2>4, <2>5 DEF Typed
<1>4. CASE Admits(m)
  <2>1. PICK q \in Requests : /\ phase[q] = "idle"
                              /\ phase' = [phase EXCEPT ![q] = "created"]
                              /\ message' = [message EXCEPT ![q] = m]
    BY <1>4 DEF Admits, IsNext
  <2>2. m.id \in Ids
    BY <1>4, SessionAssumption DEF Admits, IsConcurrent, Ids
  <2>3. \A p \in Requests : Live(p) => Live(p)'
    BY <2>1 DEF Live, Typed, TypeOK
  <2>4. TypeOK'
    BY <1>4, <2>1, <2>3 DEF Typed, TypeOK, Admits, Takes, Running
  <2>5. IdsOwned'
    BY <1>4, <2>1, <2>2 DEF Admits, Typed, TypeOK, IdsOwned, Active
  <2> QED BY <2>4, <2>5 DEF Typed
<1> QED BY <1>1, <1>2, <1>3, <1>4 DEF LineStep

(* A request that ends leaves the table of ids, if it was in it. *)
LEMMA TypedEnds ==
  ASSUME Typed, NEW q \in Requests, Live(q),
         NEW how \in {"answered", "silent", "cancelled", "failed"}, Ends(q, how),
         inFlightRequests' = IF Active(q) THEN IdFreed(q) ELSE inFlightRequests
  PROVE  /\ phase' \in [Requests -> {"idle", "created", "calling", "waiting", "done", "gone"}]
         /\ outcome' \in [Requests -> {"none", "answered", "silent", "cancelled", "failed"}]
         /\ inFlightRequests' \in [Ids -> Requests \cup {0}]
         /\ clientCancelled' \subseteq {p \in Requests : Live(p)}'
         /\ cancelling' \subseteq Requests
         /\ IdsOwned'
<1>1. /\ phase' = [phase EXCEPT ![q] = "done"]
      /\ outcome' = [outcome EXCEPT ![q] = how]
      /\ cancelling' = cancelling \ {q} /\ clientCancelled' = clientCancelled \ {q}
      /\ message' = message
  BY DEF Ends
<1>2. /\ phase' \in [Requests -> {"idle", "created", "calling", "waiting", "done", "gone"}]
      /\ outcome' \in [Requests -> {"none", "answered", "silent", "cancelled", "failed"}]
      /\ cancelling' \subseteq Requests
      /\ \A p \in Requests \ {q} : phase'[p] = phase[p]
      /\ phase'[q] = "done"
  BY <1>1 DEF Typed, TypeOK
<1>3. inFlightRequests' \in [Ids -> Requests \cup {0}]
  BY DEF Typed, TypeOK, IdFreed
<1>4. clientCancelled' \subseteq {p \in Requests : Live(p)}'
  BY <1>1, <1>2 DEF Typed, TypeOK, Live
<1>5. IdsOwned'
  <2>1. \A p \in Requests : phase'[p] # "idle" => message'[p] \in Messages /\ message'[p].id \in Ids
    BY <1>1, <1>2 DEF Typed, IdsOwned, Live
  <2>2. ASSUME NEW i \in Ids, NEW p \in Requests
        PROVE  inFlightRequests'[i] = p <=> Active(p)' /\ message'[p].id = i
    <3>1. inFlightRequests'[i] = IF inFlightRequests[i] = q THEN 0 ELSE inFlightRequests[i]
      <4>1. CASE Active(q)
        BY <4>1 DEF IdFreed
      <4>2. CASE ~Active(q)
        BY <4>2 DEF Typed, IdsOwned
      <4> QED BY <4>1, <4>2
    <3> QED BY <1>1, <1>2, <3>1, Numbers DEF Typed, IdsOwned, Active
  <2>3. \A p \in clientCancelled' : Active(p)'
    BY <1>1, <1>2 DEF Typed, TypeOK, IdsOwned, Active
  <2> QED BY <2>1, <2>2, <2>3 DEF IdsOwned
<1> QED BY <1>2, <1>3, <1>4, <1>5

(* A request that starts enters the table under its id, which was free. *)
LEMMA TypedEnters ==
  ASSUME Typed, NEW q \in Requests, NEW p \in {"calling", "waiting"},
         phase[q] = "created", IdIsFree(message[q]), Enters(q, p)
  PROVE  /\ phase' \in [Requests -> {"idle", "created", "calling", "waiting", "done", "gone"}]
         /\ inFlightRequests' \in [Ids -> Requests \cup {0}]
         /\ clientCancelled' \subseteq {s \in Requests : Live(s)}'
         /\ IdsOwned'
<1>1. /\ phase' = [phase EXCEPT ![q] = p]
      /\ inFlightRequests' = [inFlightRequests EXCEPT ![message[q].id] = q]
      /\ message' = message /\ clientCancelled' = clientCancelled
  BY DEF Enters
<1>2. message[q] \in Messages /\ message[q].id \in Ids
  BY DEF Typed, IdsOwned
<1>3. /\ phase' \in [Requests -> {"idle", "created", "calling", "waiting", "done", "gone"}]
      /\ \A s \in Requests \ {q} : phase'[s] = phase[s]
      /\ phase'[q] \in {"calling", "waiting"}
  BY <1>1 DEF Typed, TypeOK
<1>4. inFlightRequests' \in [Ids -> Requests \cup {0}]
  BY <1>1 DEF Typed, TypeOK
<1>5. clientCancelled' \subseteq {s \in Requests : Live(s)}'
  BY <1>1, <1>3 DEF Typed, TypeOK, Live
<1>6. IdsOwned'
  <2>1. \A s \in Requests : phase'[s] # "idle" => message'[s] \in Messages /\ message'[s].id \in Ids
    BY <1>1, <1>2, <1>3 DEF Typed, IdsOwned
  <2>2. ASSUME NEW i \in Ids, NEW s \in Requests
        PROVE  inFlightRequests'[i] = s <=> Active(s)' /\ message'[s].id = i
    <3>1. inFlightRequests'[i] = IF i = message[q].id THEN q ELSE inFlightRequests[i]
      BY <1>1, <1>2 DEF Typed, TypeOK
    <3>2. Active(q)' /\ ~Active(q) /\ (s # q => (Active(s)' <=> Active(s)))
      BY <1>3 DEF Active
    <3>3. inFlightRequests[message[q].id] # s
      BY Numbers DEF IdIsFree
    <3> QED BY <1>1, <1>2, <3>1, <3>2, <3>3 DEF Typed, IdsOwned
  <2>3. \A s \in clientCancelled' : Active(s)'
    BY <1>1, <1>3 DEF Typed, TypeOK, IdsOwned, Active
  <2> QED BY <2>1, <2>2, <2>3 DEF IdsOwned
<1> QED BY <1>3, <1>4, <1>5, <1>6

(* The steps of a transport task. *)
LEMMA TypedRequest ==
  ASSUME Typed, NEW q \in Requests, RequestStep(q)
  PROVE  Typed'
<1> USE DEF transport, tracking, store, reader
<1>0. Answer \in {"answered", "failed"} /\ Silence(q) \in {"silent", "cancelled"}
  BY DEF Answer, Silence
<1>1. CASE RequestFinished(q)
  <2>1. /\ phase[q] = "done" /\ phase' = [phase EXCEPT ![q] = "gone"]
        /\ taskErrors' \in Nat /\ cancelling' \subseteq Requests
        /\ \A p \in Requests : Live(p)' <=> Live(p)
    BY <1>1 DEF RequestFinished, Siblings, Live, Typed, TypeOK
  <2>2. TypeOK'
    BY <1>1, <2>1 DEF RequestFinished, Typed, TypeOK, Running
  <2>3. IdsOwned'
    BY <1>1, <2>1 DEF RequestFinished, Typed, TypeOK, IdsOwned, Active
  <2> QED BY <2>2, <2>3 DEF Typed
<1>2. ASSUME NEW how \in {"answered", "silent", "cancelled", "failed"}, Ends(q, how), Live(q),
             inFlightRequests' = IF Active(q) THEN IdFreed(q) ELSE inFlightRequests,
             NextSession(message[q]) = session' \/ UNCHANGED session,
             activeTokens' \subseteq activeTokens, UNCHANGED store
      PROVE  Typed'
  <2>1. session' \in [modern : BOOLEAN, responded : BOOLEAN, initialized : BOOLEAN,
                      version : {"none", "tasks", "older"}]
    BY <1>2, SessionTypes DEF Typed, TypeOK
  <2>2. TypeOK'
    BY <1>2, <2>1, TypedEnds DEF Ends, Typed, TypeOK, Running
  <2> QED BY <1>2, <2>2, TypedEnds DEF Typed
<1>3. CASE NeverStarts(q) \/ Refuses(q)
  <2>1. phase[q] = "created" /\ Live(q) /\ ~Active(q)
    BY <1>3 DEF NeverStarts, Refuses, Started, Live, Active
  <2> QED BY <1>0, <1>2, <1>3, <2>1 DEF NeverStarts, Refuses
<1>4. CASE CallEnds(q) \/ ProgressFails(q) \/ WaitEnds(q) \/ Cancelled(q)
  <2>1. Live(q) /\ Active(q)
    BY <1>4 DEF CallEnds, ProgressFails, WaitEnds, Cancelled, Live, Active
  <2>2. TokenFreed(q) \subseteq activeTokens
    BY DEF TokenFreed
  <2> QED BY <1>0, <1>2, <1>4, <2>1, <2>2 DEF CallEnds, ProgressFails, WaitEnds, Cancelled
<1>5. CASE CallStarts(q)
  <2>1. phase[q] = "created" /\ IdIsFree(message[q]) /\ Enters(q, "calling")
    BY <1>5 DEF CallStarts, Started, Tracked
  <2>2. /\ phase' \in [Requests -> {"idle", "created", "calling", "waiting", "done", "gone"}]
        /\ inFlightRequests' \in [Ids -> Requests \cup {0}]
        /\ clientCancelled' \subseteq {s \in Requests : Live(s)}'
        /\ IdsOwned'
    BY <2>1, TypedEnters
  <2>3. session' \in [modern : BOOLEAN, responded : BOOLEAN, initialized : BOOLEAN,
                      version : {"none", "tasks", "older"}]
    BY <1>5, SessionTypes DEF CallStarts, Typed
  <2>4. activeTokens' \subseteq Tokens
    <3>1. message[q] \in Messages
      BY <2>1 DEF Typed, IdsOwned
    <3> QED BY <1>5, <3>1 DEF CallStarts, Tokens, Typed, TypeOK
  <2>5. TypeOK'
    BY <1>5, <2>1, <2>2, <2>3, <2>4 DEF CallStarts, Enters, Typed, TypeOK, Running
  <2> QED BY <2>2, <2>5 DEF Typed
<1>6. CASE WaitStarts(q)
  <2>1. phase[q] = "created" /\ IdIsFree(message[q]) /\ Enters(q, "waiting")
    BY <1>6 DEF WaitStarts, Started, Tracked
  <2>2. /\ phase' \in [Requests -> {"idle", "created", "calling", "waiting", "done", "gone"}]
        /\ inFlightRequests' \in [Ids -> Requests \cup {0}]
        /\ clientCancelled' \subseteq {s \in Requests : Live(s)}'
        /\ IdsOwned'
    BY <2>1, TypedEnters
  <2>3. TypeOK'
    BY <1>6, <2>1, <2>2 DEF WaitStarts, Enters, Typed, TypeOK, Running
  <2> QED BY <2>2, <2>3 DEF Typed
<1>7. CASE Retains(q)
  <2>1. PICK r \in Retained : /\ run[r] = "none"
                              /\ run' = [run EXCEPT ![r] = "created"]
                              /\ kept' = kept \cup {r}
                              /\ token' = [token EXCEPT ![r] = message[q].token]
    BY <1>7 DEF Retains, IsNext
  <2>2. phase[q] = "created" /\ Live(q) /\ ~Active(q) /\ message[q] \in Messages
    BY <1>7 DEF Retains, Started, Live, Active, Typed, IdsOwned
  <2>3. message[q].token \in Tokens \cup {NoToken}
    BY <2>2 DEF Tokens
  <2>4. /\ run' \in [Retained -> {"none", "created", "calling", "ended"}]
        /\ kept' \subseteq Retained /\ token' \in [Retained -> Tokens \cup {NoToken}]
        /\ Running \subseteq Running'
    BY <2>1, <2>3 DEF Typed, TypeOK, Running
  <2>5. /\ phase' \in [Requests -> {"idle", "created", "calling", "waiting", "done", "gone"}]
        /\ outcome' \in [Requests -> {"none", "answered", "silent", "cancelled", "failed"}]
        /\ inFlightRequests' \in [Ids -> Requests \cup {0}]
        /\ clientCancelled' \subseteq {p \in Requests : Live(p)}'
        /\ cancelling' \subseteq Requests
        /\ IdsOwned'
    BY <1>0, <1>7, <2>2, TypedEnds DEF Retains
  <2>6. TypeOK'
    BY <1>7, <2>4, <2>5 DEF Retains, Ends, Typed, TypeOK
  <2> QED BY <2>5, <2>6 DEF Typed
<1> QED BY <1>1, <1>3, <1>4, <1>5, <1>6, <1>7 DEF RequestStep

(* The steps of a retained task's execution. *)
LEMMA TypedTask ==
  ASSUME Typed, NEW r \in Retained, TaskStep(r)
  PROVE  Typed'
<1> USE DEF transport, tracking, store, reader
<1>1. /\ UNCHANGED <<session, reader, pipe, transport, tracking>> /\ token' = token
      /\ run' \in [Retained -> {"none", "created", "calling", "ended"}]
      /\ kept' \subseteq Retained /\ settled' \subseteq Retained /\ stopping' \subseteq Running'
      /\ activeTokens' \subseteq Tokens
  <2>1. CASE RunStarts(r)
    BY <2>1 DEF RunStarts, Typed, TypeOK, Running
  <2>2. CASE RunRefused(r) \/ NeverRuns(r) \/ RunEnds(r)
    BY <2>2 DEF RunRefused, NeverRuns, RunEnds, RunOver, Typed, TypeOK, Running
  <2>3. CASE Expires(r)
    BY <2>3 DEF Expires, Typed, TypeOK, Running
  <2> QED BY <2>1, <2>2, <2>3 DEF TaskStep
<1>2. TypeOK'
  BY <1>1 DEF Typed, TypeOK, Live
<1>3. IdsOwned'
  BY <1>1 DEF Typed, IdsOwned, Active
<1> QED BY <1>2, <1>3 DEF Typed

(* The steps of serve_stdio after the input, and of the world around it. *)
LEMMA TypedServer ==
  ASSUME Typed, ServerStep
  PROVE  Typed'
<1> USE DEF transport, tracking, store, reader
<1>1. /\ UNCHANGED <<session, line, late, transport, inFlightRequests, clientCancelled,
                     named, activeTokens, run, settled, token>>
      /\ mode' \in {"reading", "yielding", "draining", "failing", "closing", "returned"}
      /\ failed' \in BOOLEAN /\ pipe' \in {"open", "broken"}
      /\ cancelling' \subseteq Requests
      /\ kept' \subseteq Retained /\ stopping' \subseteq Running
  <2>1. CASE Resumes \/ HostCancels
    BY <2>1, ProceedsTypes DEF Resumes, HostCancels, Typed, TypeOK
  <2>2. CASE EndOfInput
    BY <2>2, ProceedsTypes DEF EndOfInput, Typed, TypeOK
  <2>3. CASE Drained \/ Joined \/ CloseStore \/ Returns \/ PipeBreaks
    BY <2>3 DEF Drained, Joined, CloseStore, Returns, PipeBreaks, Typed, TypeOK
  <2> QED BY <2>1, <2>2, <2>3 DEF ServerStep, ReaderStep
<1>2. TypeOK'
  BY <1>1 DEF Typed, TypeOK, Live, Running
<1>3. IdsOwned'
  BY <1>1 DEF Typed, IdsOwned, Active
<1> QED BY <1>2, <1>3 DEF Typed

(***************************************************************************)
(* Every variable keeps its type, and an id names the one request that     *)
(* waits under it, for every script, however requests with equal ids       *)
(* overlap.                                                                *)
(***************************************************************************)
THEOREM IdsAreOwned == Spec => []Typed
<1>1. Typed /\ [Next]_vars => Typed'
  <2> SUFFICES ASSUME Typed, [Next]_vars PROVE Typed'
    OBVIOUS
  <2>1. CASE UNCHANGED vars
    BY <2>1 DEF vars, transport, tracking, store, reader, Typed, TypeOK, IdsOwned, Active,
                Live, Running
  <2> QED BY <2>1, StepCases, TypedLine, TypedRequest, TypedTask, TypedServer
<1> QED BY <1>1, TypedInit, PTL DEF Spec

-----------------------------------------------------------------------------
(* One era.                                                                *)

(* A modern session was never initialized; only a session initialized with *)
(* the version that has tasks retains any.                                 *)
Eras ==
  /\ session.modern => ModernEnabled /\ ~session.responded
  /\ session.version = "tasks" => session.responded
  /\ \A r \in Retained : run[r] # "none" => session.responded

(* A message keeps the eras apart. *)
LEMMA EraOfNext ==
  ASSUME TypeOK, Eras, NEW m
  PROVE  LET s == NextSession(m)
         IN  /\ s.modern => ModernEnabled /\ ~s.responded
             /\ s.version = "tasks" => s.responded
             /\ session.responded => s.responded
<1>1. CASE m.id = 0
  BY <1>1 DEF NextSession, TypeOK, Eras
<1>2. CASE m.id # 0 /\ IsModern(m)
  BY <1>2, AcceptedMeansModern DEF NextSession, IsModern, TypeOK, Eras
<1>3. CASE m.id # 0 /\ ~IsModern(m)
  BY <1>3 DEF NextSession, IsModern, TypeOK, Eras
<1> QED BY <1>1, <1>2, <1>3

(* OneEra for every script: no session is both modern and legacy, and a    *)
(* modern one has no retained tasks.                                       *)
THEOREM ErasDoNotMix == Spec => [](Eras /\ OneEra)
<1>1. Init => Eras
  BY DEF Init, Eras
<1>2. ASSUME Typed, Eras, [Next]_vars
      PROVE  Eras'
  <2> USE DEF transport, tracking, store, reader, Typed
  <2>1. ASSUME NEW m, session' = NextSession(m), run' = run
        PROVE  Eras'
    BY <1>2, <2>1, EraOfNext DEF Eras
  <2>2. ASSUME UNCHANGED session, \A r \in Retained : run'[r] = run[r] \/ run[r] # "none"
        PROVE  Eras'
    BY <1>2, <2>2 DEF Eras
  <2>3. ASSUME NEW m \in Messages, LineStep(m) PROVE Eras'
    <3>1. CASE HandlesInLine(m)
      BY <2>1, <3>1 DEF HandlesInLine, CancelsRetained
    <3>2. CASE ~HandlesInLine(m)
      BY <2>2, <2>3, <3>2 DEF LineStep, Drops, CancelsRequest, IsBusy, Admits
    <3> QED BY <3>1, <3>2
  <2>4. ASSUME NEW q \in Requests, RequestStep(q) PROVE Eras'
    <3>1. CASE Refuses(q) \/ CallStarts(q)
      BY <2>1, <3>1 DEF Refuses, CallStarts
    <3>2. CASE Retains(q)
      <4>1. session.responded
        BY <1>2, <3>2, PlansOfCalls DEF Retains, TasksAvailable, Eras
      <4> QED BY <1>2, <3>2, <4>1 DEF Retains, Eras
    <3>3. CASE ~Refuses(q) /\ ~CallStarts(q) /\ ~Retains(q)
      BY <2>2, <2>4, <3>3 DEF RequestStep, NeverStarts, WaitStarts, CallEnds, ProgressFails,
                              WaitEnds, Cancelled, RequestFinished
    <3> QED BY <3>1, <3>2, <3>3
  <2>5. ASSUME NEW r \in Retained, TaskStep(r) PROVE Eras'
    BY <1>2, <2>2, <2>5 DEF TaskStep, RunStarts, RunRefused, NeverRuns, RunEnds, RunOver,
                            Expires, TypeOK
  <2>6. CASE ServerStep
    BY <2>2, <2>6 DEF ServerStep, ReaderStep, EndOfInput, HostCancels, PipeBreaks, Resumes,
                      Drained, Joined, CloseStore, Returns
  <2>7. CASE UNCHANGED vars
    BY <2>2, <2>7 DEF vars
  <2> QED BY <1>2, <2>3, <2>4, <2>5, <2>6, <2>7, StepCases
<1>3. Eras => OneEra
  BY DEF Eras, OneEra
<1> QED BY <1>1, <1>2, <1>3, IdsAreOwned, PTL DEF Spec

-----------------------------------------------------------------------------
(* Who reports under a progress token.                                     *)

ReportingCalls == {q \in Requests : phase[q] = "calling" /\ message[q].token # NoToken}
ReportingTasks == {r \in Retained : run[r] = "calling" /\ token[r] # NoToken}

(***************************************************************************)
(* The active tokens are those of the calls and tasks that report, and no  *)
(* two of them share one: so there are as many tokens as reporters.        *)
(***************************************************************************)
TokensOwned ==
  /\ activeTokens = {message[q].token : q \in ReportingCalls}
                      \cup {token[r] : r \in ReportingTasks}
  /\ \A p, q \in ReportingCalls : message[p].token = message[q].token => p = q
  /\ \A r, s \in ReportingTasks : token[r] = token[s] => r = s
  /\ \A q \in ReportingCalls, r \in ReportingTasks : message[q].token # token[r]
  /\ IsFiniteSet(activeTokens)
  /\ Cardinality(activeTokens) = Cardinality(ReportingCalls) + Cardinality(ReportingTasks)

(* There are finitely many reporters. *)
LEMMA ReportersAreFinite ==
  /\ IsFiniteSet(ReportingCalls) /\ IsFiniteSet(ReportingTasks)
  /\ Cardinality(ReportingCalls) \in Nat /\ Cardinality(ReportingTasks) \in Nat
<1>1. IsFiniteSet(ReportingCalls) /\ IsFiniteSet(ReportingTasks)
  BY SessionAssumption, FS_Subset DEF ReportingCalls, ReportingTasks
<1> QED BY <1>1, FS_CardinalityType

(* No reporter begins or ends. *)
LEMMA TokensSame ==
  ASSUME TokensOwned, activeTokens' = activeTokens,
         ReportingCalls' = ReportingCalls, ReportingTasks' = ReportingTasks,
         \A q \in ReportingCalls : message'[q] = message[q],
         \A r \in ReportingTasks : token'[r] = token[r]
  PROVE  TokensOwned'
<1>1. /\ {message[q].token : q \in ReportingCalls}' = {message[q].token : q \in ReportingCalls}
      /\ {token[r] : r \in ReportingTasks}' = {token[r] : r \in ReportingTasks}
  OBVIOUS
<1> QED BY <1>1 DEF TokensOwned

(* A reporter begins with a token that is not active. *)
LEMMA CallTakesToken ==
  ASSUME TokensOwned, NEW q \in Requests, q \notin ReportingCalls,
         ReportingCalls' = ReportingCalls \cup {q}, ReportingTasks' = ReportingTasks,
         message' = message, token' = token,
         message[q].token \notin activeTokens,
         activeTokens' = activeTokens \cup {message[q].token}
  PROVE  TokensOwned'
<1>1. /\ activeTokens' = {message[p].token : p \in ReportingCalls \cup {q}}
                           \cup {token[r] : r \in ReportingTasks}
      /\ \A p \in ReportingCalls : message[p].token # message[q].token
      /\ \A r \in ReportingTasks : token[r] # message[q].token
  BY DEF TokensOwned
<1>2. IsFiniteSet(activeTokens') /\ Cardinality(activeTokens') = Cardinality(activeTokens) + 1
  BY FS_AddElement DEF TokensOwned
<1>3. Cardinality(ReportingCalls') = Cardinality(ReportingCalls) + 1
  BY ReportersAreFinite, FS_AddElement
<1>4. Cardinality(activeTokens') = Cardinality(ReportingCalls') + Cardinality(ReportingTasks')
  BY <1>2, <1>3, ReportersAreFinite DEF TokensOwned
<1> QED BY <1>1, <1>2, <1>4 DEF TokensOwned

(* The same for a retained task. *)
LEMMA TaskTakesToken ==
  ASSUME TokensOwned, NEW r \in Retained, r \notin ReportingTasks,
         ReportingTasks' = ReportingTasks \cup {r}, ReportingCalls' = ReportingCalls,
         message' = message, token' = token,
         token[r] \notin activeTokens,
         activeTokens' = activeTokens \cup {token[r]}
  PROVE  TokensOwned'
<1>1. /\ activeTokens' = {message[p].token : p \in ReportingCalls}
                           \cup {token[s] : s \in ReportingTasks \cup {r}}
      /\ \A p \in ReportingCalls : message[p].token # token[r]
      /\ \A s \in ReportingTasks : token[s] # token[r]
  BY DEF TokensOwned
<1>2. IsFiniteSet(activeTokens') /\ Cardinality(activeTokens') = Cardinality(activeTokens) + 1
  BY FS_AddElement DEF TokensOwned
<1>3. Cardinality(ReportingTasks') = Cardinality(ReportingTasks) + 1
  BY ReportersAreFinite, FS_AddElement
<1>4. Cardinality(activeTokens') = Cardinality(ReportingCalls') + Cardinality(ReportingTasks')
  BY <1>2, <1>3, ReportersAreFinite DEF TokensOwned
<1> QED BY <1>1, <1>2, <1>4 DEF TokensOwned

(* A reporter that ends takes its own token along, and nobody else's. *)
LEMMA CallFreesToken ==
  ASSUME TokensOwned, NEW q \in ReportingCalls,
         ReportingCalls' = ReportingCalls \ {q}, ReportingTasks' = ReportingTasks,
         message' = message, token' = token, activeTokens' = TokenFreed(q)
  PROVE  TokensOwned'
<1>1. /\ activeTokens' = activeTokens \ {message[q].token} /\ message[q].token \in activeTokens
      /\ \A p \in ReportingCalls \ {q} : message[p].token # message[q].token
      /\ \A r \in ReportingTasks : token[r] # message[q].token
  BY DEF TokensOwned, TokenFreed
<1>2. activeTokens' = {message[p].token : p \in ReportingCalls \ {q}}
                        \cup {token[r] : r \in ReportingTasks}
  BY <1>1 DEF TokensOwned
<1>3. IsFiniteSet(activeTokens') /\ Cardinality(activeTokens') = Cardinality(activeTokens) - 1
  <2>1. IsFiniteSet(activeTokens)
    BY DEF TokensOwned
  <2> QED BY <1>1, <2>1, FS_RemoveElement
<1>4. Cardinality(ReportingCalls') = Cardinality(ReportingCalls) - 1
  BY ReportersAreFinite, FS_RemoveElement
<1>5. Cardinality(activeTokens') = Cardinality(ReportingCalls') + Cardinality(ReportingTasks')
  BY <1>3, <1>4, ReportersAreFinite DEF TokensOwned
<1> QED BY <1>2, <1>3, <1>5 DEF TokensOwned

(* The same for a retained task. *)
LEMMA TaskFreesToken ==
  ASSUME TokensOwned, NEW r \in ReportingTasks,
         ReportingTasks' = ReportingTasks \ {r}, ReportingCalls' = ReportingCalls,
         message' = message, token' = token, activeTokens' = activeTokens \ {token[r]}
  PROVE  TokensOwned'
<1>1. /\ token[r] \in activeTokens
      /\ \A p \in ReportingCalls : message[p].token # token[r]
      /\ \A s \in ReportingTasks \ {r} : token[s] # token[r]
  BY DEF TokensOwned
<1>2. activeTokens' = {message[p].token : p \in ReportingCalls}
                        \cup {token[s] : s \in ReportingTasks \ {r}}
  BY <1>1 DEF TokensOwned
<1>3. IsFiniteSet(activeTokens') /\ Cardinality(activeTokens') = Cardinality(activeTokens) - 1
  <2>1. IsFiniteSet(activeTokens)
    BY DEF TokensOwned
  <2> QED BY <1>1, <2>1, FS_RemoveElement
<1>4. Cardinality(ReportingTasks') = Cardinality(ReportingTasks) - 1
  BY ReportersAreFinite, FS_RemoveElement
<1>5. Cardinality(activeTokens') = Cardinality(ReportingCalls') + Cardinality(ReportingTasks')
  BY <1>3, <1>4, ReportersAreFinite DEF TokensOwned
<1> QED BY <1>2, <1>3, <1>5 DEF TokensOwned

(* At first nobody reports. *)
LEMMA TokensInit == Init => TokensOwned
<1> SUFFICES ASSUME Init PROVE TokensOwned
  OBVIOUS
<1>1. ReportingCalls = {} /\ ReportingTasks = {} /\ activeTokens = {}
  BY DEF Init, ReportingCalls, ReportingTasks
<1>2. IsFiniteSet({}) /\ Cardinality({}) = 0
  BY FS_EmptySet
<1> QED BY <1>1, <1>2 DEF TokensOwned

(* A request takes a free token when its call starts and frees it when the *)
(* call ends.                                                              *)
LEMMA TokensRequest ==
  ASSUME Typed, TokensOwned, NEW q \in Requests, RequestStep(q)
  PROVE  TokensOwned'
<1> USE DEF transport, tracking, store, reader, Typed
<1>1. CASE CallStarts(q)
  <2>1. /\ phase[q] = "created" /\ phase' = [phase EXCEPT ![q] = "calling"]
        /\ message' = message /\ UNCHANGED store
        /\ activeTokens' = activeTokens \cup ({message[q].token} \ {NoToken})
        /\ TokenFree(message[q].token)
    BY <1>1, PlansOfCalls DEF CallStarts, Started, Enters
  <2>2. ReportingTasks' = ReportingTasks /\ q \notin ReportingCalls
    BY <2>1 DEF ReportingTasks, ReportingCalls
  <2>3. CASE message[q].token = NoToken
    <3>1. ReportingCalls' = ReportingCalls /\ activeTokens' = activeTokens
      BY <2>1, <2>3 DEF ReportingCalls, TypeOK
    <3> QED BY <2>1, <2>2, <3>1, TokensSame
  <2>4. CASE message[q].token # NoToken
    <3>1. ReportingCalls' = ReportingCalls \cup {q}
      BY <2>1, <2>4 DEF ReportingCalls, TypeOK
    <3>2. /\ message[q].token \notin activeTokens
          /\ activeTokens' = activeTokens \cup {message[q].token}
      BY <2>1, <2>4 DEF TokenFree
    <3> QED BY <2>1, <2>2, <3>1, <3>2, CallTakesToken
  <2> QED BY <2>3, <2>4
<1>2. ASSUME phase[q] = "calling", phase' = [phase EXCEPT ![q] = "done"], message' = message,
             UNCHANGED store, activeTokens' = TokenFreed(q)
      PROVE  TokensOwned'
  <2>1. ReportingTasks' = ReportingTasks
    BY <1>2 DEF ReportingTasks
  <2>2. CASE message[q].token = NoToken
    <3>1. ReportingCalls' = ReportingCalls
      BY <1>2, <2>2 DEF ReportingCalls, TypeOK
    <3>2. activeTokens' = activeTokens
      BY <1>2, <2>2 DEF TokenFreed, TypeOK, Tokens
    <3> QED BY <1>2, <2>1, <3>1, <3>2, TokensSame
  <2>3. CASE message[q].token # NoToken
    <3>1. q \in ReportingCalls /\ ReportingCalls' = ReportingCalls \ {q}
      BY <1>2, <2>3 DEF ReportingCalls, TypeOK
    <3> QED BY <1>2, <2>1, <3>1, CallFreesToken
  <2> QED BY <2>2, <2>3
<1>3. CASE CallEnds(q) \/ ProgressFails(q) \/ (Cancelled(q) /\ phase[q] = "calling")
  BY <1>2, <1>3 DEF CallEnds, ProgressFails, Cancelled, Ends
<1>4. ASSUME phase[q] # "calling", phase'[q] # "calling",
             \A p \in Requests \ {q} : phase'[p] = phase[p], message' = message,
             activeTokens' = activeTokens,
             \A r \in Retained : (run'[r] = "calling") <=> (run[r] = "calling"),
             \A r \in Retained : run[r] = "calling" => token'[r] = token[r]
      PROVE  TokensOwned'
  <2>1. ReportingCalls' = ReportingCalls
    BY <1>4 DEF ReportingCalls
  <2>2. ReportingTasks' = ReportingTasks /\ \A r \in ReportingTasks : token'[r] = token[r]
    BY <1>4 DEF ReportingTasks
  <2> QED BY <1>4, <2>1, <2>2, TokensSame
<1>5. CASE Retains(q)
  BY <1>4, <1>5 DEF Retains, Started, IsNext, Ends, TypeOK
<1>6. CASE \/ NeverStarts(q) \/ Refuses(q) \/ WaitEnds(q)
           \/ (Cancelled(q) /\ phase[q] # "calling")
  BY <1>4, <1>6 DEF NeverStarts, Refuses, Started, WaitEnds, Cancelled, Ends, TypeOK
<1>7. CASE WaitStarts(q) \/ RequestFinished(q)
  BY <1>4, <1>7 DEF WaitStarts, Started, Enters, RequestFinished, TypeOK
<1> QED BY <1>1, <1>3, <1>5, <1>6, <1>7 DEF RequestStep

(* So does the execution of a retained task. *)
LEMMA TokensTask ==
  ASSUME Typed, TokensOwned, NEW r \in Retained, TaskStep(r)
  PROVE  TokensOwned'
<1> USE DEF transport, tracking, store, reader, Typed
<1>0. /\ phase' = phase /\ message' = message /\ token' = token
      /\ ReportingCalls' = ReportingCalls
  BY DEF TaskStep, RunStarts, RunRefused, NeverRuns, RunEnds, RunOver, Expires, ReportingCalls
<1>1. CASE RunStarts(r)
  <2>1. /\ run[r] = "created" /\ run' = [run EXCEPT ![r] = "calling"]
        /\ activeTokens' = activeTokens \cup ({token[r]} \ {NoToken})
        /\ TokenFree(token[r])
    BY <1>1 DEF RunStarts
  <2>2. r \notin ReportingTasks
    BY <2>1 DEF ReportingTasks
  <2>3. CASE token[r] = NoToken
    <3>1. ReportingTasks' = ReportingTasks /\ activeTokens' = activeTokens
      BY <1>0, <2>1, <2>3 DEF ReportingTasks, TypeOK
    <3> QED BY <1>0, <3>1, TokensSame
  <2>4. CASE token[r] # NoToken
    <3>1. ReportingTasks' = ReportingTasks \cup {r}
      BY <1>0, <2>1, <2>4 DEF ReportingTasks, TypeOK
    <3>2. token[r] \notin activeTokens /\ activeTokens' = activeTokens \cup {token[r]}
      BY <2>1, <2>4 DEF TokenFree
    <3> QED BY <1>0, <2>2, <3>1, <3>2, TaskTakesToken
  <2> QED BY <2>3, <2>4
<1>2. CASE RunEnds(r)
  <2>1. /\ run[r] = "calling" /\ run' = [run EXCEPT ![r] = "ended"]
        /\ activeTokens' = activeTokens \ {token[r]}
    BY <1>2 DEF RunEnds, RunOver
  <2>2. CASE token[r] = NoToken
    <3>1. ReportingTasks' = ReportingTasks /\ activeTokens' = activeTokens
      BY <1>0, <2>1, <2>2 DEF ReportingTasks, TypeOK, Tokens
    <3> QED BY <1>0, <3>1, TokensSame
  <2>3. CASE token[r] # NoToken
    <3>1. r \in ReportingTasks /\ ReportingTasks' = ReportingTasks \ {r}
      BY <1>0, <2>1, <2>3 DEF ReportingTasks, TypeOK
    <3> QED BY <1>0, <2>1, <3>1, TaskFreesToken
  <2> QED BY <2>2, <2>3
<1>3. CASE RunRefused(r) \/ NeverRuns(r) \/ Expires(r)
  <2>1. ReportingTasks' = ReportingTasks /\ activeTokens' = activeTokens
    BY <1>0, <1>3 DEF RunRefused, NeverRuns, RunOver, Expires, ReportingTasks, TypeOK
  <2> QED BY <1>0, <2>1, TokensSame
<1> QED BY <1>1, <1>2, <1>3 DEF TaskStep

(***************************************************************************)
(* IdsAndTokensOwned for every script, every limit and every number of     *)
(* requests and tasks.                                                     *)
(***************************************************************************)
THEOREM IdsAndTokensAreOwned == Spec => []IdsAndTokensOwned
<1>1. ASSUME Typed, TokensOwned, [Next]_vars
      PROVE  TokensOwned'
  <2> USE DEF transport, tracking, store, reader, Typed
  <2>1. ASSUME UNCHANGED <<phase, message, activeTokens, run, token>>
        PROVE  TokensOwned'
    BY <1>1, <2>1, TokensSame DEF ReportingCalls, ReportingTasks
  <2>2. ASSUME NEW m \in Messages, LineStep(m)
        PROVE  TokensOwned'
    <3>1. CASE Admits(m)
      <4>1. PICK q \in Requests : /\ phase[q] = "idle"
                                  /\ phase' = [phase EXCEPT ![q] = "created"]
                                  /\ message' = [message EXCEPT ![q] = m]
        BY <3>1 DEF Admits, IsNext
      <4>2. UNCHANGED <<activeTokens, run, token>>
        BY <3>1 DEF Admits
      <4>3. /\ ReportingCalls' = ReportingCalls
            /\ \A p \in ReportingCalls : message'[p] = message[p]
        BY <1>1, <4>1 DEF ReportingCalls, TypeOK
      <4>4. ReportingTasks' = ReportingTasks
        BY <4>2 DEF ReportingTasks
      <4> QED BY <1>1, <4>2, <4>3, <4>4, TokensSame
    <3>2. CASE ~Admits(m)
      BY <2>1, <2>2, <3>2
         DEF LineStep, Drops, CancelsRequest, HandlesInLine, CancelsRetained, IsBusy
    <3> QED BY <3>1, <3>2
  <2>3. CASE ServerStep
    BY <2>1, <2>3 DEF ServerStep, ReaderStep, EndOfInput, HostCancels, PipeBreaks, Resumes,
                      Drained, Joined, CloseStore, Returns
  <2>4. CASE UNCHANGED vars
    BY <2>1, <2>4 DEF vars
  <2> QED BY <1>1, <2>2, <2>3, <2>4, StepCases, TokensRequest, TokensTask
<1>2. Typed /\ TokensOwned /\ OneEra => IdsAndTokensOwned
  BY DEF IdsAndTokensOwned, Typed, IdsOwned, Active, TokensOwned, ReportingCalls,
         ReportingTasks
<1> QED BY <1>1, <1>2, TokensInit, IdsAreOwned, ErasDoNotMix, PTL DEF Spec

-----------------------------------------------------------------------------
(* Why a request is cancelled.                                             *)

(***************************************************************************)
(* A cancellation on its way was named by a client or has a failure behind *)
(* it; a reader that still reads has not failed, and one that fails says so. *)
(***************************************************************************)
Reasons ==
  /\ clientCancelled \subseteq named
  /\ \A q \in cancelling : q \in clientCancelled \/ taskErrors > 0 \/ failed
  /\ failed => mode \in {"failing", "closing", "returned"}
  /\ mode = "failing" => failed

(* An iteration ends with a failure that explains all cancellations, or    *)
(* leaves them as they were.                                               *)
LEMMA ReasonsOfProceeds ==
  ASSUME Typed, Reasons, NoAnswerLost, mode \in {"reading", "yielding", "draining"},
         NEW b, NEW c, Proceeds(b, c), clientCancelled' \subseteq named',
         named \subseteq named', UNCHANGED <<taskErrors, outcome>>,
         \A q \in c : q \in cancelling \/ q \in clientCancelled',
         clientCancelled \subseteq clientCancelled'
  PROVE  Reasons' /\ NoAnswerLost'
<1>1. ~failed
  BY DEF Reasons
<1>2. CASE b \/ taskErrors > 0
  <2>1. mode' = "failing" /\ failed'
    BY <1>2 DEF Proceeds
  <2> QED BY <2>1 DEF Reasons, NoAnswerLost
<1>3. CASE ~(b \/ taskErrors > 0)
  <2>1. mode' = "reading" /\ ~failed' /\ cancelling' = c
    BY <1>3 DEF Proceeds
  <2> QED BY <1>1, <1>3, <2>1 DEF Reasons, NoAnswerLost
<1> QED BY <1>2, <1>3

(* The reader's steps. *)
LEMMA ReasonsLine ==
  ASSUME Typed, Reasons, NoAnswerLost, NEW m \in Messages, LineStep(m)
  PROVE  Reasons' /\ NoAnswerLost'
<1> USE DEF transport, tracking, reader
<1>1. CASE Drops(m) \/ IsBusy(m)
  BY <1>1, ReasonsOfProceeds DEF Drops, IsBusy, Takes, Reasons
<1>2. CASE HandlesInLine(m)
  BY <1>2, ReasonsOfProceeds DEF HandlesInLine, Takes, Reasons
<1>3. CASE CancelsRequest(m)
  BY <1>3, ReasonsOfProceeds DEF CancelsRequest, Takes, Reasons
<1>4. CASE Admits(m)
  BY <1>4 DEF Admits, Takes, Reasons, NoAnswerLost
<1> QED BY <1>1, <1>2, <1>3, <1>4 DEF LineStep

(* The steps of a transport task: it ends silently only for the client. *)
LEMMA ReasonsRequest ==
  ASSUME Typed, Reasons, NoAnswerLost, NEW q \in Requests, RequestStep(q)
  PROVE  Reasons' /\ NoAnswerLost'
<1> USE DEF transport, tracking, reader
<1>1. ASSUME NEW how, Ends(q, how), how = "silent" => q \in named,
             how = "cancelled" => taskErrors > 0 \/ failed
      PROVE  Reasons' /\ NoAnswerLost'
  <2>1. /\ outcome' = [outcome EXCEPT ![q] = how]
        /\ cancelling' = cancelling \ {q} /\ clientCancelled' = clientCancelled \ {q}
        /\ UNCHANGED <<mode, failed, taskErrors, named>>
    BY <1>1 DEF Ends
  <2>2. Reasons'
    BY <2>1 DEF Reasons
  <2>3. NoAnswerLost'
    BY <1>1, <2>1 DEF NoAnswerLost, Typed, TypeOK
  <2> QED BY <2>2, <2>3
<1>2. CASE NeverStarts(q)
  <2>1. q \in cancelling /\ q \notin clientCancelled
    BY <1>2 DEF NeverStarts, Typed, IdsOwned, Active
  <2> QED BY <1>1, <1>2, <2>1 DEF NeverStarts, Reasons
<1>3. CASE Cancelled(q)
  <2>1. Silence(q) = "silent" => q \in named
    BY DEF Silence, Reasons
  <2>2. Silence(q) = "cancelled" => taskErrors > 0 \/ failed
    BY <1>3 DEF Silence, Cancelled, Reasons
  <2> QED BY <1>1, <1>3, <2>1, <2>2 DEF Cancelled
<1>4. CASE Refuses(q) \/ Retains(q) \/ CallEnds(q) \/ ProgressFails(q) \/ WaitEnds(q)
  BY <1>1, <1>4 DEF Refuses, Retains, CallEnds, ProgressFails, WaitEnds, Answer
<1>5. CASE CallStarts(q) \/ WaitStarts(q)
  BY <1>5 DEF CallStarts, WaitStarts, Enters, Reasons, NoAnswerLost
<1>6. CASE RequestFinished(q)
  <2>1. /\ UNCHANGED <<mode, failed, outcome, clientCancelled, named>>
        /\ taskErrors \in Nat /\ taskErrors' = taskErrors + (IF TaskFailed(q) THEN 1 ELSE 0)
        /\ cancelling' = cancelling \cup (IF TaskFailed(q) THEN Siblings(q) ELSE {})
    BY <1>6 DEF RequestFinished, Typed, TypeOK
  <2>2. taskErrors > 0 => taskErrors' > 0
    BY <2>1
  <2>3. cancelling' = cancelling \/ taskErrors' > 0
    BY <2>1
  <2> QED BY <2>1, <2>2, <2>3 DEF Reasons, NoAnswerLost
<1> QED BY <1>2, <1>3, <1>4, <1>5, <1>6 DEF RequestStep

(* The steps of serve_stdio after the input. *)
LEMMA ReasonsServer ==
  ASSUME Typed, Reasons, NoAnswerLost, ServerStep
  PROVE  Reasons' /\ NoAnswerLost'
<1> USE DEF transport, tracking, reader
<1>1. CASE Resumes \/ HostCancels
  BY <1>1, ReasonsOfProceeds DEF Resumes, HostCancels, Reasons
<1>2. CASE EndOfInput
  <2>1. CASE Proceeds(TRUE, cancelling)
    BY <1>2, <2>1, ReasonsOfProceeds DEF EndOfInput, Reasons
  <2>2. CASE ~Proceeds(TRUE, cancelling)
    BY <1>2, <2>2 DEF EndOfInput, Reasons, NoAnswerLost
  <2> QED BY <2>1, <2>2
<1>3. CASE Drained \/ Joined \/ CloseStore \/ Returns \/ PipeBreaks
  BY <1>3 DEF Drained, Joined, CloseStore, Returns, PipeBreaks, Reasons, NoAnswerLost
<1> QED BY <1>1, <1>2, <1>3 DEF ServerStep, ReaderStep

(***************************************************************************)
(* NoAnswerLost for every script: whoever stays without an answer was      *)
(* named by a client while it waited, or serving fails.                    *)
(***************************************************************************)
THEOREM NoAnswerIsLost == Spec => []NoAnswerLost
<1>1. Init => Reasons /\ NoAnswerLost
  BY DEF Init, Reasons, NoAnswerLost
<1>2. ASSUME Typed, Reasons, NoAnswerLost, [Next]_vars
      PROVE  Reasons' /\ NoAnswerLost'
  <2>1. ASSUME UNCHANGED <<reader, transport, tracking>>
        PROVE  Reasons' /\ NoAnswerLost'
    BY <1>2, <2>1 DEF reader, transport, tracking, Reasons, NoAnswerLost
  <2>2. ASSUME NEW r \in Retained, TaskStep(r)
        PROVE  UNCHANGED <<reader, transport, tracking>>
    BY <2>2 DEF TaskStep, RunStarts, RunRefused, NeverRuns, RunEnds, RunOver, Expires
  <2>3. CASE UNCHANGED vars
    BY <2>1, <2>3 DEF vars
  <2> QED BY <1>2, <2>1, <2>2, <2>3, StepCases, ReasonsLine, ReasonsRequest, ReasonsServer
<1> QED BY <1>1, <1>2, IdsAreOwned, PTL DEF Spec

-----------------------------------------------------------------------------
(* Failures surface, and serving ends quietly.                             *)

(***************************************************************************)
(* After a background failure the reader takes one line at most and then   *)
(* fails; a failed request has been counted once it is gone; and serving   *)
(* closes only when no request is in flight and each failure has been      *)
(* seen.                                                                   *)
(***************************************************************************)
Surfacing ==
  /\ late = 0 \/ (late = 1 /\ taskErrors > 0 /\ mode # "reading")
  /\ taskErrors > 0 /\ late = 0 => \A q \in Requests : Live(q) => q \in cancelling
  /\ \A q \in Requests : outcome[q] = "failed" =>
       phase[q] = "done" \/ (phase[q] = "gone" /\ taskErrors > 0)
  /\ mode \in {"closing", "returned"} => InFlight = {} /\ (taskErrors > 0 => failed)

(* The reader's steps: a line taken late is the last one. *)
LEMMA SurfacingLine ==
  ASSUME Typed, Reasons, Surfacing, NEW m \in Messages, LineStep(m)
  PROVE  Surfacing'
<1> USE DEF transport, tracking, reader
<1>1. /\ mode = "reading" /\ late = 0 /\ taskErrors \in Nat
      /\ late' = IF taskErrors > 0 THEN 1 ELSE 0
      /\ taskErrors' = taskErrors /\ outcome' = outcome
  <2>1. Takes(m) /\ taskErrors' = taskErrors /\ outcome' = outcome
    BY DEF LineStep, Drops, CancelsRequest, HandlesInLine, IsBusy, Admits
  <2>2. mode = "reading" /\ late = 0
    BY <2>1 DEF Takes, Surfacing
  <2> QED BY <2>1, <2>2 DEF Takes, Typed, TypeOK
<1>2. /\ mode' \in {"reading", "yielding", "failing"}
      /\ taskErrors > 0 => mode' # "reading"
  <2>1. CASE Admits(m)
    BY <2>1 DEF Admits
  <2>2. CASE ~Admits(m)
    BY <2>2 DEF LineStep, Drops, CancelsRequest, HandlesInLine, IsBusy, Proceeds
  <2> QED BY <2>1, <2>2
<1>3. \A q \in Requests : phase'[q] = phase[q] \/ phase[q] = "idle"
  <2>1. CASE Admits(m)
    BY <2>1 DEF Admits, IsNext, Typed, TypeOK
  <2>2. CASE ~Admits(m)
    BY <2>2 DEF LineStep, Drops, CancelsRequest, HandlesInLine, IsBusy
  <2> QED BY <2>1, <2>2
<1> QED BY <1>1, <1>2, <1>3 DEF Surfacing

(* The steps of a transport task: its failure is counted when it is gone. *)
LEMMA SurfacingRequest ==
  ASSUME Typed, Reasons, Surfacing, NEW q \in Requests, RequestStep(q)
  PROVE  Surfacing'
<1> USE DEF transport, tracking, reader
<1>1. /\ phase[q] \notin {"idle", "gone"}
      /\ UNCHANGED <<mode, line, late, failed>>
  BY DEF RequestStep, NeverStarts, Refuses, CallStarts, WaitStarts, Retains, CallEnds,
         ProgressFails, WaitEnds, Cancelled, RequestFinished, Started, Ends, Enters
<1>2. mode \notin {"closing", "returned"}
  BY <1>1 DEF Surfacing, InFlight
<1>3. ASSUME NEW how, Ends(q, how)
      PROVE  Surfacing'
  <2>1. /\ phase' = [phase EXCEPT ![q] = "done"] /\ outcome' = [outcome EXCEPT ![q] = how]
        /\ cancelling' = cancelling \ {q} /\ taskErrors' = taskErrors
    BY <1>3 DEF Ends
  <2>2. \A p \in Requests : Live(p)' => Live(p) /\ p # q
    BY <2>1 DEF Live, Typed, TypeOK
  <2>3. \A p \in Requests : outcome'[p] = "failed" =>
          phase'[p] = "done" \/ (phase'[p] = "gone" /\ taskErrors' > 0)
    BY <2>1 DEF Surfacing, Typed, TypeOK
  <2> QED BY <1>1, <1>2, <2>1, <2>2, <2>3 DEF Surfacing
<1>4. CASE RequestFinished(q)
  <2>1. /\ phase[q] = "done" /\ phase' = [phase EXCEPT ![q] = "gone"] /\ outcome' = outcome
        /\ taskErrors \in Nat /\ taskErrors' = taskErrors + (IF TaskFailed(q) THEN 1 ELSE 0)
        /\ cancelling' = cancelling \cup (IF TaskFailed(q) THEN Siblings(q) ELSE {})
    BY <1>4 DEF RequestFinished, Typed, TypeOK
  <2>2. \A p \in Requests : (Live(p)' <=> Live(p)) /\ ~Live(q)
    BY <2>1 DEF Live, Typed, TypeOK
  <2>3. taskErrors' >= taskErrors /\ (TaskFailed(q) => taskErrors' > 0)
    BY <2>1
  <2>4. taskErrors' > 0 /\ late' = 0 => \A p \in Requests : Live(p)' => p \in cancelling'
    <3>1. CASE TaskFailed(q)
      BY <2>1, <2>2, <3>1 DEF Siblings
    <3>2. CASE ~TaskFailed(q)
      BY <1>1, <2>1, <2>2, <3>2 DEF Surfacing
    <3> QED BY <3>1, <3>2
  <2>5. \A p \in Requests : outcome'[p] = "failed" =>
          phase'[p] = "done" \/ (phase'[p] = "gone" /\ taskErrors' > 0)
    BY <2>1, <2>3 DEF Surfacing, Typed, TypeOK, TaskFailed
  <2> QED BY <1>1, <1>2, <2>1, <2>3, <2>4, <2>5 DEF Surfacing
<1>5. CASE CallStarts(q) \/ WaitStarts(q)
  <2>1. /\ UNCHANGED <<outcome, cancelling, taskErrors>> /\ phase[q] = "created"
        /\ \E p \in {"calling", "waiting"} : phase' = [phase EXCEPT ![q] = p]
    BY <1>5 DEF CallStarts, WaitStarts, Started, Enters
  <2>2. \A p \in Requests : Live(p)' => Live(p)
    BY <2>1 DEF Live, Typed, TypeOK
  <2>3. \A p \in Requests : outcome[p] = "failed" => phase'[p] = phase[p]
    BY <2>1 DEF Surfacing, Typed, TypeOK
  <2> QED BY <1>1, <1>2, <2>1, <2>2, <2>3 DEF Surfacing
<1> QED BY <1>3, <1>4, <1>5 DEF RequestStep, NeverStarts, Refuses, Retains, CallEnds,
                                ProgressFails, WaitEnds, Cancelled

(* The steps of serve_stdio after the input. *)
LEMMA SurfacingServer ==
  ASSUME Typed, Reasons, Surfacing, ServerStep
  PROVE  Surfacing'
<1> USE DEF transport, tracking, reader
<1>1. /\ UNCHANGED <<late, phase, outcome, taskErrors>> /\ taskErrors \in Nat
      /\ InFlight' = InFlight /\ \A q \in Requests : Live(q)' <=> Live(q)
  BY DEF ServerStep, ReaderStep, EndOfInput, HostCancels, PipeBreaks, Resumes, Drained,
         Joined, CloseStore, Returns, InFlight, Live, Typed, TypeOK
<1>2. cancelling \subseteq cancelling'
  BY DEF ServerStep, ReaderStep, EndOfInput, HostCancels, PipeBreaks, Resumes, Drained,
         Joined, CloseStore, Returns, Proceeds
<1>3. /\ mode' = "reading" => taskErrors = 0 \/ mode = "reading"
      /\ mode' \in {"closing", "returned"} => InFlight = {} /\ (taskErrors > 0 => failed')
  <2>1. CASE Resumes \/ HostCancels
    BY <1>1, <2>1 DEF Resumes, HostCancels, Proceeds
  <2>2. CASE EndOfInput
    BY <1>1, <2>2 DEF EndOfInput, Proceeds
  <2>3. CASE Drained \/ Joined
    BY <1>1, <2>3 DEF Drained, Joined, Reasons
  <2>4. CASE CloseStore \/ Returns \/ PipeBreaks
    BY <2>4 DEF CloseStore, Returns, PipeBreaks, Surfacing
  <2> QED BY <2>1, <2>2, <2>3, <2>4 DEF ServerStep, ReaderStep
<1> QED BY <1>1, <1>2, <1>3 DEF Surfacing

(***************************************************************************)
(* Reasons and Surfacing hold together.                                    *)
(***************************************************************************)
LEMMA ServingInOrder == Spec => [](Typed /\ Reasons /\ Surfacing)
<1>1. Init => Reasons /\ Surfacing /\ NoAnswerLost
  BY DEF Init, Reasons, NoAnswerLost, Surfacing
<1>2. ASSUME Typed, Reasons, Surfacing, NoAnswerLost, [Next]_vars
      PROVE  Reasons' /\ Surfacing'
  <2>1. ASSUME UNCHANGED <<reader, transport, tracking>>
        PROVE  Reasons' /\ Surfacing'
    BY <1>2, <2>1 DEF reader, transport, tracking, Reasons, Surfacing, Live, InFlight
  <2>2. ASSUME NEW r \in Retained, TaskStep(r)
        PROVE  UNCHANGED <<reader, transport, tracking>>
    BY <2>2 DEF TaskStep, RunStarts, RunRefused, NeverRuns, RunEnds, RunOver, Expires
  <2>3. CASE UNCHANGED vars
    BY <2>1, <2>3 DEF vars
  <2> QED BY <1>2, <2>1, <2>2, <2>3, StepCases, ReasonsLine, ReasonsRequest, ReasonsServer,
             SurfacingLine, SurfacingRequest, SurfacingServer
<1> QED BY <1>1, <1>2, IdsAreOwned, NoAnswerIsLost, PTL DEF Spec

(***************************************************************************)
(* FailureSurfaces for every script: at most one more line is taken, the   *)
(* other requests are cancelled, and serving ends with an exception.       *)
(***************************************************************************)
THEOREM FailuresSurface == Spec => []FailureSurfaces
<1>1. ASSUME Typed, Surfacing PROVE FailureSurfaces
  <2>1. late <= 1
    BY <1>1 DEF Surfacing
  <2>2. ASSUME mode = "returned", NEW q \in Requests, outcome[q] = "failed" PROVE failed
    <3>1. phase[q] # "done"
      BY <1>1, <2>2 DEF Surfacing, InFlight
    <3> QED BY <1>1, <2>2, <3>1 DEF Surfacing
  <2> QED BY <1>1, <2>1, <2>2 DEF Surfacing, FailureSurfaces
<1> QED BY <1>1, ServingInOrder, PTL

(***************************************************************************)
(* An execution that left the store was cancelled, and aclose leaves none  *)
(* in it.                                                                  *)
(***************************************************************************)
Unwinds ==
  /\ Running \ kept \subseteq stopping
  /\ mode = "returned" /\ CloseRuntime => kept = {}

(***************************************************************************)
(* QuietAfterReturn for every script and limit: nothing is in flight, no   *)
(* id is left, and what still unwinds was cancelled.                       *)
(***************************************************************************)
THEOREM ReturnsQuietly == Spec => []QuietAfterReturn
<1>1. Init => Unwinds
  BY DEF Init, Unwinds, Running
<1>2. ASSUME Typed, Reasons, Surfacing, Unwinds, [Next]_vars
      PROVE  Unwinds'
  <2> USE DEF transport, tracking, store, reader
  <2>1. ASSUME NEW m \in Messages, LineStep(m) PROVE Unwinds'
    <3>1. /\ run' = run /\ kept' = kept /\ stopping \subseteq stopping'
          /\ mode' # "returned"
      BY <2>1 DEF LineStep, Drops, CancelsRequest, HandlesInLine, CancelsRetained, IsBusy,
                  Admits, Proceeds
    <3> QED BY <1>2, <3>1 DEF Unwinds, Running
  <2>2. ASSUME NEW q \in Requests, RequestStep(q) PROVE Unwinds'
    <3>1. phase[q] \notin {"idle", "gone"} /\ mode' = mode
      BY <2>2 DEF RequestStep, NeverStarts, Refuses, CallStarts, WaitStarts, Retains, CallEnds,
             ProgressFails, WaitEnds, Cancelled, RequestFinished, Started, Ends, Enters
    <3>2. mode' # "returned"
      BY <1>2, <3>1 DEF Surfacing, InFlight
    <3>3. CASE Retains(q)
      BY <1>2, <3>2, <3>3 DEF Retains, Unwinds, Running, Typed, TypeOK
    <3>4. CASE ~Retains(q)
      <4>1. UNCHANGED store
        BY <2>2, <3>4 DEF RequestStep, NeverStarts, Refuses, CallStarts, WaitStarts, CallEnds,
                          ProgressFails, WaitEnds, Cancelled, RequestFinished
      <4> QED BY <1>2, <3>2, <4>1 DEF Unwinds, Running
    <3> QED BY <3>3, <3>4
  <2>3. ASSUME NEW r \in Retained, TaskStep(r) PROVE Unwinds'
    <3>1. CASE RunStarts(r)
      BY <1>2, <3>1 DEF RunStarts, Unwinds, Running, Typed, TypeOK
    <3>2. CASE RunRefused(r) \/ NeverRuns(r) \/ RunEnds(r)
      BY <1>2, <3>2 DEF RunRefused, NeverRuns, RunEnds, RunOver, Unwinds, Running, Typed, TypeOK
    <3>3. CASE Expires(r)
      BY <1>2, <3>3 DEF Expires, Unwinds, Running
    <3> QED BY <2>3, <3>1, <3>2, <3>3 DEF TaskStep
  <2>4. CASE Returns
    BY <1>2, <2>4 DEF Returns, ToJoin, Unwinds, Running
  <2>5. CASE CloseStore
    BY <1>2, <2>5 DEF CloseStore, Unwinds, Running
  <2>6. CASE \/ EndOfInput \/ HostCancels \/ PipeBreaks \/ Resumes \/ Drained \/ Joined
             \/ UNCHANGED vars
    <3>1. /\ UNCHANGED <<run, kept, stopping>> /\ mode' = "returned" => mode = "returned"
      BY <2>6 DEF EndOfInput, HostCancels, PipeBreaks, Resumes, Drained, Joined, Proceeds, vars
    <3> QED BY <1>2, <2>6, <3>1 DEF Unwinds, Running, EndOfInput, HostCancels, PipeBreaks,
                                    Resumes, Drained, Joined, vars
  <2> QED BY <1>2, <2>1, <2>2, <2>3, <2>4, <2>5, <2>6, StepCases DEF ServerStep, ReaderStep
<1>3. ASSUME Typed, Surfacing, Unwinds PROVE QuietAfterReturn
  <2> SUFFICES ASSUME mode = "returned"
               PROVE  /\ InFlight = {}
                      /\ \A i \in Ids : inFlightRequests[i] = 0
                      /\ CloseRuntime => Running \subseteq stopping
    BY DEF QuietAfterReturn
  <2>1. InFlight = {}
    BY <1>3 DEF Surfacing
  <2>2. \A i \in Ids : inFlightRequests[i] = 0
    BY <1>3, <2>1 DEF InFlight, Typed, TypeOK, IdsOwned, Active
  <2> QED BY <1>3, <2>1, <2>2 DEF Unwinds
<1> QED BY <1>1, <1>2, <1>3, ServingInOrder, PTL DEF Spec
=============================================================================
