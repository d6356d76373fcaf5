------------------------- MODULE MCPTaskStoreProofs -------------------------
(***************************************************************************)
(* The safety of the task store for every set of tasks and waiters, every  *)
(* capacity and every ttl.                                                 *)
(*                                                                         *)
(* AnswerIsFinal, NoOrphans and WorkingMeansRunning are not inductive: a   *)
(* result could change if its task were still working, and a new task      *)
(* could be born done or cancelled.  Inv adds how the fields of one task   *)
(* go together (FieldsInv), that only a request has a target (TargetInv),  *)
(* and the bound of the store (CapacityInv).                               *)
(***************************************************************************)
EXTENDS MCPTaskStore, FiniteSetTheorems, TLAPS

FieldsInv ==
  \A t \in Tasks :
    /\ status[t] = "none" <=> run[t] = "none"
    /\ result[t] = "none" <=> status[t] \in {"none", "working"}
    /\ status[t] = "none" => ~done[t]
    /\ cancelling[t] => run[t] \in {"created", "operating"}

TargetInv == \A w \in Waiters : wait[w] # "idle" => target[w] \in Tasks

CapacityInv == Cardinality(tasks) <= MaxTasks

Inv == /\ TypeOK /\ FieldsInv /\ TargetInv /\ CapacityInv
       /\ WorkingMeansRunning /\ NoOrphans /\ AnswerIsFinal

LEMMA InitInv == Init => Inv
<1> SUFFICES ASSUME Init PROVE Inv
  OBVIOUS
<1> USE DEF Init
<1>1. TypeOK
  BY StoreAssumption DEF TypeOK, NoTask, StoreAssumption
<1>2. FieldsInv /\ TargetInv
  BY DEF FieldsInv, TargetInv
<1>3. CapacityInv
  BY FS_EmptySet, StoreAssumption DEF CapacityInv, StoreAssumption
<1>4. WorkingMeansRunning /\ NoOrphans
  BY DEF WorkingMeansRunning, NoOrphans, Unfinished
<1>5. AnswerIsFinal
  BY DEF AnswerIsFinal, Results
<1> QED
  BY <1>1, <1>2, <1>3, <1>4, <1>5 DEF Inv

(* The store never grows but by one task that finds room. *)
LEMMA Shrinks ==
  ASSUME Inv, NEW S, S \subseteq tasks
  PROVE  IsFiniteSet(S) /\ Cardinality(S) <= Cardinality(tasks)
                        /\ Cardinality(S) <= MaxTasks
<1>1. IsFiniteSet(tasks)
  BY FS_Subset, StoreAssumption DEF StoreAssumption, Inv, TypeOK
<1>2. IsFiniteSet(S) /\ Cardinality(S) <= Cardinality(tasks)
  BY <1>1, FS_Subset
<1>3. Cardinality(S) \in Nat /\ Cardinality(tasks) \in Nat
  BY <1>1, <1>2, FS_CardinalityType
<1> QED
  BY <1>2, <1>3, StoreAssumption DEF Inv, CapacityInv, StoreAssumption

LEMMA OneMore ==
  ASSUME NEW S, IsFiniteSet(S), NEW t
  PROVE  /\ Cardinality(S) \in Nat /\ Cardinality(S \cup {t}) \in Nat
         /\ Cardinality(S \cup {t}) <= Cardinality(S) + 1
<1>1. IsFiniteSet(S \cup {t})
  BY FS_AddElement
<1>2. Cardinality(S) \in Nat /\ Cardinality(S \cup {t}) \in Nat
  BY <1>1, FS_CardinalityType
<1>3. CASE t \in S
  <2>1. S \cup {t} = S
    BY <1>3
  <2>2. Cardinality(S \cup {t}) = Cardinality(S)
    BY <2>1, Zenon
  <2> QED
    BY <1>2, <2>2
<1>4. CASE t \notin S
  <2>1. Cardinality(S \cup {t}) = Cardinality(S) + 1
    BY <1>4, FS_AddElement
  <2> QED
    BY <1>2, <2>1
<1> QED
  BY <1>3, <1>4

LEMMA TtlIsPositive ==
  ASSUME NEW r \in RequestedTTLs PROVE Ttl(r) \in Nat \ {0}
BY StoreAssumption DEF Ttl, StoreAssumption

LEMMA CreateInv ==
  ASSUME Inv, NEW t \in Tasks, NEW r \in RequestedTTLs, Create(t, r)
  PROVE  Inv'
<1> USE DEF Create, IsNextId
<1>t. Ttl(r) \in Nat /\ TypeOK /\ FieldsInv /\ TargetInv
  BY TtlIsPositive DEF Inv
<1>1. TypeOK'
  BY <1>t DEF TypeOK, Live, Expired, WokenWith, CancelledWith, waits
<1>2. FieldsInv'
  <2> SUFFICES ASSUME NEW u \in Tasks
               PROVE /\ status'[u] = "none" <=> run'[u] = "none"
                     /\ result'[u] = "none" <=> status'[u] \in {"none", "working"}
                     /\ status'[u] = "none" => ~done'[u]
                     /\ cancelling'[u] => run'[u] \in {"created", "operating"}
    BY DEF FieldsInv
  <2>0. \A v \in tasks : status[v] # "none"
    BY <1>t DEF Inv, WorkingMeansRunning, FieldsInv, TypeOK
  <2>1. CASE u = t
    BY <1>t, <2>0, <2>1 DEF FieldsInv, TypeOK, WokenWith, CancelledWith, Expired, Unfinished
  <2>2. CASE u # t
    BY <1>t, <2>0, <2>2 DEF FieldsInv, TypeOK, WokenWith, CancelledWith, Expired, Unfinished
  <2> QED
    BY <2>1, <2>2
<1>3. TargetInv'
  BY <1>t DEF TargetInv, waits
<1>4. CapacityInv'
  <2>1. IsFiniteSet(Live)
    BY Shrinks DEF Live
  <2>2. /\ Cardinality(Live) \in Nat /\ Cardinality(Live \cup {t}) \in Nat
        /\ Cardinality(Live \cup {t}) <= Cardinality(Live) + 1
    BY <2>1, OneMore
  <2>3. Cardinality(Live \cup {t}) <= MaxTasks
    BY <2>2, StoreAssumption DEF HasCapacity, StoreAssumption
  <2>4. tasks' = Live \cup {t}
    OBVIOUS
  <2> QED
    BY <2>3, <2>4, Zenon DEF CapacityInv
<1>5. WorkingMeansRunning'
  <2> SUFFICES ASSUME NEW u \in tasks'
               PROVE IF status'[u] = "working"
                     THEN /\ ~done'[u] /\ result'[u] = "none"
                          /\ closing' = "open" => u \in Unfinished' /\ ~cancelling'[u]
                     ELSE done'[u] /\ result'[u] # "none"
    BY DEF WorkingMeansRunning
  <2>0. \A v \in tasks : status[v] # "none" /\ v \in Tasks
    BY <1>t DEF Inv, WorkingMeansRunning, FieldsInv, TypeOK
  <2>1. CASE u = t
    BY <1>t, <2>0, <2>1 DEF FieldsInv, TypeOK, WokenWith, CancelledWith, Expired, Unfinished
  <2>2. CASE u # t
    BY <1>t, <2>0, <2>2 DEF Inv, WorkingMeansRunning, TypeOK, WokenWith, CancelledWith, Expired, Unfinished, Live
  <2> QED
    BY <2>1, <2>2
<1>6. NoOrphans'
  BY <1>t DEF Inv, NoOrphans, TypeOK, FieldsInv, CancelledWith, Unfinished, Live, Expired
<1>7. AnswerIsFinal'
  BY DEF Inv, AnswerIsFinal, waits
<1> QED
  BY <1>1, <1>2, <1>3, <1>4, <1>5, <1>6, <1>7 DEF Inv

(* What _expire keeps, whoever calls it for whatever tasks. *)
LEMMA ExpireKeeps ==
  ASSUME Inv, NEW E \in SUBSET tasks, Expire(E),
         UNCHANGED <<now, status, result, expiry, run, closing, joined>>
  PROVE  /\ tasks' \subseteq Tasks
         /\ done' \in [Tasks -> BOOLEAN] /\ cancelling' \in [Tasks -> BOOLEAN]
         /\ FieldsInv' /\ CapacityInv' /\ WorkingMeansRunning' /\ NoOrphans'
<1> USE DEF Expire
<1>t. TypeOK /\ FieldsInv /\ WorkingMeansRunning
  BY DEF Inv
<1>1. /\ tasks' \subseteq Tasks
      /\ done' \in [Tasks -> BOOLEAN] /\ cancelling' \in [Tasks -> BOOLEAN]
  BY <1>t DEF TypeOK, WokenWith, CancelledWith
<1>2. FieldsInv'
  BY <1>t DEF TypeOK, FieldsInv, WorkingMeansRunning, WokenWith, CancelledWith, Unfinished
<1>3. CapacityInv'
  BY Shrinks DEF CapacityInv
<1>4. WorkingMeansRunning'
  BY <1>t DEF TypeOK, WorkingMeansRunning, WokenWith, CancelledWith, Unfinished
<1>5. NoOrphans'
  BY <1>t DEF Inv, TypeOK, NoOrphans, CancelledWith, Unfinished
<1> QED
  BY <1>1, <1>2, <1>3, <1>4, <1>5

LEMMA OnlyPurgesInv == ASSUME Inv, OnlyPurges PROVE Inv'
<1>1. Expired \in SUBSET tasks
  BY DEF Expired
<1>2. /\ tasks' \subseteq Tasks
      /\ done' \in [Tasks -> BOOLEAN] /\ cancelling' \in [Tasks -> BOOLEAN]
      /\ FieldsInv' /\ CapacityInv' /\ WorkingMeansRunning' /\ NoOrphans'
  BY <1>1, ExpireKeeps DEF OnlyPurges
<1>3. TypeOK' /\ TargetInv' /\ AnswerIsFinal'
  BY <1>2 DEF Inv, TypeOK, TargetInv, AnswerIsFinal, OnlyPurges, waits
<1> QED
  BY <1>2, <1>3 DEF Inv

LEMMA RequestsInv ==
  ASSUME Inv, NEW w \in Waiters, NEW t \in Tasks, Requests(w, t) PROVE Inv'
<1> USE DEF Requests
<1>1. Expired \in SUBSET tasks
  BY DEF Expired
<1>2. /\ tasks' \subseteq Tasks
      /\ done' \in [Tasks -> BOOLEAN] /\ cancelling' \in [Tasks -> BOOLEAN]
      /\ FieldsInv' /\ CapacityInv' /\ WorkingMeansRunning' /\ NoOrphans'
  BY <1>1, ExpireKeeps
<1>3. TypeOK'
  BY <1>2 DEF Inv, TypeOK
<1>4. TargetInv'
  BY DEF Inv, TypeOK, TargetInv
<1>5. AnswerIsFinal'
  BY DEF Inv, TypeOK, AnswerIsFinal, Results
<1> QED
  BY <1>2, <1>3, <1>4, <1>5 DEF Inv

LEMMA TimesOutInv == ASSUME Inv, NEW w \in Waiters, TimesOut(w) PROVE Inv'
<1> USE DEF TimesOut
<1>1. {target[w]} \cap tasks \in SUBSET tasks
  OBVIOUS
<1>2. /\ tasks' \subseteq Tasks
      /\ done' \in [Tasks -> BOOLEAN] /\ cancelling' \in [Tasks -> BOOLEAN]
      /\ FieldsInv' /\ CapacityInv' /\ WorkingMeansRunning' /\ NoOrphans'
  BY <1>1, ExpireKeeps
<1>3. TypeOK'
  BY <1>2 DEF Inv, TypeOK
<1>4. TargetInv' /\ AnswerIsFinal'
  BY DEF Inv, TypeOK, TargetInv, AnswerIsFinal, Results
<1> QED
  BY <1>2, <1>3, <1>4 DEF Inv

(* A step that settles at most the task t and lets no task in. *)
LEMMA CancelTaskInv == ASSUME Inv, NEW t \in Tasks, CancelTask(t) PROVE Inv'
<1> USE DEF CancelTask, Settles, waits
<1>t. TypeOK /\ FieldsInv /\ TargetInv /\ WorkingMeansRunning
  BY DEF Inv
<1>1. TypeOK'
  BY <1>t DEF TypeOK, Terminal, Results, Live, Expired, WokenWith, CancelledWith
<1>2. FieldsInv' /\ TargetInv'
  BY <1>t DEF TypeOK, FieldsInv, TargetInv, WorkingMeansRunning, Live, Expired,
              WokenWith, CancelledWith, Unfinished
<1>3. CapacityInv'
  BY Shrinks DEF CapacityInv, Live
<1>4. WorkingMeansRunning'
  BY <1>t DEF TypeOK, WorkingMeansRunning, WokenWith, CancelledWith, Live,
              Expired, Unfinished
<1>5. NoOrphans'
  BY <1>t DEF Inv, TypeOK, NoOrphans, CancelledWith, Unfinished, Live, Expired
<1>6. AnswerIsFinal'
  BY <1>t DEF Inv, TypeOK, AnswerIsFinal, FieldsInv, TargetInv, Results
<1> QED
  BY <1>1, <1>2, <1>3, <1>4, <1>5, <1>6 DEF Inv

LEMMA WakesInv == ASSUME Inv, NEW w \in Waiters, Wakes(w) PROVE Inv'
<1> USE DEF Wakes, entry
<1>1. target[w] \in Tasks
  BY DEF Inv, TargetInv
<1>2. Reread(w) \in Results \cup {"not_found"}
  BY <1>1 DEF Inv, TypeOK, Reread
<1>3. Reread(w) # "none" /\ (Reread(w) \in Results => Reread(w) = result[target[w]])
  BY <1>2 DEF Reread, Results
<1>4. TypeOK'
  BY <1>2, <1>3 DEF Inv, TypeOK
<1>5. AnswerIsFinal'
  BY <1>3 DEF Inv, TypeOK, AnswerIsFinal
<1>6. /\ FieldsInv' /\ TargetInv' /\ CapacityInv'
      /\ WorkingMeansRunning' /\ NoOrphans'
  BY DEF Inv, TypeOK, FieldsInv, TargetInv, CapacityInv, WorkingMeansRunning,
         NoOrphans, Unfinished
<1> QED
  BY <1>4, <1>5, <1>6 DEF Inv

LEMMA WaitCancelledInv ==
  ASSUME Inv, NEW w \in Waiters, WaitCancelled(w) PROVE Inv'
<1> USE DEF WaitCancelled, entry
<1>1. TypeOK' /\ TargetInv' /\ AnswerIsFinal'
  BY DEF Inv, TypeOK, TargetInv, AnswerIsFinal
<1>2. FieldsInv' /\ CapacityInv' /\ WorkingMeansRunning' /\ NoOrphans'
  BY DEF Inv, FieldsInv, CapacityInv, WorkingMeansRunning, NoOrphans, Unfinished
<1> QED
  BY <1>1, <1>2 DEF Inv

-----------------------------------------------------------------------------
LEMMA RunStartsInv == ASSUME Inv, NEW t \in Tasks, RunStarts(t) PROVE Inv'
<1> USE DEF RunStarts, waits
<1>1. TypeOK' /\ FieldsInv' /\ TargetInv' /\ CapacityInv' /\ AnswerIsFinal'
  BY DEF Inv, TypeOK, FieldsInv, TargetInv, CapacityInv, AnswerIsFinal
<1>2. WorkingMeansRunning' /\ NoOrphans'
  BY DEF Inv, TypeOK, WorkingMeansRunning, NoOrphans, Unfinished
<1> QED
  BY <1>1, <1>2 DEF Inv

LEMMA NeverRunsInv == ASSUME Inv, NEW t \in Tasks, NeverRuns(t) PROVE Inv'
<1> USE DEF NeverRuns, Finishes, waits
<1>1. TypeOK' /\ FieldsInv' /\ TargetInv' /\ CapacityInv' /\ AnswerIsFinal'
  BY DEF Inv, TypeOK, FieldsInv, TargetInv, CapacityInv, AnswerIsFinal
<1>2. WorkingMeansRunning' /\ NoOrphans'
  BY DEF Inv, TypeOK, WorkingMeansRunning, NoOrphans, Unfinished
<1> QED
  BY <1>1, <1>2 DEF Inv

LEMMA RunEndsInv ==
  ASSUME Inv, NEW t \in Tasks, NEW s \in Terminal, NEW r \in Results,
         RunEnds(t, s, r)
  PROVE  Inv'
<1> USE DEF RunEnds, Finishes, Settles, StillWorking, waits
<1>t. TypeOK /\ FieldsInv /\ TargetInv
  BY DEF Inv
<1>1. TypeOK'
  BY <1>t DEF TypeOK
<1>2. FieldsInv'
  BY <1>t DEF TypeOK, FieldsInv, Terminal, Results
<1>3. TargetInv' /\ CapacityInv'
  BY DEF Inv, TargetInv, CapacityInv
<1>4. WorkingMeansRunning'
  BY <1>t DEF Inv, TypeOK, WorkingMeansRunning, Unfinished, Terminal, Results
<1>5. NoOrphans'
  BY <1>t DEF Inv, TypeOK, NoOrphans, Unfinished
<1>6. AnswerIsFinal'
  BY <1>t DEF Inv, TypeOK, AnswerIsFinal, FieldsInv, TargetInv, Results
<1> QED
  BY <1>1, <1>2, <1>3, <1>4, <1>5, <1>6 DEF Inv

-----------------------------------------------------------------------------
LEMMA CloseBeginsInv == ASSUME Inv, CloseBegins PROVE Inv'
<1> USE DEF CloseBegins, waits
<1>1. tasks' \subseteq tasks /\ closing' \in {"joining", "closed"}
  OBVIOUS
<1>2. TypeOK'
  BY <1>1 DEF Inv, TypeOK, CancelledWith, Unfinished
<1>3. FieldsInv' /\ TargetInv' /\ AnswerIsFinal'
  BY DEF Inv, TypeOK, FieldsInv, TargetInv, AnswerIsFinal, CancelledWith, Unfinished
<1>4. CapacityInv'
  BY <1>1, Shrinks DEF CapacityInv
<1>5. WorkingMeansRunning' /\ NoOrphans'
  BY <1>1 DEF Inv, TypeOK, WorkingMeansRunning, NoOrphans
<1> QED
  BY <1>2, <1>3, <1>4, <1>5 DEF Inv

LEMMA CloseJoinedInv == ASSUME Inv, CloseJoined PROVE Inv'
<1> USE DEF CloseJoined, waits
<1>1. TypeOK' /\ FieldsInv' /\ TargetInv' /\ AnswerIsFinal'
  BY DEF Inv, TypeOK, FieldsInv, TargetInv, AnswerIsFinal
<1>2. CapacityInv'
  BY Shrinks DEF CapacityInv
<1>3. WorkingMeansRunning' /\ NoOrphans'
  BY DEF WorkingMeansRunning, NoOrphans
<1> QED
  BY <1>1, <1>2, <1>3 DEF Inv

LEMMA TickInv == ASSUME Inv, Tick PROVE Inv'
<1> USE DEF Tick, entry, waits
<1>1. TypeOK'
  BY StoreAssumption DEF Inv, TypeOK, StoreAssumption
<1>2. FieldsInv' /\ TargetInv' /\ CapacityInv' /\ AnswerIsFinal'
  BY DEF Inv, FieldsInv, TargetInv, CapacityInv, AnswerIsFinal
<1>3. WorkingMeansRunning' /\ NoOrphans'
  BY DEF Inv, WorkingMeansRunning, NoOrphans, Unfinished
<1> QED
  BY <1>1, <1>2, <1>3 DEF Inv

LEMMA StutterInv == ASSUME Inv, UNCHANGED vars PROVE Inv'
<1> USE DEF vars, entry, waits
<1>1. TypeOK' /\ FieldsInv' /\ TargetInv' /\ CapacityInv' /\ AnswerIsFinal'
  BY DEF Inv, TypeOK, FieldsInv, TargetInv, CapacityInv, AnswerIsFinal
<1>2. WorkingMeansRunning' /\ NoOrphans'
  BY DEF Inv, WorkingMeansRunning, NoOrphans, Unfinished
<1> QED
  BY <1>1, <1>2 DEF Inv

LEMMA NextInv == ASSUME Inv, [Next]_vars PROVE Inv'
<1>1. ASSUME NEW t \in Tasks, NEW r \in RequestedTTLs, Create(t, r) PROVE Inv'
  BY <1>1, CreateInv
<1>2. ASSUME NEW t \in Tasks, RunCompletes(t) \/ RunCancelled(t) PROVE Inv'
  BY <1>2, RunEndsInv DEF RunCompletes, RunCancelled, Terminal, Results
<1>3. ASSUME NEW t \in Tasks, CancelTask(t) \/ RunStarts(t) \/ NeverRuns(t)
      PROVE Inv'
  BY <1>3, CancelTaskInv, RunStartsInv, NeverRunsInv
<1>4. ASSUME NEW w \in Waiters, NEW t \in Tasks, Requests(w, t) PROVE Inv'
  BY <1>4, RequestsInv
<1>5. ASSUME NEW w \in Waiters, Wakes(w) \/ TimesOut(w) \/ WaitCancelled(w)
      PROVE Inv'
  BY <1>5, WakesInv, TimesOutInv, WaitCancelledInv
<1>6. CASE OnlyPurges \/ CloseBegins \/ CloseJoined \/ Tick
  BY <1>6, OnlyPurgesInv, CloseBeginsInv, CloseJoinedInv, TickInv
<1>7. CASE UNCHANGED vars
  BY <1>7, StutterInv
<1> QED
  BY <1>1, <1>2, <1>3, <1>4, <1>5, <1>6, <1>7 DEF Next

(* Inv holds in every behaviour of the store. *)
THEOREM StoreInvariance == Spec => []Inv
BY InitInv, NextInv, PTL DEF Spec

-----------------------------------------------------------------------------
(* The fields of the store, its tasks, executions and requests keep their  *)
(* types, and a request of tasks/result is answered just when it has an    *)
(* answer (MCPTaskStore, RetainedTask).                                    *)
THEOREM TaskTypesCorrect == Spec => []TypeOK
BY StoreInvariance, PTL DEF Inv

(* create, _run and cancel: until the store is closed, a working task has  *)
(* an execution that nobody has cancelled; a task that has ended has a     *)
(* result and its event.                                                   *)
THEOREM WorkingTasksRun == Spec => []WorkingMeansRunning
BY StoreInvariance, PTL DEF Inv

(* _expire and cancel leave no execution behind that nobody can ask for    *)
(* and nobody has cancelled.                                               *)
THEOREM ExecutionsAreOwned == Spec => []NoOrphans
BY StoreInvariance, PTL DEF Inv

(* result: an answer stays the result of its task for ever, although _run, *)
(* cancel and expiry race to settle it.                                    *)
THEOREM AnswersAreFinal == Spec => []AnswerIsFinal
BY StoreInvariance, PTL DEF Inv

-----------------------------------------------------------------------------
LEMMA RetainingStep ==
  ASSUME Inv, Inv', Next
  PROVE  /\ \A t \in tasks \ tasks' : expiry[t] <= now \/ closing' = "closed"
         /\ \A w \in Waiters :
              answer'[w] = "not_found" /\ answer[w] = "none"
                => target'[w] \notin tasks'
<1> DEFINE Retains == \A t \in tasks \ tasks' : expiry[t] <= now \/ closing' = "closed"
           Truthful == \A w \in Waiters :
                         answer'[w] = "not_found" /\ answer[w] = "none"
                           => target'[w] \notin tasks'
<1>0. TypeOK /\ TargetInv /\ WorkingMeansRunning
  BY DEF Inv
<1>1. ASSUME NEW t \in Tasks, NEW r \in RequestedTTLs, Create(t, r)
      PROVE  Retains /\ Truthful
  BY <1>1 DEF Create, Live, Expired, waits
<1>2. ASSUME NEW t \in Tasks,
             CancelTask(t) \/ RunStarts(t) \/ NeverRuns(t) \/ RunCompletes(t)
               \/ RunCancelled(t)
      PROVE  Retains /\ Truthful
  BY <1>2 DEF CancelTask, RunStarts, NeverRuns, RunCompletes, RunCancelled, RunEnds,
              Finishes, Live, Expired, waits
<1>3. ASSUME NEW w \in Waiters, NEW t \in Tasks, Requests(w, t)
      PROVE  Retains /\ Truthful
  <2>1. Retains
    BY <1>3 DEF Requests, Expire, Expired
  <2>2. Truthful
    BY <1>0, <1>3 DEF Requests, Expire, Live, TypeOK
  <2> QED
    BY <2>1, <2>2
<1>4. ASSUME NEW w \in Waiters, Wakes(w) PROVE Retains /\ Truthful
  <2>1. Retains
    BY <1>4 DEF Wakes, entry
  <2>2. target[w] \in tasks => result[target[w]] # "none"
    BY <1>0, <1>4 DEF Wakes, WorkingMeansRunning
  <2>3. target[w] \in tasks => Reread(w) # "not_found"
    BY <1>0, <2>2 DEF Reread, TypeOK, Results
  <2>4. Truthful
    BY <1>0, <1>4, <2>3 DEF Wakes, entry, TypeOK
  <2> QED
    BY <2>1, <2>4
<1>5. ASSUME NEW w \in Waiters, TimesOut(w) PROVE Retains /\ Truthful
  <2>1. Retains
    BY <1>0, <1>5 DEF TimesOut, TimerFires, Expire, TypeOK, TargetInv
  <2>2. Truthful
    BY <1>0, <1>5 DEF TimesOut, Expire, TypeOK
  <2> QED
    BY <2>1, <2>2
<1>6. ASSUME NEW w \in Waiters, WaitCancelled(w) PROVE Retains /\ Truthful
  BY <1>6 DEF WaitCancelled, entry
<1>7. CASE OnlyPurges
  BY <1>7 DEF OnlyPurges, Expire, Expired, waits
<1>8. CASE CloseBegins \/ CloseJoined \/ Tick
  BY <1>8 DEF CloseBegins, CloseJoined, Tick, entry, waits
<1> QED
  BY <1>1, <1>2, <1>3, <1>4, <1>5, <1>6, <1>7, <1>8 DEF Next

(* _purge_expired and result: a client finds its task for as long as the   *)
(* store is open and the ttl has not passed.                               *)
THEOREM TasksAreRetained == Spec => RetainedUntilExpiry
<1>1. Inv /\ Inv' /\ [Next]_vars =>
        [/\ \A t \in tasks \ tasks' : expiry[t] <= now \/ closing' = "closed"
         /\ \A w \in Waiters :
              answer'[w] = "not_found" /\ answer[w] = "none"
                => target'[w] \notin tasks']_vars
  BY RetainingStep
<1> QED
  BY <1>1, StoreInvariance, PTL DEF Spec, RetainedUntilExpiry

-----------------------------------------------------------------------------
(* The refinement: what a step does to the phases.                         *)
KeptAgree == Lifecycle!Kept = tasks

LEMMA KeptTasks == Inv => KeptAgree
BY DEF KeptAgree, Inv, TypeOK, FieldsInv, WorkingMeansRunning, Terminal, phases, Phase,
       Lifecycle!Kept, Lifecycle!Ended

LEMMA KeptTasksNext == Inv' => KeptAgree'
BY KeptTasks, PTL

(* The lifecycle counts as the store does. *)
LEMMA SameCardinality == \A S : Lifecycle!Cardinality(S) = Cardinality(S)
BY Zenon DEF Cardinality, Lifecycle!Cardinality

(* All phases, once the tasks other than t only leave and t moves.         *)
LEMMA OneMoves ==
  ASSUME Inv, Inv', NEW t \in Tasks,
         \A u \in Tasks \ {t} : /\ u \in tasks' => u \in tasks
                               /\ status'[u] = status[u],
         \/ /\ status[t] = "none" /\ t \in tasks' /\ status'[t] = "working"
         \/ /\ t \in tasks /\ t \in tasks'
            /\ status[t] = "working" /\ status'[t] \in Terminal
         \/ /\ t \in tasks' => t \in tasks /\ status'[t] = status[t]
            /\ status'[t] = "none" <=> status[t] = "none"
  PROVE  Lifecycle!Next
<1>0. /\ TypeOK /\ TypeOK'
      /\ \A u \in tasks : status[u] \in {"working"} \cup Terminal
      /\ \A u \in tasks' : status'[u] \in {"working"} \cup Terminal
  BY DEF Inv, TypeOK, FieldsInv, WorkingMeansRunning, Terminal
<1>1. phases' \in [Tasks -> {"unknown", "working", "gone"} \cup Lifecycle!Ended]
  BY <1>0 DEF phases, Phase, TypeOK, Terminal, Lifecycle!Ended
<1>2. Lifecycle!Cardinality(Lifecycle!Kept') <= MaxTasks
  <2>1. Lifecycle!Kept' = tasks'
    BY KeptTasksNext DEF KeptAgree
  <2>2. Lifecycle!Cardinality(Lifecycle!Kept') = Cardinality(tasks')
    BY <2>1, SameCardinality, Zenon
  <2> QED
    BY <2>2 DEF Inv, CapacityInv
<1>3. ASSUME NEW u \in Tasks, u \in tasks' => u \in tasks /\ status'[u] = status[u],
             status'[u] = "none" <=> status[u] = "none"
      PROVE  Lifecycle!Keeps(u) \/ Lifecycle!Forgets(u)
  <2>1. phases[u] = Phase(u) /\ phases'[u] = Phase(u)'
    BY DEF phases
  <2>2. CASE u \in tasks /\ u \notin tasks'
    <3>1. u \in Lifecycle!Kept
      BY <2>2, KeptTasks DEF KeptAgree
    <3>2. Phase(u)' = "gone"
      BY <1>0, <1>3, <2>2 DEF phases, Phase, Terminal
    <3> QED
      BY <2>1, <3>1, <3>2 DEF Lifecycle!Forgets
  <2>3. CASE ~(u \in tasks /\ u \notin tasks')
    <3>1. Phase(u)' = Phase(u)
      BY <1>0, <1>3, <2>3 DEF phases, Phase
    <3> QED
      BY <2>1, <3>1 DEF Lifecycle!Keeps
  <2> QED
    BY <2>2, <2>3
<1>4. \A u \in Tasks \ {t} : Lifecycle!Keeps(u) \/ Lifecycle!Forgets(u)
  BY <1>3
<1>5. Lifecycle!Keeps(t) \/ Lifecycle!Forgets(t) \/ Lifecycle!Accepts(t)
        \/ Lifecycle!Ends(t)
  <2>1. CASE status[t] = "none" /\ t \in tasks' /\ status'[t] = "working"
    BY <1>0, <2>1 DEF phases, Phase, Terminal, Lifecycle!Accepts
  <2>2. CASE /\ t \in tasks /\ t \in tasks'
             /\ status[t] = "working" /\ status'[t] \in Terminal
    BY <2>2 DEF phases, Phase, Terminal, Lifecycle!Ends, Lifecycle!Ended
  <2>3. CASE /\ t \in tasks' => t \in tasks /\ status'[t] = status[t]
             /\ status'[t] = "none" <=> status[t] = "none"
    BY <2>3, <1>3
  <2> QED
    BY <2>1, <2>2, <2>3
<1> QED
  BY <1>1, <1>2, <1>4, <1>5 DEF Lifecycle!Next

LEMMA OnlyLeaves ==
  ASSUME Inv, Inv', tasks' \subseteq tasks, UNCHANGED status
  PROVE  Lifecycle!Next \/ UNCHANGED phases
<1>1. CASE Tasks = {}
  BY <1>1 DEF phases
<1>2. ASSUME NEW t \in Tasks PROVE Lifecycle!Next
  BY OneMoves
<1> QED
  BY <1>1, <1>2

LEMMA LifecycleStep ==
  ASSUME Inv, Inv', [Next]_vars
  PROVE  Lifecycle!Next \/ UNCHANGED phases
<1>0. TypeOK
  BY DEF Inv
<1>1. ASSUME NEW t \in Tasks, NEW r \in RequestedTTLs, Create(t, r)
      PROVE  Lifecycle!Next
  BY <1>0, <1>1, OneMoves DEF Create, IsNextId, Live, TypeOK
<1>2. ASSUME NEW t \in Tasks, CancelTask(t) PROVE Lifecycle!Next
  BY <1>0, <1>2, OneMoves DEF CancelTask, Settles, Live, TypeOK, Terminal
<1>3. ASSUME NEW t \in Tasks, RunCompletes(t) \/ RunCancelled(t)
      PROVE  Lifecycle!Next
  <2>1. PICK s \in Terminal, r \in Results : RunEnds(t, s, r)
    BY <1>3 DEF RunCompletes, RunCancelled, Terminal, Results
  <2>2. tasks' = tasks
    BY <2>1 DEF RunEnds, Finishes
  <2>3. CASE status[t] = "working"
    <3>1. status' = [status EXCEPT ![t] = s]
      BY <2>1, <2>3 DEF RunEnds, StillWorking, Settles
    <3> QED
      BY <1>0, <2>2, <2>3, <3>1, OneMoves DEF TypeOK, Terminal
  <2>4. CASE status[t] # "working"
    <3>1. status' = status
      BY <2>1, <2>4 DEF RunEnds, StillWorking
    <3> QED
      BY <2>2, <3>1, OneMoves
  <2> QED
    BY <2>3, <2>4
<1>4. ASSUME tasks' \subseteq tasks, UNCHANGED status
      PROVE  Lifecycle!Next \/ UNCHANGED phases
  BY <1>4, OnlyLeaves
<1>5. ASSUME NEW t \in Tasks, RunStarts(t) \/ NeverRuns(t)
      PROVE  tasks' \subseteq tasks /\ UNCHANGED status
  BY <1>5 DEF RunStarts, NeverRuns, Finishes
<1>6. ASSUME NEW w \in Waiters,
             \/ \E t \in Tasks : Requests(w, t)
             \/ Wakes(w) \/ TimesOut(w) \/ WaitCancelled(w)
      PROVE  tasks' \subseteq tasks /\ UNCHANGED status
  BY <1>6 DEF Requests, Wakes, TimesOut, WaitCancelled, Expire, entry
<1>7. CASE OnlyPurges \/ CloseBegins \/ CloseJoined \/ Tick \/ UNCHANGED vars
  <2>1. tasks' \subseteq tasks /\ UNCHANGED status
    BY <1>7 DEF OnlyPurges, CloseBegins, CloseJoined, Tick, Expire, entry, vars
  <2> QED
    BY <2>1, <1>4
<1> QED
  BY <1>1, <1>2, <1>3, <1>4, <1>5, <1>6, <1>7 DEF Next

(* create, cancel, _run, _expire and aclose implement the lifecycle of a   *)
(* task: accepted within max_tasks, ended once, kept until forgotten.      *)
THEOREM StoreImplementsLifecycle == Spec => ImplementsLifecycle
<1>1. Init => Lifecycle!Init
  BY DEF Init, Lifecycle!Init, phases, Phase
<1>2. Inv /\ Inv' /\ [Next]_vars => [Lifecycle!Next]_phases
  BY LifecycleStep
<1> QED
  BY <1>1, <1>2, StoreInvariance, PTL DEF Spec, ImplementsLifecycle, Lifecycle!Spec
=============================================================================
