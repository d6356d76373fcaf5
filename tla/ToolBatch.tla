------------------------------ MODULE ToolBatch -------------------------------
(***************************************************************************)
(* ToolRuntime.invoke_many over a registry that other threads change:      *)
(* workers, as many as there are pending places, pull the calls from one   *)
(* iterator, and each call resolves its tool, with the controls of that    *)
(* registration, when it is its turn.  The inside of an invocation is      *)
(* ToolRuntime's; here it is the order of its steps and how it ends.       *)
(***************************************************************************)
EXTENDS ToolRegistry

CONSTANTS
  Batch,        \* the calls: a sequence of tool names
  MaxPending,   \* max_pending_invocations
  MaxOthers     \* invocations from outside the batch that may be pending

ASSUME BatchAssumption ==
  /\ MaxPending \in Nat \ {0} /\ MaxOthers \in Nat
  /\ Batch \in Seq(Names) /\ Batch # <<>>

Calls == DOMAIN Batch
AWorkerPerCall == Len(Batch)               \* mutant: a worker for each call
WorkerCount == Min({MaxPending, Len(Batch)})
Workers == 1..WorkerCount

VARIABLES
  batch,     \* "new", "running", or how invoke_many ended
  next,      \* the position of the shared iterator
  phase,     \* where a worker is
  at,        \* the call it took
  resolved,  \* the registration that call resolved to
  held,      \* the controls it took along
  results,   \* the result of each call, "" while there is none
  entered,   \* how many times the call was handed to invoke
  others,    \* pending invocations from outside
  starts     \* when the functions of each registration were started

batchVars == <<batch, next, phase, at, resolved, held, results, entered, others, starts>>
vars == <<registryVars, clock, batchVars>>

Init ==
  /\ RegistryInit
  /\ batch = "new" /\ next = 1
  /\ phase = [w \in Workers |-> "none"]
  /\ at = [w \in Workers |-> 0] /\ resolved = [w \in Workers |-> 0]
  /\ held = [w \in Workers |-> {}]
  /\ results = [c \in Calls |-> ""] /\ entered = [c \in Calls |-> 0]
  /\ others = 0 /\ starts = [i \in Ids |-> <<>>]

RegistryUnchanged == UNCHANGED <<registryVars, clock>>
-----------------------------------------------------------------------------
InvokeMany ==
  /\ batch = "new"
  /\ batch' = "running"
  /\ phase' = [w \in Workers |-> "pulling"]
  /\ UNCHANGED <<next, at, resolved, held, results, entered, others, starts>>
  /\ RegistryUnchanged

Pending == others + Cardinality({w \in Workers : phase[w] \in {"admitted", "queued", "running"}})

(* A worker takes the next call and enters invoke, which admits it unless  *)
(* all pending places are taken.                                           *)
Pull(w) ==
  /\ phase[w] = "pulling" /\ next <= Len(Batch)
  /\ next' = next + 1
  /\ entered' = [entered EXCEPT ![next] = @ + 1]
  /\ IF Pending < MaxPending
       THEN /\ phase' = [phase EXCEPT ![w] = "admitted"]
            /\ at' = [at EXCEPT ![w] = next]
            /\ UNCHANGED results
       ELSE /\ results' = [results EXCEPT ![next] = "busy"]
            /\ UNCHANGED <<phase, at>>
  /\ UNCHANGED <<batch, resolved, held, others, starts>>
  /\ RegistryUnchanged

Stop(w) ==
  /\ phase[w] = "pulling" /\ next > Len(Batch)
  /\ phase' = [phase EXCEPT ![w] = "over"]
  /\ UNCHANGED <<batch, next, at, resolved, held, results, entered, others, starts>>
  /\ RegistryUnchanged

Answered(w, result) ==
  /\ results' = [results EXCEPT ![at[w]] = result]
  /\ phase' = [phase EXCEPT ![w] = "pulling"]
  /\ at' = [at EXCEPT ![w] = 0]
  /\ resolved' = [resolved EXCEPT ![w] = 0]
  /\ held' = [held EXCEPT ![w] = {}]

(* The registration and its controls are read together under the lock. *)
Resolve(w) ==
  /\ phase[w] = "admitted" /\ MayEnter("loop")
  /\ LET id == tools[Batch[at[w]]]
     IN  IF id = 0
           THEN Answered(w, "not_found")
           ELSE /\ resolved' = [resolved EXCEPT ![w] = id]
                /\ held' = [held EXCEPT ![w] = ControlsOf(id)]
                /\ phase' = [phase EXCEPT ![w] = "queued"]
                /\ UNCHANGED <<at, results>>
  /\ UNCHANGED <<batch, next, entered, others, starts>>
  /\ RegistryUnchanged

(* The function starts, unless the bucket of its registration is empty. *)
Start(w) ==
  /\ phase[w] = "queued"
  /\ LET id == resolved[w]
         limited == "rate" \in held[w]
     IN  /\ bucket' = IF limited THEN [bucket EXCEPT ![id] = Acquired(@)] ELSE bucket
         /\ IF limited /\ ~HasToken(bucket[id])
              THEN Answered(w, "rate_limited") /\ UNCHANGED starts
              ELSE /\ phase' = [phase EXCEPT ![w] = "running"]
                   /\ starts' = [starts EXCEPT ![id] = Append(@, clock)]
                   /\ UNCHANGED <<at, resolved, held, results>>
  /\ UNCHANGED <<batch, next, entered, others, clock,
                 tools, made, nameOf, wanted, tables, lock, order, place>>

Finish(w) ==
  /\ phase[w] = "running"
  /\ Answered(w, "success")
  /\ UNCHANGED <<batch, next, entered, others, starts>>
  /\ RegistryUnchanged

(* An exception leaves invoke (see ToolRuntime): the worker is lost, and   *)
(* gather hands the first one to the caller; the siblings go on.           *)
Raise(w) ==
  /\ phase[w] = "running"
  /\ phase' = [phase EXCEPT ![w] = "raised"]
  /\ batch' = IF batch = "running" THEN "raised" ELSE batch
  /\ UNCHANGED <<next, at, resolved, held, results, entered, others, starts>>
  /\ RegistryUnchanged

Return ==
  /\ batch = "running" /\ \A w \in Workers : phase[w] = "over"
  /\ batch' = "returned"
  /\ UNCHANGED <<next, phase, at, resolved, held, results, entered, others, starts>>
  /\ RegistryUnchanged

(* A cancelled caller: gather cancels every worker and ends when all have. *)
Cancel ==
  /\ batch = "running"
  /\ batch' = "cancelled"
  /\ phase' = [w \in Workers |-> "over"]
  /\ at' = [w \in Workers |-> 0]
  /\ resolved' = [w \in Workers |-> 0]
  /\ held' = [w \in Workers |-> {}]
  /\ UNCHANGED <<next, results, entered, others, starts>>
  /\ RegistryUnchanged

OthersChange ==
  /\ \/ others < MaxOthers /\ Pending < MaxPending /\ others' = others + 1
     \/ others > 0 /\ others' = others - 1
  /\ UNCHANGED <<batch, next, phase, at, resolved, held, results, entered, starts>>
  /\ RegistryUnchanged

Next ==
  \/ RegistryNext /\ UNCHANGED <<clock, batchVars>>
  \/ Tick /\ UNCHANGED batchVars
  \/ InvokeMany \/ Return \/ Cancel \/ OthersChange
  \/ \E w \in Workers :
       Pull(w) \/ Stop(w) \/ Resolve(w) \/ Start(w) \/ Finish(w) \/ Raise(w)

Spec == Init /\ [][Next]_vars
-----------------------------------------------------------------------------
(***************************************************************************)
(* An invocation is governed by exactly the controls that came with the    *)
(* registration it resolved, never by none yet, by those of the            *)
(* registration it replaced, or by one that another thread is attaching;   *)
(* and each table holds at most one entry per name, so that replacing a    *)
(* tool over and over does not make it grow.                               *)
(***************************************************************************)
ControlsFollowRegistration ==
  /\ \A w \in Workers : phase[w] \in {"queued", "running"} => held[w] = wanted[resolved[w]]
  /\ \A k \in Controls : \A i, j \in tables[k] : nameOf[i] = nameOf[j] => i = j

(***************************************************************************)
(* Whatever two threads compile at the same time, the registry never holds *)
(* more tools than its capacity, and a registration only takes the place   *)
(* of another one when its caller said replace.                            *)
(***************************************************************************)
RegistryIsGuarded ==
  [][/\ Cardinality({n \in Names : tools'[n] # 0}) <= MaxTools
     /\ \A n \in Names : tools[n] # 0 /\ tools'[n] \notin {0, tools[n]} =>
          \E t \in Threads : /\ place[t] # place'[t]
                             /\ \E o \in {order[t], order'[t]} : o.name = n /\ o.replace]_vars

(***************************************************************************)
(* The rate limit: in no window of time do the functions of one            *)
(* registration start more often than the burst plus what the window       *)
(* refills, however late or often refused calls came back.                 *)
(***************************************************************************)
RateBounded ==
  \A id \in tables["rate"] : \A i, j \in DOMAIN starts[id] : i <= j =>
    (j - i + 1) * Interval <= BurstCapacity * Interval + (starts[id][j] - starts[id][i])

(***************************************************************************)
(* invoke_many: each call is handed to invoke at most once; when the batch *)
(* returns, every call has its result in its own place; and a batch never  *)
(* makes its own calls busy: one is refused only while an invocation from  *)
(* outside is pending.                                                     *)
(***************************************************************************)
EachCallOnce ==
  /\ \A c \in Calls : entered[c] <= 1
  /\ batch = "returned" => \A c \in Calls : results[c] # "" /\ entered[c] = 1

BatchIsFaithful ==
  [][/\ EachCallOnce'
     /\ \A c \in Calls : results[c] = "" /\ results'[c] = "busy" => others > 0]_vars
=============================================================================
