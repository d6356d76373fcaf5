----------------------------- MODULE ToolRegistry -----------------------------
(***************************************************************************)
(* Registration from several threads while a loop invokes tools:           *)
(* ToolRegistry.register checks, compiles the contract without the lock,   *)
(* and checks again; ToolRuntime.register holds the registry's lock over   *)
(* the registration and over the three tables in which the bulkhead, the   *)
(* rate limit and the breaker of that exact registration are found.        *)
(* A registration is a number; a rate limit is a token bucket counted in   *)
(* units of which one is refilled per clock tick and Interval make a token. *)
(***************************************************************************)
EXTENDS Naturals, Sequences, FiniteSets, FiniteSetsExt

CONSTANTS
  Names,             \* tool names
  Threads,           \* threads that register and unregister
  Orders,            \* what they may ask for: [api, name, replace, controls]
  MaxTools,          \* registry capacity
  MaxRegistrations,  \* bound: registrations in a behaviour
  BurstCapacity,     \* tokens of a full bucket
  Interval,          \* ticks per token
  MaxTime            \* bound on the clock

Controls == {"bulkhead", "rate", "circuit"}
Free  == "free"

(* ToolRegistry.register has no parameters for controls. *)
ASSUME RegistryAssumption ==
  /\ IsFiniteSet(Names) /\ IsFiniteSet(Threads) /\ Free \notin Threads
  /\ Orders \subseteq [api : {"registry", "runtime"}, name : Names,
                      replace : BOOLEAN, controls : SUBSET Controls]
  /\ \A o \in Orders : o.api = "registry" => o.controls = {}
  /\ {MaxTools, BurstCapacity, Interval} \subseteq Nat \ {0}
  /\ {MaxRegistrations, MaxTime} \subseteq Nat

Ids   == 1..MaxRegistrations

VARIABLES
  tools,      \* _tools: the registration of a name, 0 if none
  made,       \* registrations made so far
  nameOf,     \* the name of a registration
  wanted,     \* the controls it was registered with
  tables,     \* the registrations with an entry in each of the three tables
  bucket,     \* the rate limiter of a registration: [units, updated_at]
  lock,       \* the thread inside the registry's lock across steps
  order,      \* what a thread is registering
  place,      \* where it is
  clock

registryVars == <<tools, made, nameOf, wanted, tables, bucket, lock, order, place>>

NoOrder == [api |-> "", name |-> "", replace |-> FALSE, controls |-> {}]

RegistryInit ==
  /\ tools = [n \in Names |-> 0] /\ made = 0
  /\ nameOf = [i \in Ids |-> ""] /\ wanted = [i \in Ids |-> {}]
  /\ tables = [k \in Controls |-> {}]
  /\ bucket = [i \in Ids |-> [units |-> 0, updated_at |-> 0]]
  /\ lock = Free
  /\ order = [t \in Threads |-> NoOrder] /\ place = [t \in Threads |-> "idle"]
  /\ clock = 0
-----------------------------------------------------------------------------
Registered == {n \in Names : tools[n] # 0}

(* The two refusals: DuplicateToolError and RegistryCapacityError. *)
Accepts(o) ==
  /\ tools[o.name] # 0 => o.replace
  /\ tools[o.name] = 0 => Cardinality(Registered) < MaxTools
AcceptsAnyway(o) == TRUE                   \* mutant: no second check
StillAccepts(o) == Accepts(o)

MayEnter(t) == lock = Free

Inserted(o) ==
  /\ made' = made + 1
  /\ nameOf' = [nameOf EXCEPT ![made'] = o.name]
  /\ wanted' = [wanted EXCEPT ![made'] = o.controls]
  /\ tools' = [tools EXCEPT ![o.name] = made']

Busy == {t \in Threads : place[t] = "compiling"}

(* registry.register: the first check, under the lock. *)
Check(t, o) ==
  /\ o.api = "registry" /\ place[t] = "idle" /\ MayEnter(t)
  /\ made + Cardinality(Busy) < MaxRegistrations
  /\ Accepts(o)
  /\ order' = [order EXCEPT ![t] = o]
  /\ place' = [place EXCEPT ![t] = "compiling"]
  /\ UNCHANGED <<tools, made, nameOf, wanted, tables, bucket, lock>>

(* The contract is compiled; the second check and the insertion follow.    *)
Recheck(t) ==
  /\ place[t] = "compiling" /\ MayEnter(t)
  /\ IF StillAccepts(order[t])
       THEN Inserted(order[t])
       ELSE UNCHANGED <<tools, made, nameOf, wanted>>
  /\ place' = [place EXCEPT ![t] = "idle"]
  /\ order' = [order EXCEPT ![t] = NoOrder]
  /\ UNCHANGED <<tables, bucket, lock>>

(* runtime.register keeps the lock from the registration to its controls.  *)
RegisterTool(t, o) ==
  /\ o.api = "runtime" /\ place[t] = "idle" /\ MayEnter(t)
  /\ made + Cardinality(Busy) < MaxRegistrations
  /\ Accepts(o)
  /\ Inserted(o)
  /\ lock' = t
  /\ order' = [order EXCEPT ![t] = o]
  /\ place' = [place EXCEPT ![t] = "attaching"]
  /\ UNCHANGED <<tables, bucket>>

(* The entries of a name are dropped whichever registration they were of.  *)
OfAnyTool(ids, o) == ids                   \* mutant: the entries replaced are kept
OfOtherTools(ids, o) == {i \in ids : nameOf[i] # o.name}

Attach(t) ==
  /\ place[t] = "attaching"
  /\ LET o == order[t]
         id == tools[o.name]
     IN  /\ tables' = [k \in Controls |->
                         OfOtherTools(tables[k], o) \cup (IF k \in o.controls THEN {id} ELSE {})]
         /\ bucket' = IF "rate" \in o.controls
                        THEN [bucket EXCEPT ![id] = [units |-> BurstCapacity * Interval,
                                                     updated_at |-> clock]]
                        ELSE bucket
  /\ lock' = Free
  /\ place' = [place EXCEPT ![t] = "idle"]
  /\ order' = [order EXCEPT ![t] = NoOrder]
  /\ UNCHANGED <<tools, made, nameOf, wanted>>

(* The tables keep the entries of an unregistered tool. *)
Unregister(t, n) ==
  /\ place[t] = "idle" /\ MayEnter(t)
  /\ tools[n] # 0
  /\ tools' = [tools EXCEPT ![n] = 0]
  /\ UNCHANGED <<made, nameOf, wanted, tables, bucket, lock, order, place>>

RegistryNext ==
  \E t \in Threads :
    \/ \E o \in Orders : Check(t, o) \/ RegisterTool(t, o)
    \/ Recheck(t) \/ Attach(t)
    \/ \E n \in Names : Unregister(t, n)
-----------------------------------------------------------------------------
(* What an invocation takes with it when it resolves a name. *)
ControlsOf(id) == {k \in Controls : id \in tables[k]}

(* _TokenBucket.try_acquire *)
RefilledTwice(b) ==                        \* mutant: a refusal leaves updated_at alone
  [units      |-> Min({BurstCapacity * Interval, b.units + (clock - b.updated_at)}),
   updated_at |-> IF b.units + (clock - b.updated_at) < Interval THEN b.updated_at ELSE clock]

Refilled(b) ==
  LET now == Max({clock, b.updated_at})
  IN  [units      |-> Min({BurstCapacity * Interval, b.units + (now - b.updated_at)}),
       updated_at |-> now]

HasToken(b) == Refilled(b).units >= Interval
Acquired(b) ==
  LET full == Refilled(b)
  IN  IF full.units >= Interval THEN [full EXCEPT !.units = @ - Interval] ELSE full

Tick ==
  /\ clock < MaxTime
  /\ clock' = clock + 1
  /\ UNCHANGED registryVars
=============================================================================
