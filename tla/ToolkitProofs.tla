---------------------------- MODULE ToolkitProofs ----------------------------
(***************************************************************************)
(* Theorems about what MCToolkit checks on small instances.                *)
(*                                                                         *)
(* ToolRegistry and ToolBatch, for every number of names, threads, orders, *)
(* registrations and calls: who may change the registry (Locked), what the *)
(* tables of controls hold (Attached), what an invocation took along       *)
(* (Governed), how the calls of a batch are handed out (HandedOut), and    *)
(* how far a rate limit lets functions start (Metered).                    *)
(*                                                                         *)
(* ToolProgress, for every set of reporters, every cap and every number of *)
(* reports: who sends has the lock (Delivery), what the scope took up is   *)
(* in order and was answered (Ordered), and what may still come after the  *)
(* stop, the log and the answer (Ending).                                  *)
(***************************************************************************)
EXTENDS ToolBatch, ToolProgress, FiniteSetTheorems, TLAPS

(* A worker's own steps, and the steps of the batch as a whole. *)
WorkerStep(w) == Pull(w) \/ Stop(w) \/ Resolve(w) \/ Start(w) \/ Finish(w) \/ Raise(w)
BatchStep == InvokeMany \/ Return \/ Cancel \/ OthersChange

(* Every step is one of these. *)
LEMMA StepCases ==
  ASSUME [Next]_vars
  PROVE  \/ RegistryNext /\ UNCHANGED <<clock, batchVars>>
         \/ Tick /\ UNCHANGED batchVars
         \/ BatchStep
         \/ \E w \in Workers : WorkerStep(w)
         \/ UNCHANGED vars
BY DEF Next, WorkerStep, BatchStep

-----------------------------------------------------------------------------
(* The registry and its lock.                                              *)

(* What the batch never changes. *)
catalogue == <<tools, made, nameOf, wanted, tables, lock, order, place>>

RegistryTypes ==
  /\ tools \in [Names -> Ids \cup {0}]
  /\ made \in 0 .. MaxRegistrations
  /\ nameOf \in [Ids -> Names \cup {""}]
  /\ wanted \in [Ids -> SUBSET Controls]
  /\ tables \in [Controls -> SUBSET Ids]
  /\ lock \in Threads \cup {Free}
  /\ order \in [Threads -> Orders \cup {NoOrder}]
  /\ place \in [Threads -> {"idle", "compiling", "attaching"}]

(***************************************************************************)
(* The thread that attaches controls is the one inside the lock; a thread  *)
(* that compiles has an order of ToolRegistry.register; there is a number  *)
(* left for each of them; and the registry is within its capacity.         *)
(***************************************************************************)
Locked ==
  /\ \A t \in Threads : place[t] = "attaching" <=> lock = t
  /\ \A t \in Threads : place[t] # "idle" => order[t] \in Orders
  /\ \A t \in Threads : place[t] = "compiling" => order[t].api = "registry"
  /\ made + Cardinality(Busy) <= MaxRegistrations
  /\ Cardinality(Registered) <= MaxTools

(* A thread between its registration and the end of its attachment. *)
Attaching(n) == \E t \in Threads : place[t] = "attaching" /\ order[t].name = n

(***************************************************************************)
(* A name's registration is one made for it; a table holds registrations   *)
(* that wanted the control, one per name; a registration that is not being *)
(* attached has all it wanted, and one that is, nothing yet.               *)
(***************************************************************************)
Attached ==
  /\ \A n \in Names : tools[n] # 0 => tools[n] \in 1 .. made /\ nameOf[tools[n]] = n
  /\ \A k \in Controls : \A i \in tables[k] : i \in 1 .. made /\ k \in wanted[i]
  /\ \A k \in Controls : \A i, j \in tables[k] : nameOf[i] = nameOf[j] => i = j
  /\ \A n \in Names : tools[n] # 0 /\ ~Attaching(n) =>
       \A k \in wanted[tools[n]] : tools[n] \in tables[k]
  /\ \A t \in Threads : place[t] = "attaching" =>
       /\ made # 0 /\ tools[order[t].name] = made
       /\ wanted[made] = order[t].controls
       /\ \A k \in Controls : made \notin tables[k]

Registry == RegistryTypes /\ Locked /\ Attached

(* The bounds are numbers. *)
LEMMA Limits ==
  /\ MaxTools \in Nat /\ MaxTools > 0 /\ BurstCapacity \in Nat /\ BurstCapacity > 0
  /\ Interval \in Nat /\ Interval > 0
  /\ MaxRegistrations \in Nat /\ MaxTime \in Nat
<1>1. MaxTools \in Nat \ {0} /\ BurstCapacity \in Nat \ {0} /\ Interval \in Nat \ {0}
  BY RegistryAssumption
<1>2. MaxRegistrations \in Nat /\ MaxTime \in Nat
  BY RegistryAssumption
<1> QED BY <1>1, <1>2

(* How many registrations there are. *)
LEMMA MadeCount ==
  ASSUME Registry
  PROVE  made \in Nat /\ made <= MaxRegistrations
<1>1. made \in 0 .. MaxRegistrations
  BY DEF Registry, RegistryTypes
<1> QED BY <1>1, Limits

(* Numbers of registrations. *)
LEMMA IdFacts == Ids = {i \in Nat : 1 <= i /\ i <= MaxRegistrations}
BY Limits DEF Ids

(* Threads and names are finitely many. *)
LEMMA Counts ==
  /\ IsFiniteSet(Busy) /\ Cardinality(Busy) \in Nat
  /\ IsFiniteSet(Registered) /\ Cardinality(Registered) \in Nat
<1>1. IsFiniteSet(Busy) /\ IsFiniteSet(Registered)
  BY RegistryAssumption, FS_Subset DEF Busy, Registered
<1> QED BY <1>1, FS_CardinalityType

(* Fields of an order. *)
LEMMA OrderFacts ==
  ASSUME NEW o \in Orders
  PROVE  /\ o.name \in Names /\ o.replace \in BOOLEAN /\ o.controls \in SUBSET Controls
         /\ o.api \in {"registry", "runtime"} /\ (o.api = "registry" => o.controls = {})
BY RegistryAssumption

(* A new registry is empty and unlocked. *)
LEMMA RegistryInitially == RegistryInit => Registry
<1> SUFFICES ASSUME RegistryInit PROVE Registry
  OBVIOUS
<1>1. RegistryTypes
  <2>1. made \in 0 .. MaxRegistrations
    <3>1. made = 0
      BY DEF RegistryInit
    <3> QED BY <3>1, Limits
  <2>2. tools \in [Names -> Ids \cup {0}]
    BY DEF RegistryInit
  <2>3. nameOf \in [Ids -> Names \cup {""}] /\ wanted \in [Ids -> SUBSET Controls]
    BY DEF RegistryInit
  <2>4. tables \in [Controls -> SUBSET Ids]
    BY DEF RegistryInit
  <2>5. order \in [Threads -> Orders \cup {NoOrder}]
    BY DEF RegistryInit
  <2>6. lock \in Threads \cup {Free} /\ place \in [Threads -> {"idle", "compiling", "attaching"}]
    BY DEF RegistryInit
  <2> QED BY <2>1, <2>2, <2>3, <2>4, <2>5, <2>6 DEF RegistryTypes
<1>2. Busy = {} /\ Registered = {}
  BY DEF RegistryInit, Busy, Registered
<1>3. Locked
  <2>1. Cardinality({}) = 0
    BY FS_EmptySet
  <2>2. \A t \in Threads : place[t] = "idle"
    BY DEF RegistryInit
  <2>3. Free \notin Threads /\ lock = Free /\ made = 0
    BY RegistryAssumption DEF RegistryInit
  <2>4. made + Cardinality(Busy) <= MaxRegistrations /\ Cardinality(Registered) <= MaxTools
    BY <1>2, <2>1, <2>3, Limits
  <2> QED BY <2>2, <2>3, <2>4 DEF Locked
<1>4. Attached
  BY DEF RegistryInit, Attached
<1> QED BY <1>1, <1>3, <1>4 DEF Registry

(* An accepted order keeps the registry within its capacity. *)
LEMMA InsertedFits ==
  ASSUME Registry, NEW o \in Orders, Accepts(o), Inserted(o), made < MaxRegistrations
  PROVE  /\ made' = made + 1 /\ made' \in Ids
         /\ tools' = [tools EXCEPT ![o.name] = made'] /\ tools' \in [Names -> Ids \cup {0}]
         /\ nameOf' = [nameOf EXCEPT ![made'] = o.name]
         /\ nameOf' \in [Ids -> Names \cup {""}]
         /\ wanted' = [wanted EXCEPT ![made'] = o.controls]
         /\ wanted' \in [Ids -> SUBSET Controls]
         /\ Cardinality(Registered') <= MaxTools
<1>1. /\ made' = made + 1 /\ made' \in Ids /\ made' # 0
      /\ tools' = [tools EXCEPT ![o.name] = made']
      /\ nameOf' = [nameOf EXCEPT ![made'] = o.name]
      /\ wanted' = [wanted EXCEPT ![made'] = o.controls]
  <2>1. made' = made + 1
    BY DEF Inserted
  <2>2. made' \in Ids /\ made' # 0
    <3>1. made \in 0 .. MaxRegistrations
      BY DEF Registry, RegistryTypes
    <3> QED BY <2>1, <3>1, Limits DEF Ids
  <2> QED BY <2>1, <2>2 DEF Inserted
<1>2. /\ tools' \in [Names -> Ids \cup {0}]
      /\ nameOf' \in [Ids -> Names \cup {""}]
      /\ wanted' \in [Ids -> SUBSET Controls]
  BY <1>1, OrderFacts DEF Registry, RegistryTypes
<1>3. Registered' = Registered \cup {o.name}
  BY <1>1, OrderFacts DEF Registered, Registry, RegistryTypes
<1>4. Cardinality(Registered') <= MaxTools
  <2>1. CASE o.name \in Registered
    BY <1>3, <2>1 DEF Registry, Locked
  <2>2. CASE o.name \notin Registered
    <3>1. Cardinality(Registered) < MaxTools
      BY <2>2, OrderFacts DEF Accepts, Registered
    <3>2. Cardinality(Registered') = Cardinality(Registered) + 1
      BY <1>3, <2>2, Counts, FS_AddElement
    <3> QED BY <3>1, <3>2, Counts, Limits
  <2> QED BY <2>1, <2>2
<1> QED BY <1>1, <1>2, <1>4

(* Outside the lock nobody attaches. *)
LEMMA NobodyAttaches ==
  ASSUME Registry, lock = Free
  PROVE  \A t \in Threads : place[t] # "attaching"
BY RegistryAssumption DEF Registry, Locked

(* What an insertion changes of Attached, when nobody attaches. *)
LEMMA InsertedAttached ==
  ASSUME Registry, lock = Free, NEW o \in Orders, Accepts(o), Inserted(o),
         made < MaxRegistrations, tables' = tables
  PROVE  /\ tools'[o.name] = made' /\ nameOf'[made'] = o.name /\ wanted'[made'] = o.controls
         /\ \A n \in Names \ {o.name} : tools'[n] = tools[n]
         /\ \A i \in 1 .. made : nameOf'[i] = nameOf[i] /\ wanted'[i] = wanted[i]
         /\ \A n \in Names : tools'[n] # 0 => tools'[n] \in 1 .. made' /\ nameOf'[tools'[n]] = n
         /\ \A k \in Controls : \A i \in tables'[k] : i \in 1 .. made' /\ k \in wanted'[i]
         /\ \A k \in Controls : \A i, j \in tables'[k] : nameOf'[i] = nameOf'[j] => i = j
         /\ \A n \in Names \ {o.name} : tools'[n] # 0 =>
              \A k \in wanted'[tools'[n]] : tools'[n] \in tables'[k]
         /\ \A k \in Controls : made' \notin tables'[k]
<1>1. /\ made \in Nat /\ made' = made + 1 /\ made' \in Ids
      /\ tools' = [tools EXCEPT ![o.name] = made'] /\ tools \in [Names -> Ids \cup {0}]
      /\ nameOf' = [nameOf EXCEPT ![made'] = o.name] /\ nameOf \in [Ids -> Names \cup {""}]
      /\ wanted' = [wanted EXCEPT ![made'] = o.controls] /\ wanted \in [Ids -> SUBSET Controls]
      /\ o.name \in Names
  <2>1. made \in Nat
    BY MadeCount
  <2>2. o.name \in Names
    BY OrderFacts
  <2> QED BY <2>1, <2>2, InsertedFits DEF Registry, RegistryTypes
<1>2. tools'[o.name] = made' /\ nameOf'[made'] = o.name /\ wanted'[made'] = o.controls
  BY <1>1
<1>3. \A n \in Names \ {o.name} : tools'[n] = tools[n]
  BY <1>1
<1>4. \A i \in 1 .. made : i \in Ids /\ i # made' /\ i \in 1 .. made' /\ i # 0
  <2> SUFFICES ASSUME NEW i \in 1 .. made
               PROVE  i \in Ids /\ i # made' /\ i \in 1 .. made' /\ i # 0
    OBVIOUS
  <2>1. i \in Nat /\ 1 <= i /\ i <= made /\ made' = made + 1 /\ made \in Nat
    <3>1. made \in Nat /\ made' = made + 1
      BY <1>1
    <3> QED BY <3>1
  <2>2. i # made' /\ i \in 1 .. made' /\ i # 0
    BY <2>1
  <2>3. i <= MaxRegistrations
    BY <2>1, Limits, MadeCount
  <2> QED BY <2>1, <2>2, <2>3, IdFacts
<1>5. \A i \in 1 .. made : nameOf'[i] = nameOf[i] /\ wanted'[i] = wanted[i]
  BY <1>1, <1>4
<1>6. \A n \in Names \ {o.name} : tools'[n] # 0 =>
        tools'[n] \in 1 .. made /\ nameOf'[tools'[n]] = n
  BY <1>3, <1>5 DEF Registry, Attached
<1>7. made' \in 1 .. made'
  <2>1. made \in Nat /\ made' = made + 1
    BY <1>1
  <2> QED BY <2>1
<1>8. \A n \in Names : tools'[n] # 0 => tools'[n] \in 1 .. made' /\ nameOf'[tools'[n]] = n
  BY <1>2, <1>4, <1>6, <1>7
<1>9. \A k \in Controls : \A i \in tables[k] : i \in 1 .. made /\ k \in wanted[i]
  BY DEF Registry, Attached
<1>10. \A k \in Controls : \A i \in tables'[k] : i \in 1 .. made' /\ k \in wanted'[i]
  BY <1>4, <1>5, <1>9
<1>11. \A k \in Controls : \A i, j \in tables'[k] : nameOf'[i] = nameOf'[j] => i = j
  BY <1>5, <1>9 DEF Registry, Attached
<1>12. \A n \in Names \ {o.name} : tools'[n] # 0 =>
         \A k \in wanted'[tools'[n]] : tools'[n] \in tables'[k]
  BY <1>3, <1>5, <1>6, NobodyAttaches DEF Registry, Attached, Attaching
<1>13. \A k \in Controls : made' \notin tables'[k]
  BY <1>4, <1>9
<1> QED BY <1>2, <1>3, <1>5, <1>8, <1>10, <1>11, <1>12, <1>13

(* The first check only reserves a number for the thread. *)
LEMMA CheckKeepsRegistry ==
  ASSUME Registry, NEW t \in Threads, NEW o \in Orders, Check(t, o)
  PROVE  Registry'
<1> USE DEF Check, MayEnter
<1>1. /\ place \in [Threads -> {"idle", "compiling", "attaching"}]
      /\ order \in [Threads -> Orders \cup {NoOrder}]
  BY DEF Registry, RegistryTypes
<1>2. RegistryTypes'
  BY <1>1 DEF Registry, RegistryTypes
<1>3. Busy' = Busy \cup {t} /\ t \notin Busy
  BY <1>1 DEF Busy
<1>4. Cardinality(Busy') = Cardinality(Busy) + 1
  BY <1>3, Counts, FS_AddElement
<1>5. made' + Cardinality(Busy') <= MaxRegistrations
  <2>1. made + Cardinality(Busy) < MaxRegistrations /\ made' = made
    OBVIOUS
  <2> HIDE DEF Check, MayEnter
  <2> QED BY <1>4, <2>1, Counts, Limits, MadeCount
<1>6. \A u \in Threads : place'[u] # "attaching"
  BY <1>1, NobodyAttaches
<1>7. lock' \notin Threads
  BY RegistryAssumption
<1>8. Registered' = Registered
  BY DEF Registered
<1>9. \A u \in Threads : place'[u] # "idle" => order'[u] \in Orders
  BY <1>1 DEF Registry, Locked
<1>10. \A u \in Threads : place'[u] = "compiling" => order'[u].api = "registry"
  BY <1>1 DEF Registry, Locked
<1>11. Cardinality(Registered') <= MaxTools
  BY <1>8 DEF Registry, Locked
<1>12. Locked'
  BY <1>5, <1>6, <1>7, <1>9, <1>10, <1>11 DEF Locked
<1>13. Attached'
  BY <1>6, NobodyAttaches DEF Registry, Attached, Attaching
<1> QED BY <1>2, <1>12, <1>13 DEF Registry

(* The second check, and the insertion unless it refuses. *)
LEMMA RecheckKeepsRegistry ==
  ASSUME Registry, NEW t \in Threads, Recheck(t)
  PROVE  Registry'
<1> USE DEF MayEnter
<1> DEFINE o == order[t]
<1>1. /\ place \in [Threads -> {"idle", "compiling", "attaching"}]
      /\ order \in [Threads -> Orders \cup {NoOrder}]
  BY DEF Registry, RegistryTypes
<1>2. /\ place[t] = "compiling" /\ lock = Free /\ lock' = lock /\ tables' = tables
      /\ place' = [place EXCEPT ![t] = "idle"]
      /\ order' = [order EXCEPT ![t] = NoOrder]
  BY DEF Recheck
<1>3. o \in Orders /\ o.api = "registry" /\ o.controls = {}
  <2>1. o \in Orders /\ o.api = "registry"
    BY <1>2 DEF Registry, Locked
  <2> QED BY <2>1, OrderFacts
<1>4. Busy' = Busy \ {t} /\ t \in Busy
  BY <1>1, <1>2 DEF Busy
<1>5. Cardinality(Busy') = Cardinality(Busy) - 1
  BY <1>4, Counts, FS_RemoveElement
<1>6. \A u \in Threads : place'[u] # "attaching"
  BY <1>1, <1>2, NobodyAttaches
<1>7. lock' \notin Threads
  BY <1>2, RegistryAssumption
<1>8. \A u \in Threads : place'[u] # "idle" => order'[u] \in Orders
  BY <1>1, <1>2 DEF Registry, Locked
<1>9. \A u \in Threads : place'[u] = "compiling" => order'[u].api = "registry"
  BY <1>1, <1>2 DEF Registry, Locked
<1>10. made + Cardinality(Busy) <= MaxRegistrations
  BY DEF Registry, Locked
<1>11. Cardinality(Busy) >= 1
  <2>1. Cardinality(Busy') \in Nat
    BY <1>4, Counts, FS_RemoveElement, FS_CardinalityType
  <2> QED BY <1>5, <2>1, Counts
<1>12. /\ place' \in [Threads -> {"idle", "compiling", "attaching"}]
       /\ order' \in [Threads -> Orders \cup {NoOrder}]
  BY <1>1, <1>2
<1>13. CASE StillAccepts(o)
  <2>1. Inserted(o) /\ Accepts(o)
    BY <1>13 DEF Recheck, StillAccepts
  <2>2. made < MaxRegistrations
    BY <1>10, <1>11, Counts, MadeCount, Limits
  <2>3. /\ made' = made + 1 /\ made' \in Ids
        /\ tools' \in [Names -> Ids \cup {0}]
        /\ nameOf' \in [Ids -> Names \cup {""}]
        /\ wanted' \in [Ids -> SUBSET Controls]
        /\ Cardinality(Registered') <= MaxTools
    BY <1>3, <2>1, <2>2, InsertedFits
  <2>4. made' \in 0 .. MaxRegistrations
    <3>1. made' = made + 1
      BY <2>3
    <3> QED BY <2>2, <3>1, MadeCount, Limits
  <2>5. RegistryTypes'
    BY <1>2, <1>12, <2>3, <2>4 DEF Registry, RegistryTypes
  <2>6. made' + Cardinality(Busy') <= MaxRegistrations
    <3>1. made' = made + 1
      BY <2>3
    <3> QED BY <1>5, <1>10, <3>1, Counts, MadeCount, Limits
  <2>7. Locked'
    BY <1>6, <1>7, <1>8, <1>9, <2>3, <2>6 DEF Locked
  <2> HIDE DEF o
  <2>8. Attached'
    <3>1. /\ tools'[o.name] = made' /\ wanted'[made'] = o.controls
          /\ \A n \in Names : tools'[n] # 0 => tools'[n] \in 1 .. made' /\ nameOf'[tools'[n]] = n
          /\ \A k \in Controls : \A i \in tables'[k] : i \in 1 .. made' /\ k \in wanted'[i]
          /\ \A k \in Controls : \A i, j \in tables'[k] : nameOf'[i] = nameOf'[j] => i = j
          /\ \A n \in Names \ {o.name} : tools'[n] # 0 =>
               \A k \in wanted'[tools'[n]] : tools'[n] \in tables'[k]
      BY <1>2, <1>3, <2>1, <2>2, InsertedAttached
    <3>2. \A n \in Names : tools'[n] # 0 =>
            \A k \in wanted'[tools'[n]] : tools'[n] \in tables'[k]
      BY <1>3, <3>1
    <3> QED BY <1>6, <3>1, <3>2 DEF Attached
  <2> QED BY <2>5, <2>7, <2>8 DEF Registry
<1>14. CASE ~StillAccepts(o)
  <2>1. UNCHANGED <<tools, made, nameOf, wanted, tables, lock>>
    BY <1>2, <1>14 DEF Recheck
  <2>2. RegistryTypes'
    BY <1>12, <2>1 DEF Registry, RegistryTypes
  <2>3. made' + Cardinality(Busy') <= MaxRegistrations
    BY <1>5, <1>10, <2>1, Counts, MadeCount, Limits
  <2>4. Cardinality(Registered') <= MaxTools
    BY <2>1 DEF Registry, Locked, Registered
  <2>5. Locked'
    BY <1>6, <1>7, <1>8, <1>9, <2>3, <2>4 DEF Locked
  <2>6. Attached'
    BY <1>2, <1>6, <2>1, NobodyAttaches DEF Registry, Attached, Attaching
  <2> QED BY <2>2, <2>5, <2>6 DEF Registry
<1> QED BY <1>13, <1>14

(* runtime.register inserts and stays inside the lock. *)
LEMMA RegisterKeepsRegistry ==
  ASSUME Registry, NEW t \in Threads, NEW o \in Orders, RegisterTool(t, o)
  PROVE  Registry'
<1> USE DEF MayEnter
<1>1. /\ place \in [Threads -> {"idle", "compiling", "attaching"}]
      /\ order \in [Threads -> Orders \cup {NoOrder}]
  BY DEF Registry, RegistryTypes
<1>2. /\ place[t] = "idle" /\ lock = Free /\ lock' = t /\ tables' = tables
      /\ place' = [place EXCEPT ![t] = "attaching"]
      /\ order' = [order EXCEPT ![t] = o]
      /\ Accepts(o) /\ Inserted(o) /\ made + Cardinality(Busy) < MaxRegistrations
  BY DEF RegisterTool
<1>3. Busy' = Busy
  BY <1>1, <1>2 DEF Busy
<1>4. made < MaxRegistrations
  BY <1>2, Counts, MadeCount, Limits
<1>5. /\ made' = made + 1 /\ made' \in Ids
      /\ tools' \in [Names -> Ids \cup {0}]
      /\ nameOf' \in [Ids -> Names \cup {""}]
      /\ wanted' \in [Ids -> SUBSET Controls]
      /\ Cardinality(Registered') <= MaxTools
  BY <1>2, <1>4, InsertedFits
<1>6. made' \in 0 .. MaxRegistrations /\ made' # 0
  <2>1. made' = made + 1
    BY <1>5
  <2> QED BY <1>4, <2>1, MadeCount, Limits
<1>7. RegistryTypes'
  BY <1>1, <1>2, <1>5, <1>6 DEF Registry, RegistryTypes
<1>8. made' + Cardinality(Busy') <= MaxRegistrations
  <2>1. made' = made + 1 /\ made + Cardinality(Busy) < MaxRegistrations
    BY <1>2, <1>5
  <2> QED BY <1>3, <2>1, Counts, MadeCount, Limits
<1>9. \A u \in Threads : place'[u] = "attaching" <=> u = t
  BY <1>1, <1>2, NobodyAttaches
<1>10. \A u \in Threads : place'[u] # "idle" => order'[u] \in Orders
  BY <1>1, <1>2 DEF Registry, Locked
<1>11. \A u \in Threads : place'[u] = "compiling" => order'[u].api = "registry"
  BY <1>1, <1>2 DEF Registry, Locked
<1>12. Locked'
  BY <1>2, <1>5, <1>8, <1>9, <1>10, <1>11 DEF Locked
<1>13. order'[t] = o
  BY <1>1, <1>2
<1>14. Attaching(o.name)'
  BY <1>9, <1>13 DEF Attaching
<1>15. Attached'
  <2>1. /\ tools'[o.name] = made' /\ wanted'[made'] = o.controls
        /\ \A n \in Names : tools'[n] # 0 => tools'[n] \in 1 .. made' /\ nameOf'[tools'[n]] = n
        /\ \A k \in Controls : \A i \in tables'[k] : i \in 1 .. made' /\ k \in wanted'[i]
        /\ \A k \in Controls : \A i, j \in tables'[k] : nameOf'[i] = nameOf'[j] => i = j
        /\ \A n \in Names \ {o.name} : tools'[n] # 0 =>
             \A k \in wanted'[tools'[n]] : tools'[n] \in tables'[k]
        /\ \A k \in Controls : made' \notin tables'[k]
    BY <1>2, <1>4, InsertedAttached
  <2>2. \A n \in Names : tools'[n] # 0 /\ ~Attaching(n)' =>
          \A k \in wanted'[tools'[n]] : tools'[n] \in tables'[k]
    BY <1>14, <2>1
  <2>3. \A u \in Threads : place'[u] = "attaching" =>
          /\ made' # 0 /\ tools'[order'[u].name] = made'
          /\ wanted'[made'] = order'[u].controls
          /\ \A k \in Controls : made' \notin tables'[k]
    BY <1>6, <1>9, <1>13, <2>1
  <2> QED BY <2>1, <2>2, <2>3 DEF Attached
<1> QED BY <1>7, <1>12, <1>15 DEF Registry

(* The end of an attachment: the tables hold the new registration, and no   *)
(* other one of its name.                                                   *)
LEMMA AttachKeepsRegistry ==
  ASSUME Registry, NEW t \in Threads, Attach(t)
  PROVE  /\ Registry'
         /\ made # 0 /\ made \in Ids /\ tools[order[t].name] = made
         /\ wanted[made] = order[t].controls /\ lock = t
         /\ \A k \in Controls : tables'[k] \ {made} \subseteq tables[k]
         /\ \A k \in Controls : made \in tables'[k] <=> k \in wanted[made]
<1> DEFINE o == order[t]
<1>1. /\ place \in [Threads -> {"idle", "compiling", "attaching"}]
      /\ order \in [Threads -> Orders \cup {NoOrder}]
      /\ tables \in [Controls -> SUBSET Ids]
  BY DEF Registry, RegistryTypes
<1>2. /\ place[t] = "attaching" /\ lock' = Free
      /\ place' = [place EXCEPT ![t] = "idle"]
      /\ order' = [order EXCEPT ![t] = NoOrder]
      /\ UNCHANGED <<tools, made, nameOf, wanted>>
  BY DEF Attach
<1>3. /\ o \in Orders /\ made # 0 /\ tools[o.name] = made
      /\ wanted[made] = o.controls /\ lock = t
      /\ \A k \in Controls : made \notin tables[k]
  BY <1>2 DEF Registry, Locked, Attached
<1>4. o.name \in Names /\ o.controls \in SUBSET Controls
  BY <1>3, OrderFacts
<1>5. made \in Ids /\ made \in 1 .. made
  BY <1>3, MadeCount, IdFacts
<1>6. nameOf[made] = o.name
  BY <1>3, <1>4 DEF Registry, Attached
<1>7. \A k \in Controls :
        tables'[k] = {i \in tables[k] : nameOf[i] # o.name}
                       \cup (IF k \in o.controls THEN {made} ELSE {})
  BY <1>3 DEF Attach, OfOtherTools
<1> HIDE DEF o
<1>8. \A k \in Controls : tables'[k] \ {made} \subseteq tables[k]
  BY <1>7
<1>9. \A k \in Controls : made \in tables'[k] <=> k \in o.controls
  BY <1>3, <1>7
<1>10. tables' \in [Controls -> SUBSET Ids]
  <2>1. tables' = [k \in Controls |-> tables'[k]]
    BY DEF Attach
  <2>2. \A k \in Controls : tables'[k] \in SUBSET Ids
    BY <1>1, <1>5, <1>8
  <2> QED BY <2>1, <2>2
<1>11. RegistryTypes'
  <2>1. lock' \in Threads \cup {Free}
    BY <1>2
  <2>2. /\ place' \in [Threads -> {"idle", "compiling", "attaching"}]
        /\ order' \in [Threads -> Orders \cup {NoOrder}]
    BY <1>1, <1>2
  <2> QED BY <1>2, <1>10, <2>1, <2>2 DEF Registry, RegistryTypes
<1>12. \A u \in Threads : place'[u] # "attaching"
  BY <1>1, <1>2, <1>3 DEF Registry, Locked
<1>13. Locked'
  <2>1. lock' \notin Threads
    BY <1>2, RegistryAssumption
  <2>2. Busy' = Busy /\ Registered' = Registered
    BY <1>1, <1>2 DEF Busy, Registered
  <2>3. made' + Cardinality(Busy') <= MaxRegistrations /\ Cardinality(Registered') <= MaxTools
    BY <1>2, <2>2 DEF Registry, Locked
  <2>4. \A u \in Threads : place'[u] # "idle" => order'[u] \in Orders
    BY <1>1, <1>2 DEF Registry, Locked
  <2>5. \A u \in Threads : place'[u] = "compiling" => order'[u].api = "registry"
    BY <1>1, <1>2 DEF Registry, Locked
  <2> QED BY <1>12, <2>1, <2>3, <2>4, <2>5 DEF Locked
<1>14. Attached'
  <2>1. \A n \in Names : tools'[n] # 0 => tools'[n] \in 1 .. made' /\ nameOf'[tools'[n]] = n
    BY <1>2 DEF Registry, Attached
  <2>2. \A k \in Controls : \A i \in tables'[k] : i \in 1 .. made' /\ k \in wanted'[i]
    <3>1. \A k \in Controls : \A i \in tables[k] : i \in 1 .. made /\ k \in wanted[i]
      BY DEF Registry, Attached
    <3> QED BY <1>2, <1>3, <1>5, <1>8, <1>9, <3>1
  <2>3. \A k \in Controls : \A i, j \in tables'[k] : nameOf'[i] = nameOf'[j] => i = j
    <3>1. \A k \in Controls : \A i, j \in tables[k] : nameOf[i] = nameOf[j] => i = j
      BY DEF Registry, Attached
    <3>2. \A k \in Controls : \A i \in tables'[k] : i # made => nameOf[i] # o.name /\ i \in tables[k]
      BY <1>7
    <3> QED BY <1>2, <1>6, <3>1, <3>2
  <2>4. \A n \in Names : tools'[n] # 0 =>
          \A k \in wanted'[tools'[n]] : tools'[n] \in tables'[k]
    <3> SUFFICES ASSUME NEW n \in Names, tools[n] # 0, NEW k \in wanted[tools[n]]
                 PROVE  tools[n] \in tables'[k]
      BY <1>2
    <3>1. k \in Controls
      <4>1. tools[n] \in Ids
        BY DEF Registry, RegistryTypes
      <4> QED BY <4>1 DEF Registry, RegistryTypes
    <3>2. CASE n = o.name
      BY <1>3, <1>9, <3>1, <3>2
    <3>3. CASE n # o.name
      <4>1. ~Attaching(n)
        BY <1>3, <3>3 DEF Attaching, Registry, Locked, o
      <4>2. tools[n] \in tables[k] /\ nameOf[tools[n]] = n
        BY <4>1 DEF Registry, Attached
      <4> QED BY <1>7, <3>1, <3>3, <4>2
    <3> QED BY <3>2, <3>3
  <2> QED BY <1>12, <2>1, <2>2, <2>3, <2>4 DEF Attached
<1> QED BY <1>3, <1>5, <1>8, <1>9, <1>11, <1>13, <1>14 DEF Registry, o

(* Outside the lock an unregistration takes the name alone. *)
LEMMA UnregisterKeepsRegistry ==
  ASSUME Registry, NEW t \in Threads, NEW n \in Names, Unregister(t, n)
  PROVE  Registry'
<1> USE DEF Unregister, MayEnter
<1>1. tools \in [Names -> Ids \cup {0}]
  BY DEF Registry, RegistryTypes
<1>2. tools' \in [Names -> Ids \cup {0}] /\ \A m \in Names : tools'[m] \in {0, tools[m]}
  BY <1>1
<1>3. RegistryTypes'
  BY <1>2 DEF Registry, RegistryTypes
<1>4. Busy' = Busy /\ Registered' \subseteq Registered
  BY <1>2 DEF Busy, Registered
<1>5. Cardinality(Registered') <= MaxTools
  <2>1. Cardinality(Registered') <= Cardinality(Registered) /\ Cardinality(Registered') \in Nat
    BY <1>4, Counts, FS_Subset, FS_CardinalityType
  <2>2. Cardinality(Registered) <= MaxTools
    BY DEF Registry, Locked
  <2> QED BY <2>1, <2>2, Counts, Limits
<1>6. Locked'
  BY <1>4, <1>5 DEF Registry, Locked
<1>7. Attached'
  BY <1>2, NobodyAttaches DEF Registry, Attached, Attaching
<1> QED BY <1>3, <1>6, <1>7 DEF Registry

(* No step breaks what is known of the registry. *)
LEMMA RegistryPreserved ==
  ASSUME Registry, [Next]_vars
  PROVE  Registry'
<1>1. CASE RegistryNext
  BY <1>1, CheckKeepsRegistry, RecheckKeepsRegistry, RegisterKeepsRegistry,
     AttachKeepsRegistry, UnregisterKeepsRegistry DEF RegistryNext
<1>2. CASE UNCHANGED catalogue
  <2>1. RegistryTypes'
    BY <1>2 DEF catalogue, Registry, RegistryTypes
  <2>2. Busy' = Busy /\ Registered' = Registered
    BY <1>2 DEF catalogue, Busy, Registered
  <2>3. Locked'
    BY <1>2, <2>2 DEF catalogue, Registry, Locked
  <2>4. \A n \in Names : Attaching(n)' <=> Attaching(n)
    BY <1>2 DEF catalogue, Attaching
  <2>5. Attached'
    BY <1>2, <2>4 DEF catalogue, Registry, Attached
  <2> QED BY <2>1, <2>3, <2>5 DEF Registry
<1>3. CASE Tick
  BY <1>2, <1>3 DEF Tick, registryVars, catalogue
<1>4. CASE BatchStep
  BY <1>2, <1>4 DEF BatchStep, InvokeMany, Return, Cancel, OthersChange, RegistryUnchanged,
     registryVars, catalogue
<1>5. ASSUME NEW w \in Workers, WorkerStep(w)
      PROVE  Registry'
  BY <1>2, <1>5 DEF WorkerStep, Pull, Stop, Resolve, Start, Finish, Raise, RegistryUnchanged,
     registryVars, catalogue
<1> QED BY <1>1, <1>2, <1>3, <1>4, <1>5, StepCases DEF vars, registryVars, catalogue

(***************************************************************************)
(* In every behaviour the lock, the registrations and the tables of        *)
(* controls fit together.                                                  *)
(***************************************************************************)
THEOREM RegistryHolds == Spec => []Registry
<1>1. Init => Registry
  BY RegistryInitially DEF Init
<1>2. Registry /\ [Next]_vars => Registry'
  BY RegistryPreserved
<1> QED BY <1>1, <1>2, PTL DEF Spec

-----------------------------------------------------------------------------
(* Capacity and replacement.                                               *)

(* An insertion takes another registration's place only if told to.        *)
LEMMA InsertionAsked ==
  ASSUME Registry, NEW o \in Orders, Accepts(o), Inserted(o), NEW n \in Names,
         tools[n] # 0, tools'[n] \notin {0, tools[n]}
  PROVE  o.name = n /\ o.replace
<1>1. tools \in [Names -> Ids \cup {0}] /\ tools' = [tools EXCEPT ![o.name] = made']
  BY DEF Inserted, Registry, RegistryTypes
<1>2. o.name = n
  BY <1>1
<1> QED BY <1>2 DEF Accepts

(* What a step that leaves the tools alone, or drops one, may show.        *)
LEMMA ReplacementAsked ==
  ASSUME Registry, [Next]_vars, NEW n \in Names,
         tools[n] # 0, tools'[n] \notin {0, tools[n]}
  PROVE  \E t \in Threads : /\ place[t] # place'[t]
                            /\ \E o \in {order[t], order'[t]} : o.name = n /\ o.replace
<1>1. /\ place \in [Threads -> {"idle", "compiling", "attaching"}]
      /\ order \in [Threads -> Orders \cup {NoOrder}]
      /\ tools \in [Names -> Ids \cup {0}]
  BY DEF Registry, RegistryTypes
<1>2. ASSUME NEW t \in Threads, NEW o \in Orders, RegisterTool(t, o)
      PROVE  place[t] # place'[t] /\ order'[t] = o /\ o.name = n /\ o.replace
  <2>1. o.name = n /\ o.replace
    BY <1>2, InsertionAsked DEF RegisterTool
  <2> QED BY <1>1, <1>2, <2>1 DEF RegisterTool
<1>3. ASSUME NEW t \in Threads, Recheck(t)
      PROVE  place[t] # place'[t] /\ order[t].name = n /\ order[t].replace
  <2>1. order[t] \in Orders
    BY <1>3 DEF Recheck, Registry, Locked
  <2>2. Accepts(order[t]) /\ Inserted(order[t])
    BY <1>3 DEF Recheck, StillAccepts
  <2>3. order[t].name = n /\ order[t].replace
    BY <2>1, <2>2, InsertionAsked
  <2> QED BY <1>1, <1>3, <2>3 DEF Recheck
<1>4. CASE RegistryNext
  <2>1. PICK t \in Threads :
          \/ \E o \in Orders : Check(t, o) \/ RegisterTool(t, o)
          \/ Recheck(t) \/ Attach(t)
          \/ \E m \in Names : Unregister(t, m)
    BY <1>4 DEF RegistryNext
  <2>2. CASE \E o \in Orders : RegisterTool(t, o)
    BY <1>2, <2>2
  <2>3. CASE Recheck(t)
    BY <1>3, <2>3
  <2>4. CASE Attach(t) \/ \E o \in Orders : Check(t, o)
    BY <2>4 DEF Attach, Check
  <2>5. CASE \E m \in Names : Unregister(t, m)
    BY <1>1, <2>5 DEF Unregister
  <2> QED BY <2>1, <2>2, <2>3, <2>4, <2>5
<1>5. CASE tools' = tools
  BY <1>5
<1>6. CASE Tick \/ BatchStep \/ UNCHANGED vars
  BY <1>5, <1>6 DEF Tick, BatchStep, InvokeMany, Return, Cancel, OthersChange,
     RegistryUnchanged, registryVars, vars
<1>7. ASSUME NEW w \in Workers, WorkerStep(w)
      PROVE  tools' = tools
  BY <1>7 DEF WorkerStep, Pull, Stop, Resolve, Start, Finish, Raise, RegistryUnchanged,
     registryVars
<1> QED BY <1>4, <1>5, <1>6, <1>7, StepCases

(***************************************************************************)
(* For every number of threads and names, whatever is compiled at the same *)
(* time: the registry stays within its capacity, and a registration gives  *)
(* way only to one whose caller said replace.                              *)
(***************************************************************************)
THEOREM RegistryGuarded == Spec => RegistryIsGuarded
<1>1. ASSUME Registry, [Next]_vars
      PROVE  /\ Cardinality({n \in Names : tools'[n] # 0}) <= MaxTools
             /\ \A n \in Names : tools[n] # 0 /\ tools'[n] \notin {0, tools[n]} =>
                  \E t \in Threads : /\ place[t] # place'[t]
                                     /\ \E o \in {order[t], order'[t]} : o.name = n /\ o.replace
  <2>1. Cardinality({n \in Names : tools'[n] # 0}) <= MaxTools
    BY <1>1, RegistryPreserved DEF Registry, Locked, Registered
  <2> QED BY <1>1, <2>1, ReplacementAsked
<1> QED BY <1>1, RegistryHolds, PTL DEF Spec, RegistryIsGuarded

-----------------------------------------------------------------------------
(* The calls of a batch and their workers.                                 *)

Active(w) == phase[w] \in {"admitted", "queued", "running"}

BatchTypes ==
  /\ batch \in {"new", "running", "returned", "raised", "cancelled"}
  /\ next \in Nat /\ 1 <= next /\ next <= Len(Batch) + 1
  /\ phase \in [Workers -> {"none", "pulling", "admitted", "queued", "running", "over", "raised"}]
  /\ at \in [Workers -> 0 .. Len(Batch)]
  /\ \A w \in Workers : Active(w) => at[w] \in Calls
  /\ resolved \in [Workers -> Ids \cup {0}]
  /\ held \in [Workers -> SUBSET Controls]
  /\ results \in [Calls -> {"", "busy", "not_found", "rate_limited", "success"}]
  /\ entered \in [Calls -> Nat]
  /\ others \in Nat
  /\ starts \in [Ids -> Seq(Nat)]
  /\ bucket \in [Ids -> [units : Nat, updated_at : Nat]]
  /\ clock \in Nat
  /\ \A i \in Ids : bucket[i].updated_at <= clock

(* The lesser of two numbers. *)
LEMMA LeastOfTwo ==
  ASSUME NEW a \in Nat, NEW b \in Nat
  PROVE  Min({a, b}) = IF a <= b THEN a ELSE b
BY DEF Min

(* The greater of two numbers. *)
LEMMA GreatestOfTwo ==
  ASSUME NEW a \in Nat, NEW b \in Nat
  PROVE  Max({a, b}) = IF a >= b THEN a ELSE b
BY DEF Max

(* There are no more workers than pending places or calls.                 *)
LEMMA WorkerFacts ==
  /\ Len(Batch) \in Nat /\ Len(Batch) > 0 /\ Calls = 1 .. Len(Batch)
  /\ \A c \in Calls : Batch[c] \in Names
  /\ WorkerCount \in Nat /\ 1 <= WorkerCount
  /\ WorkerCount <= MaxPending /\ WorkerCount <= Len(Batch)
  /\ IsFiniteSet(Workers) /\ Cardinality(Workers) = WorkerCount
<1>1. Batch \in Seq(Names) /\ Batch # <<>>
  BY BatchAssumption
<1>2. Len(Batch) \in Nat /\ Len(Batch) > 0
  BY <1>1
<1>3. Calls = 1 .. Len(Batch)
  BY <1>1 DEF Calls
<1>4. \A c \in Calls : Batch[c] \in Names
  BY <1>1 DEF Calls
<1>5. MaxPending \in Nat /\ MaxPending >= 1
  BY BatchAssumption
<1>6. /\ WorkerCount \in Nat /\ 1 <= WorkerCount
      /\ WorkerCount <= MaxPending /\ WorkerCount <= Len(Batch)
  BY <1>2, <1>5, LeastOfTwo DEF WorkerCount
<1>7. IsFiniteSet(Workers) /\ Cardinality(Workers) = WorkerCount
  BY <1>6, FS_Interval DEF Workers
<1> QED BY <1>2, <1>3, <1>4, <1>6, <1>7

(* A full bucket, in units. *)
Burst == BurstCapacity * Interval

(* A full bucket holds a token. *)
LEMMA BurstIsNatural == Burst \in Nat /\ Interval <= Burst
BY Limits DEF Burst

(***************************************************************************)
(* What try_acquire makes of a bucket: no more than a full one, no more    *)
(* than the elapsed time refills, less one token if there is one.          *)
(***************************************************************************)
LEMMA AcquiredFacts ==
  ASSUME NEW b \in [units : Nat, updated_at : Nat], clock \in Nat, b.updated_at <= clock
  PROVE  /\ Acquired(b) \in [units : Nat, updated_at : Nat]
         /\ Acquired(b).updated_at = clock
         /\ Acquired(b).units + (IF HasToken(b) THEN Interval ELSE 0)
              <= b.units + (clock - b.updated_at)
         /\ Acquired(b).units + (IF HasToken(b) THEN Interval ELSE 0) <= Burst
<1> DEFINE refill == b.units + (clock - b.updated_at)
           full == IF Burst <= refill THEN Burst ELSE refill
<1>1. b.units \in Nat /\ b.updated_at \in Nat /\ refill \in Nat /\ full \in Nat
  BY BurstIsNatural
<1>2. Max({clock, b.updated_at}) = clock
  BY <1>1, GreatestOfTwo
<1>3. Min({Burst, refill}) = full
  BY <1>1, BurstIsNatural, LeastOfTwo
<1>4. Refilled(b) = [units |-> full, updated_at |-> clock]
  BY <1>2, <1>3 DEF Refilled, Burst
<1>5. full <= refill /\ full <= Burst
  BY <1>1, BurstIsNatural
<1> HIDE DEF full, refill
<1>6. CASE full >= Interval
  <2>1. Acquired(b) = [units |-> full - Interval, updated_at |-> clock] /\ HasToken(b)
    BY <1>4, <1>6 DEF Acquired, HasToken
  <2>2. full - Interval \in Nat /\ full - Interval + Interval = full
    BY <1>1, <1>6, Limits
  <2> QED BY <1>5, <2>1, <2>2 DEF refill
<1>7. CASE ~(full >= Interval)
  <2>1. Acquired(b) = [units |-> full, updated_at |-> clock] /\ ~HasToken(b)
    BY <1>4, <1>7 DEF Acquired, HasToken
  <2> QED BY <1>1, <1>5, <2>1 DEF refill
<1> QED BY <1>6, <1>7

(* Before invoke_many there is nobody at work. *)
LEMMA BatchInitially == Init => BatchTypes
<1> SUFFICES ASSUME Init PROVE BatchTypes
  OBVIOUS
<1>1. \A w \in Workers : ~Active(w)
  BY DEF Init, Active
<1>2. next \in Nat /\ 1 <= next /\ next <= Len(Batch) + 1
  <2>1. next = 1
    BY DEF Init
  <2> QED BY <2>1, WorkerFacts
<1>3. at \in [Workers -> 0 .. Len(Batch)]
  <2>1. 0 \in 0 .. Len(Batch)
    BY WorkerFacts
  <2> QED BY <2>1 DEF Init
<1>4. starts \in [Ids -> Seq(Nat)]
  <2>1. starts = [i \in Ids |-> <<>>]
    BY DEF Init
  <2>2. <<>> \in Seq(Nat)
    OBVIOUS
  <2> QED BY <2>1, <2>2
<1>5. /\ bucket \in [Ids -> [units : Nat, updated_at : Nat]]
      /\ clock \in Nat /\ \A i \in Ids : bucket[i].updated_at <= clock
  <2>1. bucket = [i \in Ids |-> [units |-> 0, updated_at |-> 0]] /\ clock = 0
    BY DEF Init, RegistryInit
  <2> QED BY <2>1
<1>6. results \in [Calls -> {"", "busy", "not_found", "rate_limited", "success"}]
      /\ entered \in [Calls -> Nat] /\ others \in Nat
  BY DEF Init
<1>7. resolved \in [Workers -> Ids \cup {0}] /\ held \in [Workers -> SUBSET Controls]
  BY DEF Init
<1>8. batch = "new" /\ phase = [w \in Workers |-> "none"]
  BY DEF Init
<1> QED BY <1>1, <1>2, <1>3, <1>4, <1>5, <1>6, <1>7, <1>8 DEF BatchTypes

(* A step of the registry changes at most a new bucket. *)
LEMMA RegistryKeepsBatch ==
  ASSUME Registry, BatchTypes, RegistryNext, UNCHANGED <<clock, batchVars>>
  PROVE  BatchTypes'
<1>1. \A w \in Workers : Active(w)' <=> Active(w)
  BY DEF batchVars, Active
<1>2. /\ bucket' \in [Ids -> [units : Nat, updated_at : Nat]]
      /\ \A i \in Ids : bucket'[i].updated_at <= clock
  <2>1. /\ bucket \in [Ids -> [units : Nat, updated_at : Nat]] /\ clock \in Nat
        /\ \A i \in Ids : bucket[i].updated_at <= clock
    BY DEF BatchTypes
  <2>2. CASE bucket' = bucket
    BY <2>1, <2>2
  <2>3. ASSUME NEW t \in Threads, Attach(t), bucket' # bucket
        PROVE  /\ bucket' \in [Ids -> [units : Nat, updated_at : Nat]]
               /\ \A i \in Ids : bucket'[i].updated_at <= clock
    <3>1. made \in Ids /\ tools[order[t].name] = made
      BY <2>3, AttachKeepsRegistry
    <3>2. bucket' = [bucket EXCEPT ![made] = [units |-> Burst, updated_at |-> clock]]
      BY <2>3, <3>1 DEF Attach, Burst
    <3> QED BY <2>1, <3>1, <3>2, BurstIsNatural
  <2> QED BY <2>2, <2>3 DEF RegistryNext, Check, Recheck, RegisterTool, Unregister
<1>3. UNCHANGED <<batch, next, phase, at, resolved, held, results, entered, others, starts, clock>>
  BY DEF batchVars
<1> QED BY <1>1, <1>2, <1>3 DEF BatchTypes

(* A result in its place, and the worker ready to pull again. *)
LEMMA AnsweredTypes ==
  ASSUME BatchTypes, NEW w \in Workers, Active(w),
         NEW r \in {"busy", "not_found", "rate_limited", "success"}, Answered(w, r)
  PROVE  /\ phase' = [phase EXCEPT ![w] = "pulling"]
         /\ at' = [at EXCEPT ![w] = 0] /\ at' \in [Workers -> 0 .. Len(Batch)]
         /\ resolved' = [resolved EXCEPT ![w] = 0] /\ resolved' \in [Workers -> Ids \cup {0}]
         /\ held' = [held EXCEPT ![w] = {}] /\ held' \in [Workers -> SUBSET Controls]
         /\ results' = [results EXCEPT ![at[w]] = r]
         /\ results' \in [Calls -> {"", "busy", "not_found", "rate_limited", "success"}]
<1>1. at[w] \in Calls
  BY DEF BatchTypes
<1>2. 0 \in 0 .. Len(Batch)
  BY WorkerFacts
<1> QED BY <1>1, <1>2 DEF BatchTypes, Answered

(* What else a worker's step may look like from outside. *)
LEMMA WorkerFrame ==
  ASSUME BatchTypes, NEW w \in Workers, WorkerStep(w)
  PROVE  /\ UNCHANGED <<tools, made, nameOf, wanted, tables, lock, order, place, clock, others>>
         /\ \A v \in Workers \ {w} : /\ phase'[v] = phase[v] /\ at'[v] = at[v]
                                     /\ resolved'[v] = resolved[v] /\ held'[v] = held[v]
<1> USE DEF BatchTypes, RegistryUnchanged, registryVars
<1>1. CASE Pull(w) \/ Stop(w) \/ Finish(w) \/ Raise(w)
  BY <1>1 DEF Pull, Stop, Finish, Raise, Answered
<1>2. CASE Resolve(w)
  BY <1>2 DEF Resolve, Answered
<1>3. CASE Start(w)
  BY <1>3 DEF Start, Answered
<1> QED BY <1>1, <1>2, <1>3 DEF WorkerStep

(* A worker's step keeps the types of what it touches. *)
LEMMA WorkerKeepsBatch ==
  ASSUME Registry, BatchTypes, NEW w \in Workers, WorkerStep(w)
  PROVE  BatchTypes'
<1> DEFINE Phases == {"none", "pulling", "admitted", "queued", "running", "over", "raised"}
<1>0. /\ phase \in [Workers -> Phases] /\ at \in [Workers -> 0 .. Len(Batch)]
      /\ \A v \in Workers : Active(v) => at[v] \in Calls
      /\ resolved \in [Workers -> Ids \cup {0}] /\ held \in [Workers -> SUBSET Controls]
      /\ results \in [Calls -> {"", "busy", "not_found", "rate_limited", "success"}]
      /\ next \in Nat /\ 1 <= next /\ next <= Len(Batch) + 1
      /\ entered \in [Calls -> Nat] /\ starts \in [Ids -> Seq(Nat)]
      /\ batch \in {"new", "running", "returned", "raised", "cancelled"}
  BY DEF BatchTypes
<1>1. /\ UNCHANGED <<clock, others>>
      /\ \A v \in Workers \ {w} : (Active(v) <=> Active(v)') /\ at'[v] = at[v]
  BY WorkerFrame DEF Active
<1>2. CASE ~Pull(w)
  <2>1. /\ phase' \in [Workers -> Phases] /\ at' \in [Workers -> 0 .. Len(Batch)]
        /\ resolved' \in [Workers -> Ids \cup {0}] /\ held' \in [Workers -> SUBSET Controls]
        /\ results' \in [Calls -> {"", "busy", "not_found", "rate_limited", "success"}]
        /\ batch' \in {"new", "running", "returned", "raised", "cancelled"}
        /\ Active(w)' => at'[w] \in Calls
    <3>1. CASE Stop(w)
      BY <1>0, <3>1 DEF Stop, Active
    <3>2. CASE Raise(w)
      BY <1>0, <3>2 DEF Raise, Active
    <3>3. CASE Finish(w)
      BY <1>0, <3>3, AnsweredTypes DEF Finish, Active
    <3>4. CASE Resolve(w)
      <4>1. CASE tools[Batch[at[w]]] = 0
        BY <1>0, <3>4, <4>1, AnsweredTypes DEF Resolve, Active
      <4>2. CASE tools[Batch[at[w]]] # 0
        <5>1. Active(w) /\ Batch[at[w]] \in Names
          BY <1>0, <3>4, WorkerFacts DEF Resolve, Active
        <5>2. tools[Batch[at[w]]] \in Ids
          BY <4>2, <5>1 DEF Registry, RegistryTypes
        <5>3. /\ resolved' = [resolved EXCEPT ![w] = tools[Batch[at[w]]]]
              /\ held' = [held EXCEPT ![w] = ControlsOf(tools[Batch[at[w]]])]
              /\ phase' = [phase EXCEPT ![w] = "queued"]
              /\ UNCHANGED <<at, results, batch>>
          BY <3>4, <4>2 DEF Resolve
        <5>4. ControlsOf(tools[Batch[at[w]]]) \in SUBSET Controls
          BY DEF ControlsOf
        <5> QED BY <1>0, <5>1, <5>2, <5>3, <5>4
      <4> QED BY <4>1, <4>2
    <3>5. CASE Start(w)
      <4>1. Active(w)
        BY <3>5 DEF Start, Active
      <4>2. CASE "rate" \in held[w] /\ ~HasToken(bucket[resolved[w]])
        BY <1>0, <3>5, <4>1, <4>2, AnsweredTypes DEF Start, Active
      <4>3. CASE ~("rate" \in held[w] /\ ~HasToken(bucket[resolved[w]]))
        BY <1>0, <3>5, <4>1, <4>3 DEF Start, Active
      <4> QED BY <4>2, <4>3
    <3> QED BY <1>2, <3>1, <3>2, <3>3, <3>4, <3>5 DEF WorkerStep
  <2>2. UNCHANGED <<next, entered>>
    BY <1>2 DEF WorkerStep, Stop, Raise, Finish, Resolve, Start
  <2>3. /\ starts' \in [Ids -> Seq(Nat)]
        /\ bucket' \in [Ids -> [units : Nat, updated_at : Nat]]
        /\ \A i \in Ids : bucket'[i].updated_at <= clock
    <3>1. /\ bucket \in [Ids -> [units : Nat, updated_at : Nat]] /\ clock \in Nat
          /\ \A i \in Ids : bucket[i].updated_at <= clock
      BY DEF BatchTypes
    <3>2. CASE UNCHANGED <<bucket, starts>>
      BY <1>0, <3>1, <3>2
    <3>3. CASE Start(w)
      <4>1. starts' = starts \/ starts' = [starts EXCEPT ![resolved[w]] = Append(@, clock)]
        BY <3>3 DEF Start
      <4>2. starts' \in [Ids -> Seq(Nat)]
        <5>1. \A i \in Ids : starts[i] \in Seq(Nat)
          BY <1>0
        <5>2. clock \in Nat
          BY <3>1
        <5>3. \A i \in Ids : Append(starts[i], clock) \in Seq(Nat)
          BY <5>1, <5>2
        <5>4. starts \in [Ids -> Seq(Nat)]
          BY <1>0
        <5> QED BY <4>1, <5>3, <5>4
      <4>3. bucket' = bucket \/ bucket' = [bucket EXCEPT ![resolved[w]] = Acquired(@)]
        BY <3>3 DEF Start
      <4>4. \A i \in Ids : /\ Acquired(bucket[i]) \in [units : Nat, updated_at : Nat]
                            /\ Acquired(bucket[i]).updated_at = clock
        BY <3>1, AcquiredFacts
      <4>5. bucket' \in [Ids -> [units : Nat, updated_at : Nat]]
        BY <3>1, <4>3, <4>4
      <4>6. \A i \in Ids : bucket'[i] = bucket[i] \/ bucket'[i] = Acquired(bucket[i])
        BY <3>1, <4>3
      <4>7. \A i \in Ids : bucket'[i].updated_at <= clock
        <5>1. clock <= clock
          BY <3>1
        <5> QED BY <3>1, <4>4, <4>6, <5>1
      <4> QED BY <4>2, <4>5, <4>7
    <3> QED BY <1>2, <3>2, <3>3 DEF WorkerStep, Stop, Raise, Finish, Resolve,
              RegistryUnchanged, registryVars
  <2> QED BY <1>0, <1>1, <2>1, <2>2, <2>3 DEF BatchTypes
<1>3. CASE Pull(w)
  <2>1. /\ phase[w] = "pulling" /\ next <= Len(Batch)
        /\ next' = next + 1 /\ entered' = [entered EXCEPT ![next] = @ + 1]
        /\ UNCHANGED <<batch, resolved, held, starts, bucket>>
    BY <1>3 DEF Pull, RegistryUnchanged, registryVars
  <2>2. next \in Calls /\ next \in 0 .. Len(Batch)
    <3>1. next \in 1 .. Len(Batch) /\ next \in 0 .. Len(Batch)
      <4>1. next \in Nat /\ 1 <= next /\ next <= Len(Batch)
        BY <1>0, <2>1
      <4> QED BY <4>1, WorkerFacts
    <3> QED BY <3>1, WorkerFacts
  <2>3. entered' \in [Calls -> Nat] /\ next' \in Nat /\ 1 <= next' /\ next' <= Len(Batch) + 1
    <3>1. entered' \in [Calls -> Nat]
      <4>1. entered[next] \in Nat /\ entered[next] + 1 \in Nat
        <5>1. entered[next] \in Nat
          BY <1>0, <2>2
        <5> QED BY <5>1
      <4> QED BY <1>0, <2>1, <4>1
    <3>2. next' \in Nat /\ 1 <= next' /\ next' <= Len(Batch) + 1
      <4>1. next \in Nat /\ 1 <= next /\ next <= Len(Batch) /\ next' = next + 1
        BY <1>0, <2>1
      <4> QED BY <4>1, WorkerFacts
    <3> QED BY <3>1, <3>2
  <2>4. /\ phase' \in [Workers -> Phases] /\ at' \in [Workers -> 0 .. Len(Batch)]
        /\ results' \in [Calls -> {"", "busy", "not_found", "rate_limited", "success"}]
        /\ Active(w)' => at'[w] \in Calls
    <3>1. CASE Pending < MaxPending
      BY <1>0, <1>3, <2>2, <3>1 DEF Pull, Active
    <3>2. CASE ~(Pending < MaxPending)
      BY <1>0, <1>3, <2>1, <2>2, <3>2 DEF Pull, Active
    <3> QED BY <3>1, <3>2
  <2> QED BY <1>0, <1>1, <2>1, <2>3, <2>4 DEF BatchTypes
<1> QED BY <1>2, <1>3

(* So does every other step. *)
LEMMA BatchTypesPreserved ==
  ASSUME Registry, BatchTypes, [Next]_vars
  PROVE  BatchTypes'
<1>1. CASE Tick /\ UNCHANGED batchVars
  <2>1. clock \in Nat /\ clock' = clock + 1 /\ bucket' = bucket /\ UNCHANGED batchVars
    BY <1>1 DEF Tick, registryVars, BatchTypes
  <2>2. \A i \in Ids : bucket[i].updated_at \in Nat /\ bucket[i].updated_at <= clock
    BY DEF BatchTypes
  <2>3. \A i \in Ids : bucket'[i].updated_at <= clock'
    BY <2>1, <2>2
  <2>4. \A w \in Workers : Active(w)' <=> Active(w)
    BY <2>1 DEF batchVars, Active
  <2>5. clock' \in Nat /\ bucket' \in [Ids -> [units : Nat, updated_at : Nat]]
    <3>1. clock' \in Nat
      BY <2>1
    <3> QED BY <2>1, <3>1 DEF BatchTypes
  <2>6. UNCHANGED <<batch, next, phase, at, resolved, held, results, entered, others, starts>>
    BY <2>1 DEF batchVars
  <2> QED BY <2>3, <2>4, <2>5, <2>6 DEF BatchTypes
<1>2. CASE BatchStep
  <2>1. UNCHANGED <<bucket, clock, starts, next, results, entered>>
    BY <1>2 DEF BatchStep, InvokeMany, Return, Cancel, OthersChange, RegistryUnchanged, registryVars
  <2>2. others' \in Nat
    <3>1. others \in Nat
      BY DEF BatchTypes
    <3>2. others' = others \/ others' = others + 1 \/ (others > 0 /\ others' = others - 1)
      BY <1>2 DEF BatchStep, InvokeMany, Return, Cancel, OthersChange
    <3> QED BY <3>1, <3>2
  <2>3. batch' \in {"new", "running", "returned", "raised", "cancelled"}
    BY <1>2 DEF BatchStep, InvokeMany, Return, Cancel, OthersChange, BatchTypes
  <2>4. /\ phase' \in [Workers -> {"none", "pulling", "admitted", "queued", "running", "over", "raised"}]
        /\ at' \in [Workers -> 0 .. Len(Batch)] /\ resolved' \in [Workers -> Ids \cup {0}]
        /\ held' \in [Workers -> SUBSET Controls]
        /\ \A w \in Workers : Active(w)' => at'[w] \in Calls
    <3>1. CASE InvokeMany
      BY <3>1 DEF InvokeMany, BatchTypes, Active
    <3>2. CASE Cancel
      <4>1. 0 \in 0 .. Len(Batch)
        BY WorkerFacts
      <4> QED BY <3>2, <4>1 DEF Cancel, Active
    <3>3. CASE Return \/ OthersChange
      BY <3>3 DEF Return, OthersChange, BatchTypes, Active
    <3> QED BY <1>2, <3>1, <3>2, <3>3 DEF BatchStep
  <2> QED BY <2>1, <2>2, <2>3, <2>4 DEF BatchTypes
<1>3. CASE UNCHANGED vars
  <2>1. \A w \in Workers : Active(w)' <=> Active(w)
    BY <1>3 DEF vars, batchVars, Active
  <2> QED BY <1>3, <2>1 DEF BatchTypes, vars, batchVars, registryVars
<1> QED BY <1>1, <1>2, <1>3, RegistryKeepsBatch, WorkerKeepsBatch, StepCases

(***************************************************************************)
(* In every behaviour the workers' fields and the buckets have their types,*)
(* and an admitted worker has a call of the batch.                         *)
(***************************************************************************)
THEOREM BatchTypesHold == Spec => []BatchTypes
<1>1. Init => BatchTypes
  BY BatchInitially
<1>2. Registry /\ BatchTypes /\ [Next]_vars => BatchTypes'
  BY BatchTypesPreserved
<1> QED BY <1>1, <1>2, RegistryHolds, PTL DEF Spec

-----------------------------------------------------------------------------
(* An invocation and the controls of its registration.                     *)

SomeoneAttaches == \E t \in Threads : place[t] = "attaching"

(* A registration nobody can have resolved: none yet, or one being attached. *)
Unresolved(i) == i > made \/ (i = made /\ SomeoneAttaches)

(***************************************************************************)
(* A queued or running invocation has a registration that is complete, and *)
(* all it was registered with; a registration that is not complete has     *)
(* started nothing.                                                        *)
(***************************************************************************)
Governed ==
  /\ \A w \in Workers : phase[w] \in {"queued", "running"} =>
       /\ resolved[w] \in Ids /\ ~Unresolved(resolved[w])
       /\ held[w] = wanted[resolved[w]]
  /\ \A i \in Ids : Unresolved(i) => starts[i] = <<>>

(* A step of the registry leaves what was made as it was, and makes only    *)
(* what nobody can have resolved.                                           *)
LEMMA RegistryEffects ==
  ASSUME Registry, RegistryNext
  PROVE  /\ \A i \in Ids : Unresolved(i)' => Unresolved(i)
         /\ \A i \in Ids : ~Unresolved(i) => wanted'[i] = wanted[i] /\ nameOf'[i] = nameOf[i]
<1>1. PICK t \in Threads :
        \/ \E o \in Orders : Check(t, o) \/ RegisterTool(t, o)
        \/ Recheck(t) \/ Attach(t)
        \/ \E n \in Names : Unregister(t, n)
  BY DEF RegistryNext
<1>2. /\ place \in [Threads -> {"idle", "compiling", "attaching"}] /\ made \in Nat
      /\ nameOf \in [Ids -> Names \cup {""}] /\ wanted \in [Ids -> SUBSET Controls]
  BY MadeCount DEF Registry, RegistryTypes
<1>3. ASSUME UNCHANGED <<made, wanted, nameOf>>,
             SomeoneAttaches' => SomeoneAttaches
      PROVE  /\ \A i \in Ids : Unresolved(i)' => Unresolved(i)
             /\ \A i \in Ids : ~Unresolved(i) => wanted'[i] = wanted[i] /\ nameOf'[i] = nameOf[i]
  BY <1>3 DEF Unresolved
<1>4. ASSUME NEW o \in Orders, Inserted(o)
      PROVE  /\ \A i \in Ids : Unresolved(i)' => Unresolved(i)
             /\ \A i \in Ids : ~Unresolved(i) => wanted'[i] = wanted[i] /\ nameOf'[i] = nameOf[i]
  <2>1. /\ made' = made + 1
        /\ nameOf' = [nameOf EXCEPT ![made'] = o.name]
        /\ wanted' = [wanted EXCEPT ![made'] = o.controls]
    BY <1>4 DEF Inserted
  <2>2. \A i \in Ids : i \in Nat
    BY IdFacts
  <2>3. made' > made /\ made' \in Nat
    <3>1. made \in Nat /\ made' = made + 1
      BY <1>2, <2>1
    <3> QED BY <3>1
  <2>4. \A i \in Ids : i > made' \/ i = made' => i > made
    BY MadeCount, <2>2, <2>3
  <2>5. \A i \in Ids : ~(i > made) => i # made'
    BY <2>3
  <2> QED BY <1>2, <2>1, <2>4, <2>5 DEF Unresolved
<1>5. CASE \E o \in Orders : RegisterTool(t, o)
  BY <1>4, <1>5 DEF RegisterTool
<1>6. CASE \E o \in Orders : Check(t, o)
  <2>1. UNCHANGED <<made, wanted, nameOf>> /\ (SomeoneAttaches' => SomeoneAttaches)
    BY <1>2, <1>6 DEF Check, SomeoneAttaches
  <2> QED BY <1>3, <2>1
<1>7. CASE Recheck(t)
  <2>1. order[t] \in Orders
    BY <1>7 DEF Recheck, Registry, Locked
  <2>2. CASE Inserted(order[t])
    BY <1>4, <2>1, <2>2
  <2>3. CASE UNCHANGED <<tools, made, nameOf, wanted>>
    <3>1. SomeoneAttaches' => SomeoneAttaches
      BY <1>2, <1>7 DEF Recheck, SomeoneAttaches
    <3> QED BY <1>3, <2>3, <3>1
  <2> QED BY <1>7, <2>2, <2>3 DEF Recheck
<1>8. CASE Attach(t) \/ \E n \in Names : Unregister(t, n)
  <2>1. UNCHANGED <<made, wanted, nameOf>> /\ (SomeoneAttaches' => SomeoneAttaches)
    BY <1>2, <1>8 DEF Attach, Unregister, SomeoneAttaches
  <2> QED BY <1>3, <2>1
<1> QED BY <1>1, <1>5, <1>6, <1>7, <1>8

(* At first nothing runs and nothing has been started. *)
LEMMA GovernedInitially == Init => Governed
BY DEF Init, RegistryInit, Governed

(* A registration resolved outside the lock comes with all it wanted. *)
LEMMA ResolvesComplete ==
  ASSUME Registry, lock = Free, NEW n \in Names, tools[n] # 0
  PROVE  /\ tools[n] \in Ids /\ ~Unresolved(tools[n])
         /\ ControlsOf(tools[n]) = wanted[tools[n]]
<1>1. ~SomeoneAttaches /\ ~Attaching(n)
  BY NobodyAttaches DEF SomeoneAttaches, Attaching
<1>2. tools[n] \in Ids /\ tools[n] \in 1 .. made
  <2>1. tools[n] \in Ids \cup {0}
    BY DEF Registry, RegistryTypes
  <2>2. tools[n] \in 1 .. made
    BY DEF Registry, Attached
  <2> QED BY <2>1, <2>2
<1>3. ~(tools[n] > made)
  BY <1>2, MadeCount
<1>4. \A k \in wanted[tools[n]] : tools[n] \in tables[k]
  BY <1>1 DEF Registry, Attached
<1>5. \A k \in Controls : tools[n] \in tables[k] => k \in wanted[tools[n]]
  BY DEF Registry, Attached
<1>6. wanted[tools[n]] \subseteq Controls
  BY <1>2 DEF Registry, RegistryTypes
<1>7. ControlsOf(tools[n]) = wanted[tools[n]]
  BY <1>4, <1>5, <1>6 DEF ControlsOf
<1> QED BY <1>1, <1>2, <1>3, <1>7 DEF Unresolved

(* Only Resolve gives an invocation a registration, outside the lock. *)
LEMMA GovernedPreserved ==
  ASSUME Registry, BatchTypes, Governed, [Next]_vars
  PROVE  Governed'
<1>1. CASE RegistryNext /\ UNCHANGED <<clock, batchVars>>
  BY <1>1, RegistryEffects DEF Governed, batchVars
<1>2. ASSUME UNCHANGED <<made, wanted, place>>
      PROVE  \A i : Unresolved(i)' <=> Unresolved(i)
  BY <1>2 DEF Unresolved, SomeoneAttaches
<1>3. CASE Tick /\ UNCHANGED batchVars
  BY <1>2, <1>3 DEF Tick, registryVars, batchVars, Governed
<1>4. CASE UNCHANGED vars
  BY <1>2, <1>4 DEF vars, registryVars, batchVars, Governed
<1>5. CASE BatchStep
  <2>1. UNCHANGED <<made, wanted, place, starts>>
    BY <1>5 DEF BatchStep, InvokeMany, Return, Cancel, OthersChange, RegistryUnchanged,
                registryVars
  <2>2. \A w \in Workers : phase'[w] \in {"queued", "running"} =>
          phase'[w] = phase[w] /\ resolved'[w] = resolved[w] /\ held'[w] = held[w]
    BY <1>5 DEF BatchStep, InvokeMany, Return, Cancel, OthersChange
  <2> QED BY <1>2, <2>1, <2>2 DEF Governed
<1>6. ASSUME NEW w \in Workers, WorkerStep(w)
      PROVE  Governed'
  <2>1. /\ UNCHANGED <<tools, made, nameOf, wanted, tables, lock, order, place, clock, others>>
        /\ \A v \in Workers \ {w} : /\ phase'[v] = phase[v] /\ at'[v] = at[v]
                                    /\ resolved'[v] = resolved[v] /\ held'[v] = held[v]
    BY <1>6, WorkerFrame
  <2>2. phase \in [Workers -> {"none", "pulling", "admitted", "queued", "running", "over", "raised"}]
        /\ resolved \in [Workers -> Ids \cup {0}] /\ held \in [Workers -> SUBSET Controls]
        /\ starts \in [Ids -> Seq(Nat)]
    BY DEF BatchTypes
  <2>3. phase'[w] \in {"queued", "running"} =>
          /\ resolved'[w] \in Ids /\ ~Unresolved(resolved'[w])
          /\ held'[w] = wanted[resolved'[w]]
    <3>1. CASE Pull(w) \/ Stop(w) \/ Finish(w) \/ Raise(w)
      BY <2>2, <3>1 DEF Pull, Stop, Finish, Raise, Answered, Governed
    <3>2. CASE Resolve(w)
      <4>1. phase[w] = "admitted" /\ lock = Free
        BY <3>2 DEF Resolve, MayEnter
      <4>2. Batch[at[w]] \in Names
        BY <4>1, WorkerFacts DEF BatchTypes, Active
      <4>3. CASE tools[Batch[at[w]]] = 0
        BY <2>2, <3>2, <4>3 DEF Resolve, Answered
      <4>4. CASE tools[Batch[at[w]]] # 0
        <5>1. /\ resolved'[w] = tools[Batch[at[w]]]
              /\ held'[w] = ControlsOf(tools[Batch[at[w]]])
          BY <2>2, <3>2, <4>4 DEF Resolve
        <5> QED BY <4>1, <4>2, <4>4, <5>1, ResolvesComplete
      <4> QED BY <4>3, <4>4
    <3>3. CASE Start(w)
      <4>1. phase[w] = "queued"
        BY <3>3 DEF Start
      <4>2. phase'[w] = "pulling" \/ (resolved'[w] = resolved[w] /\ held'[w] = held[w])
        BY <2>2, <3>3 DEF Start, Answered
      <4> QED BY <4>1, <4>2 DEF Governed
    <3> QED BY <1>6, <3>1, <3>2, <3>3 DEF WorkerStep
  <2>4. \A i \in Ids : Unresolved(i) => starts'[i] = <<>>
    <3>1. CASE UNCHANGED starts
      BY <3>1 DEF Governed
    <3>2. CASE Start(w)
      <4>1. ~Unresolved(resolved[w])
        BY <3>2 DEF Start, Governed
      <4>2. \A i \in Ids : i # resolved[w] => starts'[i] = starts[i]
        BY <2>2, <3>2 DEF Start
      <4> QED BY <4>1, <4>2 DEF Governed
    <3> QED BY <1>6, <3>1, <3>2 DEF WorkerStep, Pull, Stop, Finish, Raise, Resolve
  <2>5. \A v \in Workers : phase'[v] \in {"queued", "running"} =>
          /\ resolved'[v] \in Ids /\ ~Unresolved(resolved'[v])
          /\ held'[v] = wanted[resolved'[v]]
    BY <2>1, <2>3 DEF Governed
  <2> QED BY <1>2, <2>1, <2>4, <2>5 DEF Governed
<1> QED BY <1>1, <1>3, <1>4, <1>5, <1>6, StepCases

(* No incomplete registration governs an invocation, in any behaviour. *)
LEMMA GovernedHolds == Spec => []Governed
<1>1. Init => Governed
  BY GovernedInitially
<1>2. Registry /\ BatchTypes /\ Governed /\ [Next]_vars => Governed'
  BY GovernedPreserved
<1> QED BY <1>1, <1>2, RegistryHolds, BatchTypesHold, PTL DEF Spec

(***************************************************************************)
(* Whatever threads register, replace and unregister meanwhile: a queued   *)
(* or running invocation has exactly the controls its registration came    *)
(* with, and no table grows beyond one entry per name.                     *)
(***************************************************************************)
THEOREM ControlsFollow == Spec => []ControlsFollowRegistration
<1>1. Registry /\ Governed => ControlsFollowRegistration
  BY DEF Registry, Attached, Governed, ControlsFollowRegistration
<1> QED BY <1>1, RegistryHolds, GovernedHolds, PTL

-----------------------------------------------------------------------------
(* The rate limit.                                                         *)

(***************************************************************************)
(* What has been started since the i-th start, and what the bucket still   *)
(* holds, was in the bucket then or has been refilled since.               *)
(***************************************************************************)
Paid(b, s) ==
  /\ b.units <= Burst
  /\ \A i \in 1 .. Len(s) :
       /\ s[i] <= b.updated_at
       /\ (Len(s) - i + 1) * Interval + b.units <= Burst + (b.updated_at - s[i])

Paced(s) ==
  \A i, j \in 1 .. Len(s) : i <= j => (j - i + 1) * Interval <= Burst + (s[j] - s[i])

Metered == \A id \in tables["rate"] : Paid(bucket[id], starts[id]) /\ Paced(starts[id])

(* One start more costs one interval more. *)
LEMMA OneMore ==
  ASSUME NEW m \in Nat
  PROVE  (m + 1) * Interval = m * Interval + Interval /\ m * Interval \in Nat
BY Limits

(* If the account of a start balances, it still does when g more was taken  *)
(* of a bucket that the time since has refilled.                            *)
LEMMA StillBalanced ==
  ASSUME NEW cost \in Nat, NEW g \in Nat, NEW units \in Nat, NEW left \in Nat,
         NEW at0 \in Nat, NEW then \in Nat, NEW now \in Nat,
         at0 <= then, then <= now, cost + units <= Burst + (then - at0),
         left + g <= units + (now - then)
  PROVE  at0 <= now /\ (cost + g) + left <= Burst + (now - at0)
BY BurstIsNatural

(* A fresh bucket has nothing to account for. *)
LEMMA FreshIsPaid ==
  ASSUME NEW now \in Nat
  PROVE  Paid([units |-> Burst, updated_at |-> now], <<>>) /\ Paced(<<>>)
BY BurstIsNatural DEF Paid, Paced

(* A refusal takes nothing and keeps no more than was refilled. *)
LEMMA RefusalIsPaid ==
  ASSUME NEW b \in [units : Nat, updated_at : Nat], clock \in Nat, b.updated_at <= clock,
         NEW s \in Seq(Nat), Paid(b, s), ~HasToken(b)
  PROVE  Paid(Acquired(b), s)
<1> DEFINE a == Acquired(b)
<1>1. /\ a.units \in Nat /\ a.updated_at = clock
      /\ a.units <= b.units + (clock - b.updated_at) /\ a.units <= Burst
  <2>1. /\ a \in [units : Nat, updated_at : Nat] /\ a.updated_at = clock
        /\ a.units + 0 <= b.units + (clock - b.updated_at) /\ a.units + 0 <= Burst
    BY AcquiredFacts
  <2>2. a.units \in Nat
    BY <2>1
  <2> HIDE DEF a
  <2> QED BY <2>1, <2>2
<1> HIDE DEF a
<1>2. ASSUME NEW i \in 1 .. Len(s)
      PROVE  /\ s[i] <= clock
             /\ (Len(s) - i + 1) * Interval + a.units <= Burst + (clock - s[i])
  <2>1. s[i] \in Nat /\ Len(s) - i \in Nat
    OBVIOUS
  <2>2. s[i] <= b.updated_at
        /\ (Len(s) - i + 1) * Interval + b.units <= Burst + (b.updated_at - s[i])
    BY DEF Paid
  <2> DEFINE m == Len(s) - i + 1
             cost == m * Interval
  <2>3. m \in Nat
    BY <2>1
  <2> HIDE DEF m
  <2>4. cost \in Nat
    BY <2>3, OneMore
  <2>5. b.units \in Nat /\ b.updated_at \in Nat
    OBVIOUS
  <2>6. cost + b.units <= Burst + (b.updated_at - s[i])
    BY <2>2 DEF m
  <2> HIDE DEF cost
  <2>7. s[i] <= clock /\ (cost + 0) + a.units <= Burst + (clock - s[i])
    <3>1. a.units + 0 <= b.units + (clock - b.updated_at)
      BY <1>1
    <3>2. s[i] \in Nat /\ s[i] <= b.updated_at /\ b.updated_at <= clock /\ a.units \in Nat
      BY <1>1, <2>1, <2>2
    <3>3. 0 \in Nat
      OBVIOUS
    <3> DEFINE si == s[i]
               then == b.updated_at
               units == b.units
               left == a.units
    <3>4. /\ cost \in Nat /\ units \in Nat /\ left \in Nat /\ si \in Nat /\ then \in Nat
          /\ si <= then /\ then <= clock /\ cost + units <= Burst + (then - si)
          /\ left + 0 <= units + (clock - then)
      BY <2>4, <2>5, <2>6, <3>1, <3>2
    <3> HIDE DEF si, then, units, left
    <3>5. si <= clock /\ (cost + 0) + left <= Burst + (clock - si)
      BY <3>3, <3>4, <2>5, StillBalanced
    <3> QED BY <3>5 DEF si, left
  <2>8. cost + 0 = cost
    BY <2>4
  <2> QED BY <2>7, <2>8 DEF cost, m
<1> QED BY <1>1, <1>2 DEF Paid, a

(* A start is paid with a token, and is in pace with every earlier one. *)
LEMMA StartIsPaid ==
  ASSUME NEW b \in [units : Nat, updated_at : Nat], clock \in Nat, b.updated_at <= clock,
         NEW s \in Seq(Nat), Paid(b, s), Paced(s), HasToken(b)
  PROVE  Paid(Acquired(b), Append(s, clock)) /\ Paced(Append(s, clock))
<1> DEFINE a == Acquired(b)
           r == Append(s, clock)
           n == Len(s) + 1
<1>1. /\ a.units \in Nat /\ a.updated_at = clock
      /\ a.units + Interval <= b.units + (clock - b.updated_at)
      /\ a.units + Interval <= Burst
  <2>1. a \in [units : Nat, updated_at : Nat]
    BY AcquiredFacts
  <2> QED BY <2>1, AcquiredFacts
<1>2. /\ Len(r) = n /\ r[n] = clock /\ \A i \in 1 .. Len(s) : r[i] = s[i]
      /\ n \in Nat /\ n \in 1 .. n /\ Len(s) \in Nat
      /\ \A i \in 1 .. n : i # n => i \in 1 .. Len(s)
  OBVIOUS
<1> HIDE DEF a, r, n
<1>3. ASSUME NEW i \in 1 .. Len(s)
      PROVE  /\ s[i] <= clock
             /\ (n - i + 1) * Interval + a.units <= Burst + (clock - s[i])
  <2>1. s[i] \in Nat /\ Len(s) - i + 1 \in Nat /\ n - i + 1 = (Len(s) - i + 1) + 1
    BY DEF n
  <2>2. s[i] <= b.updated_at
        /\ (Len(s) - i + 1) * Interval + b.units <= Burst + (b.updated_at - s[i])
    BY DEF Paid
  <2> DEFINE m == Len(s) - i + 1
             cost == m * Interval
  <2>3. m \in Nat /\ n - i + 1 = m + 1
    BY <2>1
  <2> HIDE DEF m
  <2>4. cost \in Nat /\ (n - i + 1) * Interval = cost + Interval
    BY <2>3, OneMore
  <2>5. b.units \in Nat /\ b.updated_at \in Nat /\ Interval \in Nat
    BY Limits
  <2>6. cost + b.units <= Burst + (b.updated_at - s[i])
    BY <2>2 DEF m
  <2> HIDE DEF cost
  <2>7. s[i] <= clock /\ (cost + Interval) + a.units <= Burst + (clock - s[i])
    <3>1. a.units + Interval <= b.units + (clock - b.updated_at)
      BY <1>1
    <3>2. s[i] \in Nat /\ s[i] <= b.updated_at /\ b.updated_at <= clock /\ a.units \in Nat
      BY <1>1, <2>1, <2>2
    <3>3. cost \in Nat
      BY <2>4
    <3> DEFINE si == s[i]
               then == b.updated_at
               units == b.units
               left == a.units
    <3>4. /\ cost \in Nat /\ units \in Nat /\ left \in Nat /\ si \in Nat /\ then \in Nat
          /\ si <= then /\ then <= clock /\ cost + units <= Burst + (then - si)
          /\ left + Interval <= units + (clock - then)
      BY <2>4, <2>5, <2>6, <3>1, <3>2
    <3> HIDE DEF si, then, units, left
    <3>5. si <= clock /\ (cost + Interval) + left <= Burst + (clock - si)
      BY <3>3, <3>4, <2>5, StillBalanced
    <3> QED BY <3>5 DEF si, left
  <2> QED BY <2>4, <2>7
<1>4. (n - n + 1) * Interval = Interval
  <2>1. n - n + 1 = 1
    BY <1>2
  <2> QED BY <2>1, Limits
<1>5. Paid(a, r)
  <2>1. ASSUME NEW i \in 1 .. n
        PROVE  r[i] <= clock /\ (n - i + 1) * Interval + a.units <= Burst + (clock - r[i])
    <3>1. CASE i = n
      <4>1. clock - r[i] = 0 /\ r[i] = clock
        BY <1>2, <3>1
      <4>2. Interval + a.units <= Burst + 0
        BY <1>1, Limits, BurstIsNatural
      <4> QED BY <1>4, <3>1, <4>1, <4>2
    <3>2. CASE i # n
      BY <1>2, <1>3, <3>2
    <3> QED BY <3>1, <3>2
  <2>2. a.units <= Burst
    BY <1>1, Limits, BurstIsNatural
  <2> QED BY <1>1, <1>2, <2>1, <2>2 DEF Paid
<1>6. Paced(r)
  <2> SUFFICES ASSUME NEW i \in 1 .. n, NEW j \in 1 .. n, i <= j
               PROVE  (j - i + 1) * Interval <= Burst + (r[j] - r[i])
    BY <1>2 DEF Paced
  <2>1. CASE j = n
    <3>1. /\ r[i] <= clock /\ (n - i + 1) * Interval + a.units <= Burst + (clock - r[i])
      BY <1>1, <1>2, <1>5 DEF Paid
    <3>2. n - i + 1 \in Nat
      BY <1>2
    <3>3. (n - i + 1) * Interval \in Nat
      BY <3>2, OneMore
    <3>4. r[i] \in Nat
      BY <1>2
    <3> QED BY <1>1, <1>2, <2>1, <3>1, <3>3, <3>4, BurstIsNatural
  <2>2. CASE j # n
    <3>1. i \in 1 .. Len(s) /\ j \in 1 .. Len(s)
      BY <1>2, <2>2 DEF n
    <3> QED BY <1>2, <3>1 DEF Paced
  <2> QED BY <2>1, <2>2
<1> QED BY <1>5, <1>6 DEF a, r

(* Only an attachment puts a registration into a table, with a full bucket. *)
LEMMA MeteredByRegistry ==
  ASSUME Registry, BatchTypes, Governed, Metered, RegistryNext, UNCHANGED <<clock, batchVars>>
  PROVE  Metered'
<1>1. starts' = starts
  BY DEF batchVars
<1>2. CASE UNCHANGED <<tables, bucket>>
  BY <1>1, <1>2 DEF Metered, Paid, Paced
<1>3. ASSUME NEW t \in Threads, Attach(t)
      PROVE  Metered'
  <2>1. /\ made \in Ids /\ tools[order[t].name] = made /\ wanted[made] = order[t].controls
        /\ lock = t
        /\ \A k \in Controls : tables'[k] \ {made} \subseteq tables[k]
        /\ \A k \in Controls : made \in tables'[k] <=> k \in wanted[made]
    BY <1>3, AttachKeepsRegistry
  <2>2. "rate" \in Controls
    BY DEF Controls
  <2>3. bucket \in [Ids -> [units : Nat, updated_at : Nat]] /\ clock \in Nat
    BY DEF BatchTypes
  <2>4. \A id \in Ids : id # made => bucket'[id] = bucket[id]
    BY <1>3, <2>1, <2>3 DEF Attach
  <2>5. \A id \in tables["rate"] : id \in Ids
    BY <2>2 DEF Registry, RegistryTypes
  <2>6. ASSUME NEW id \in tables'["rate"], id # made
        PROVE  Paid(bucket'[id], starts[id]) /\ Paced(starts[id])
    <3>1. id \in tables["rate"]
      BY <2>1, <2>2, <2>6
    <3>2. bucket'[id] = bucket[id]
      BY <2>4, <2>5, <2>6, <3>1
    <3> QED BY <3>1, <3>2 DEF Metered
  <2>7. ASSUME made \in tables'["rate"]
        PROVE  Paid(bucket'[made], starts[made]) /\ Paced(starts[made])
    <3>1. "rate" \in order[t].controls
      BY <2>1, <2>2, <2>7
    <3>2. bucket'[made] = [units |-> Burst, updated_at |-> clock]
      BY <1>3, <2>1, <2>3, <3>1 DEF Attach, Burst
    <3>3. Unresolved(made)
      BY <1>3 DEF Attach, Unresolved, SomeoneAttaches
    <3>4. starts[made] = <<>>
      BY <2>1, <3>3 DEF Governed
    <3> QED BY <2>3, <3>2, <3>4, FreshIsPaid
  <2>8. \A id \in tables'["rate"] : Paid(bucket'[id], starts'[id]) /\ Paced(starts'[id])
    BY <1>1, <2>6, <2>7
  <2> QED BY <2>8 DEF Metered, Paid, Paced
<1> QED BY <1>2, <1>3 DEF RegistryNext, Check, Recheck, RegisterTool, Unregister

(* Only the start of a function takes a token, and it records its time. *)
LEMMA MeteredByStart ==
  ASSUME Registry, BatchTypes, Governed, Metered, NEW w \in Workers, Start(w)
  PROVE  Metered'
<1> DEFINE id == resolved[w]
           limited == "rate" \in held[w]
<1>1. /\ bucket \in [Ids -> [units : Nat, updated_at : Nat]] /\ starts \in [Ids -> Seq(Nat)]
      /\ clock \in Nat /\ \A i \in Ids : bucket[i].updated_at <= clock
  BY DEF BatchTypes
<1>2. id \in Ids /\ held[w] = wanted[id]
  BY DEF Start, Governed
<1>3. /\ "rate" \in Controls /\ tables["rate"] \subseteq Ids
      /\ \A i \in tables["rate"] : "rate" \in wanted[i]
  <2>1. "rate" \in Controls
    BY DEF Controls
  <2> QED BY <2>1 DEF Registry, RegistryTypes, Attached
<1>4. tables' = tables
  BY DEF Start
<1>5. bucket' = IF limited THEN [bucket EXCEPT ![id] = Acquired(@)] ELSE bucket
  BY DEF Start
<1>6. starts' = IF limited /\ ~HasToken(bucket[id]) THEN starts
                ELSE [starts EXCEPT ![id] = Append(@, clock)]
  BY DEF Start
<1> HIDE DEF id, limited
<1>7. ASSUME NEW i \in tables["rate"]
      PROVE  Paid(bucket'[i], starts'[i]) /\ Paced(starts'[i])
  <2>1. Paid(bucket[i], starts[i]) /\ Paced(starts[i]) /\ i \in Ids
    BY <1>3 DEF Metered
  <2>2. CASE i # id
    BY <1>1, <1>2, <1>5, <1>6, <2>1, <2>2
  <2>3. CASE i = id
    <3>1. limited /\ bucket'[i] = Acquired(bucket[i])
      BY <1>1, <1>2, <1>3, <1>5, <2>3 DEF limited
    <3>2. /\ bucket[i] \in [units : Nat, updated_at : Nat] /\ bucket[i].updated_at <= clock
          /\ starts[i] \in Seq(Nat)
      BY <1>1, <2>1
    <3>3. CASE HasToken(bucket[i])
      <4>1. starts'[i] = Append(starts[i], clock)
        BY <1>1, <1>2, <1>6, <2>3, <3>3
      <4> QED BY <1>1, <2>1, <3>1, <3>2, <3>3, <4>1, StartIsPaid
    <3>4. CASE ~HasToken(bucket[i])
      <4>1. starts'[i] = starts[i]
        BY <1>6, <2>3, <3>1, <3>4
      <4> QED BY <1>1, <2>1, <3>1, <3>2, <3>4, <4>1, RefusalIsPaid
    <3> QED BY <3>3, <3>4
  <2> QED BY <2>2, <2>3
<1> QED BY <1>4, <1>7 DEF Metered, Paid, Paced

(* No step leaves a start unpaid. *)
LEMMA MeteredPreserved ==
  ASSUME Registry, BatchTypes, Governed, Metered, [Next]_vars
  PROVE  Metered'
<1>1. CASE UNCHANGED <<tables, bucket, starts>>
  BY <1>1 DEF Metered, Paid, Paced
<1>2. CASE Tick /\ UNCHANGED batchVars
  BY <1>1, <1>2 DEF Tick, registryVars, batchVars
<1>3. CASE BatchStep \/ UNCHANGED vars
  BY <1>1, <1>3 DEF BatchStep, InvokeMany, Return, Cancel, OthersChange, RegistryUnchanged,
                    registryVars, batchVars, vars
<1>4. ASSUME NEW w \in Workers, WorkerStep(w)
      PROVE  Metered'
  <2>1. CASE Start(w)
    BY <2>1, MeteredByStart
  <2> QED BY <1>1, <1>4, <2>1 DEF WorkerStep, Pull, Stop, Resolve, Finish, Raise,
                                  RegistryUnchanged, registryVars
<1> QED BY <1>2, <1>3, <1>4, MeteredByRegistry, StepCases

(***************************************************************************)
(* For every burst and interval, and whatever calls come and registrations *)
(* change: in no window do the functions of one registration start more    *)
(* often than the burst and what the window refills.                       *)
(***************************************************************************)
THEOREM RateIsBounded == Spec => []RateBounded
<1>1. Init => Metered
  BY DEF Init, RegistryInit, Metered, Controls
<1>2. Spec => []Metered
  BY <1>1, MeteredPreserved, RegistryHolds, BatchTypesHold, GovernedHolds, PTL DEF Spec
<1>3. Registry /\ BatchTypes /\ Metered => RateBounded
  <2> SUFFICES ASSUME Registry, BatchTypes, Metered, NEW id \in tables["rate"],
                      NEW i \in DOMAIN starts[id], NEW j \in DOMAIN starts[id], i <= j
               PROVE  (j - i + 1) * Interval <= Burst + (starts[id][j] - starts[id][i])
    BY DEF RateBounded, Burst
  <2>1. "rate" \in Controls
    BY DEF Controls
  <2>2. id \in Ids
    BY <2>1 DEF Registry, RegistryTypes
  <2>3. DOMAIN starts[id] = 1 .. Len(starts[id])
    <3>1. starts[id] \in Seq(Nat)
      BY <2>2 DEF BatchTypes
    <3> QED BY <3>1
  <2> QED BY <2>3 DEF Metered, Paced
<1> QED BY <1>2, <1>3, RegistryHolds, BatchTypesHold, PTL

-----------------------------------------------------------------------------
(* The calls of a batch.                                                   *)

(* A call that has been handed out and has no result is in a worker's hands. *)
InHand(c) == \E w \in Workers : Active(w) /\ at[w] = c

(***************************************************************************)
(* The iterator has handed out exactly the calls before its position; a    *)
(* worker stops only when there is no call left; while the batch runs      *)
(* nobody has lost a call; and nobody works for a batch that has ended.    *)
(***************************************************************************)
HandedOut ==
  /\ \A c \in Calls : entered[c] = IF c < next THEN 1 ELSE 0
  /\ batch = "new" => next = 1 /\ \A w \in Workers : phase[w] = "none"
  /\ batch = "running" =>
       /\ \A w \in Workers : phase[w] \notin {"none", "raised"}
       /\ \A w \in Workers : phase[w] = "over" => next > Len(Batch)
       /\ \A c \in Calls : c < next /\ results[c] = "" => InHand(c)
  /\ batch = "returned" => \A c \in Calls : results[c] # "" /\ entered[c] = 1
  /\ batch \in {"returned", "cancelled"} => \A w \in Workers : phase[w] = "over"

(* At first no call has been handed out. *)
LEMMA HandedOutInitially == Init => HandedOut
<1> SUFFICES ASSUME Init PROVE HandedOut
  OBVIOUS
<1>1. next = 1 /\ entered = [c \in Calls |-> 0] /\ batch = "new"
      /\ phase = [w \in Workers |-> "none"]
  BY DEF Init
<1>2. \A c \in Calls : ~(c < next)
  BY <1>1, WorkerFacts
<1> QED BY <1>1, <1>2 DEF HandedOut

(* The step that takes a call from the iterator. *)
LEMMA PullHandsOut ==
  ASSUME BatchTypes, HandedOut, NEW w \in Workers, Pull(w)
  PROVE  HandedOut'
<1>1. /\ phase[w] = "pulling" /\ next \in Nat /\ next <= Len(Batch)
      /\ next' = next + 1 /\ entered' = [entered EXCEPT ![next] = @ + 1]
      /\ batch' = batch
  BY DEF Pull, BatchTypes
<1>2. /\ phase \in [Workers -> {"none", "pulling", "admitted", "queued", "running", "over", "raised"}]
      /\ at \in [Workers -> 0 .. Len(Batch)] /\ entered \in [Calls -> Nat]
      /\ results \in [Calls -> {"", "busy", "not_found", "rate_limited", "success"}]
  BY DEF BatchTypes
<1>3. next \in Calls
  <2>1. 1 <= next
    BY DEF BatchTypes
  <2> QED BY <1>1, <2>1, WorkerFacts
<1>4. batch \notin {"new", "returned", "cancelled"}
  BY <1>1 DEF HandedOut
<1>5. \A c \in Calls : entered'[c] = IF c < next' THEN 1 ELSE 0
  <2> SUFFICES ASSUME NEW c \in Calls
               PROVE  entered'[c] = IF c < next' THEN 1 ELSE 0
    OBVIOUS
  <2>1. entered[c] = (IF c < next THEN 1 ELSE 0) /\ c \in Nat
    <3>1. entered[c] = (IF c < next THEN 1 ELSE 0)
      BY DEF HandedOut
    <3> QED BY <3>1, WorkerFacts
  <2>2. CASE c = next
    <3>1. entered'[c] = entered[c] + 1
      BY <1>1, <1>2, <1>3, <2>2
    <3>2. c < next' /\ ~(c < next)
      BY <1>1, <2>2
    <3> QED BY <2>1, <3>1, <3>2
  <2>3. CASE c # next
    <3>1. entered'[c] = entered[c]
      BY <1>1, <1>2, <1>3, <2>3
    <3>2. c < next' <=> c < next
      BY <1>1, <2>1, <2>3
    <3> QED BY <2>1, <3>1, <3>2
  <2> QED BY <2>2, <2>3
<1>6. ASSUME batch = "running"
      PROVE  /\ \A v \in Workers : phase'[v] \notin {"none", "raised"}
             /\ \A v \in Workers : phase'[v] = "over" => next' > Len(Batch)
             /\ \A c \in Calls : c < next' /\ results'[c] = "" => InHand(c)'
  <2>1. /\ \A v \in Workers : phase[v] \notin {"none", "raised"}
        /\ \A v \in Workers : phase[v] # "over"
        /\ \A c \in Calls : c < next /\ results[c] = "" => InHand(c)
    <3>1. /\ \A v \in Workers : phase[v] \notin {"none", "raised"}
          /\ \A v \in Workers : phase[v] = "over" => next > Len(Batch)
          /\ \A c \in Calls : c < next /\ results[c] = "" => InHand(c)
      BY <1>6 DEF HandedOut
    <3>2. ~(next > Len(Batch))
      BY <1>1, WorkerFacts
    <3> QED BY <3>1, <3>2
  <2>2. \A c \in Calls : c < next' => c < next \/ c = next
    BY <1>1, WorkerFacts
  <2>3. CASE Pending < MaxPending
    <3>1. /\ phase' = [phase EXCEPT ![w] = "admitted"]
          /\ at' = [at EXCEPT ![w] = next] /\ results' = results
      BY <2>3 DEF Pull
    <3>2. \A c : c = next => InHand(c)'
      <4>1. phase'[w] = "admitted" /\ at'[w] = next /\ next' = next + 1
        BY <1>1, <1>2, <3>1
      <4> QED BY <4>1 DEF InHand, Active
    <3>3. \A c : InHand(c) => InHand(c)'
      BY <1>1, <1>2, <3>1 DEF InHand, Active
    <3>4. \A v \in Workers : phase'[v] \notin {"none", "raised", "over"}
      BY <1>2, <2>1, <3>1
    <3>5. \A c \in Calls : c < next' /\ results'[c] = "" => InHand(c)'
      <4> SUFFICES ASSUME NEW c \in Calls, c < next', results'[c] = ""
                   PROVE  InHand(c)'
        OBVIOUS
      <4>1. CASE c = next
        BY <3>2, <4>1
      <4>2. CASE c < next
        BY <2>1, <3>1, <3>3, <4>2
      <4> QED BY <2>2, <4>1, <4>2
    <3> QED BY <3>4, <3>5
  <2>4. CASE ~(Pending < MaxPending)
    <3>1. results' = [results EXCEPT ![next] = "busy"] /\ UNCHANGED <<phase, at>>
      BY <2>4 DEF Pull
    <3>2. \A c : InHand(c) => InHand(c)'
      BY <3>1 DEF InHand, Active
    <3>3. \A c \in Calls : results'[c] = "" => c # next /\ results[c] = ""
      BY <1>2, <1>3, <3>1
    <3> QED BY <2>1, <2>2, <3>1, <3>2, <3>3
  <2> QED BY <2>3, <2>4
<1> QED BY <1>1, <1>4, <1>5, <1>6 DEF HandedOut

(* A call is answered in its own place, and its worker is free. *)
LEMMA AnswerIsInPlace ==
  ASSUME BatchTypes, NEW w \in Workers, Active(w),
         NEW r \in {"busy", "not_found", "rate_limited", "success"}, Answered(w, r)
  PROVE  /\ \A c \in Calls : results'[c] = "" => results[c] = "" /\ c # at[w]
         /\ \A c \in Calls : results'[c] = results[c] \/ results'[c] = r
         /\ \A c : InHand(c) /\ c # at[w] => InHand(c)'
         /\ phase' = [phase EXCEPT ![w] = "pulling"]
<1>1. /\ phase' = [phase EXCEPT ![w] = "pulling"] /\ at' = [at EXCEPT ![w] = 0]
      /\ results' = [results EXCEPT ![at[w]] = r] /\ at[w] \in Calls
  <2>1. at[w] \in Calls
    BY DEF BatchTypes
  <2> QED BY <2>1 DEF Answered
<1>2. /\ phase \in [Workers -> {"none", "pulling", "admitted", "queued", "running", "over", "raised"}]
      /\ at \in [Workers -> 0 .. Len(Batch)]
      /\ results \in [Calls -> {"", "busy", "not_found", "rate_limited", "success"}]
  BY DEF BatchTypes
<1>3. \A c : InHand(c) /\ c # at[w] => InHand(c)'
  BY <1>1, <1>2 DEF InHand, Active
<1> QED BY <1>1, <1>2, <1>3

(* The steps of a worker on the call it has. *)
LEMMA WorkHandsOut ==
  ASSUME BatchTypes, HandedOut, NEW w \in Workers, WorkerStep(w), ~Pull(w)
  PROVE  HandedOut'
<1>1. UNCHANGED <<next, entered>>
  BY DEF WorkerStep, Stop, Resolve, Start, Finish, Raise
<1>2. /\ phase \in [Workers -> {"none", "pulling", "admitted", "queued", "running", "over", "raised"}]
      /\ at \in [Workers -> 0 .. Len(Batch)]
  BY DEF BatchTypes
<1>3. phase[w] \notin {"none", "over", "raised"}
  BY DEF WorkerStep, Stop, Resolve, Start, Finish, Raise
<1>4. batch \notin {"new", "returned", "cancelled"}
  BY <1>3 DEF HandedOut
<1>5. ASSUME batch' = batch,
             batch = "running" =>
               /\ \A v \in Workers : phase'[v] \notin {"none", "raised"}
               /\ \A v \in Workers : phase'[v] = "over" => next > Len(Batch)
               /\ \A c \in Calls : c < next /\ results'[c] = "" => InHand(c)'
      PROVE  HandedOut'
  BY <1>1, <1>4, <1>5 DEF HandedOut
<1>6. batch = "running" =>
        /\ \A v \in Workers : phase[v] \notin {"none", "raised"}
        /\ \A v \in Workers : phase[v] = "over" => next > Len(Batch)
        /\ \A c \in Calls : c < next /\ results[c] = "" => InHand(c)
  BY DEF HandedOut
<1>7. CASE Stop(w)
  <2>1. /\ next > Len(Batch) /\ phase[w] = "pulling" /\ phase' = [phase EXCEPT ![w] = "over"]
        /\ UNCHANGED <<at, results, batch>>
    BY <1>7 DEF Stop
  <2>2. \A c : InHand(c) => InHand(c)'
    BY <1>2, <2>1 DEF InHand, Active
  <2> QED BY <1>2, <1>5, <1>6, <2>1, <2>2
<1>8. ASSUME NEW r \in {"not_found", "rate_limited", "success"}, Answered(w, r), Active(w),
             batch' = batch
      PROVE  HandedOut'
  <2>1. /\ \A c \in Calls : results'[c] = "" => results[c] = "" /\ c # at[w]
        /\ \A c : InHand(c) /\ c # at[w] => InHand(c)'
        /\ phase' = [phase EXCEPT ![w] = "pulling"]
    BY <1>8, AnswerIsInPlace
  <2> QED BY <1>2, <1>5, <1>6, <1>8, <2>1
<1>9. ASSUME NEW p \in {"queued", "running"}, phase' = [phase EXCEPT ![w] = p],
             UNCHANGED <<at, results, batch>>
      PROVE  HandedOut'
  <2>1. \A c : InHand(c) => InHand(c)'
    BY <1>2, <1>9 DEF InHand, Active
  <2> QED BY <1>2, <1>5, <1>6, <1>9, <2>1
<1>10. CASE Resolve(w)
  <2>1. Active(w) /\ batch' = batch
    BY <1>10 DEF Resolve, Active
  <2>2. CASE Answered(w, "not_found")
    BY <1>8, <2>1, <2>2
  <2>3. CASE phase' = [phase EXCEPT ![w] = "queued"] /\ UNCHANGED <<at, results>>
    BY <1>9, <2>1, <2>3
  <2> QED BY <1>10, <2>2, <2>3 DEF Resolve
<1>11. CASE Start(w)
  <2>1. Active(w) /\ batch' = batch
    BY <1>11 DEF Start, Active
  <2>2. CASE Answered(w, "rate_limited")
    BY <1>8, <2>1, <2>2
  <2>3. CASE phase' = [phase EXCEPT ![w] = "running"] /\ UNCHANGED <<at, results>>
    BY <1>9, <2>1, <2>3
  <2> QED BY <1>11, <2>2, <2>3 DEF Start
<1>12. CASE Finish(w)
  BY <1>8, <1>12 DEF Finish, Active
<1>13. CASE Raise(w)
  BY <1>1, <1>4, <1>13 DEF Raise, HandedOut, BatchTypes
<1> QED BY <1>7, <1>10, <1>11, <1>12, <1>13 DEF WorkerStep

(* No step hands a call out twice, or loses one. *)
LEMMA HandedOutPreserved ==
  ASSUME BatchTypes, HandedOut, [Next]_vars
  PROVE  HandedOut'
<1>1. CASE UNCHANGED batchVars
  <2>1. \A c : InHand(c)' <=> InHand(c)
    BY <1>1 DEF InHand, Active, batchVars
  <2> QED BY <1>1, <2>1 DEF HandedOut, batchVars
<1>2. CASE InvokeMany
  <2>1. /\ batch' = "running" /\ phase' = [w \in Workers |-> "pulling"]
        /\ batch = "new" /\ UNCHANGED <<next, entered, results>>
    BY <1>2 DEF InvokeMany
  <2>2. next = 1
    BY <2>1 DEF HandedOut
  <2>3. \A c \in Calls : ~(c < next)
    BY <2>2, WorkerFacts
  <2> QED BY <2>1, <2>3 DEF HandedOut
<1>3. CASE Return
  <2>1. /\ batch = "running" /\ \A w \in Workers : phase[w] = "over"
        /\ batch' = "returned" /\ UNCHANGED <<next, phase, results, entered>>
    BY <1>3 DEF Return
  <2>2. 1 \in Workers
    BY WorkerFacts DEF Workers
  <2>3. next > Len(Batch) /\ next \in Nat
    BY <2>1, <2>2 DEF HandedOut, BatchTypes
  <2>4. \A c \in Calls : c < next
    BY <2>3, WorkerFacts
  <2>5. \A c \in Calls : ~InHand(c)
    BY <2>1 DEF InHand, Active
  <2>6. \A c \in Calls : results[c] # "" /\ entered[c] = 1
    BY <2>1, <2>4, <2>5 DEF HandedOut
  <2> QED BY <2>1, <2>6 DEF HandedOut
<1>4. CASE Cancel
  BY <1>4 DEF Cancel, HandedOut
<1>5. CASE OthersChange
  <2>1. UNCHANGED <<batch, next, phase, at, results, entered>>
    BY <1>5 DEF OthersChange
  <2>2. \A c : InHand(c)' <=> InHand(c)
    BY <2>1 DEF InHand, Active
  <2> QED BY <2>1, <2>2 DEF HandedOut
<1>6. ASSUME NEW w \in Workers, WorkerStep(w)
      PROVE  HandedOut'
  BY <1>6, PullHandsOut, WorkHandsOut
<1> QED BY <1>1, <1>2, <1>3, <1>4, <1>5, <1>6, StepCases DEF BatchStep, vars

(* Nobody hands out or loses a call of a batch, in any behaviour. *)
LEMMA HandedOutHolds == Spec => []HandedOut
<1>1. Init => HandedOut
  BY HandedOutInitially
<1> QED BY <1>1, HandedOutPreserved, BatchTypesHold, PTL DEF Spec

(* The workers that are busy with a call while another one pulls. *)
LEMMA OnePulls ==
  ASSUME NEW w \in Workers, ~Active(w)
  PROVE  Cardinality({v \in Workers : Active(v)}) < MaxPending
<1> DEFINE A == {v \in Workers : Active(v)}
<1>1. IsFiniteSet(Workers) /\ Cardinality(Workers) = WorkerCount
      /\ WorkerCount \in Nat /\ WorkerCount <= MaxPending /\ MaxPending \in Nat
  BY WorkerFacts, BatchAssumption
<1>2. A \subseteq Workers \ {w}
  OBVIOUS
<1>3. IsFiniteSet(Workers \ {w}) /\ Cardinality(Workers \ {w}) = Cardinality(Workers) - 1
  BY <1>1, FS_RemoveElement
<1>4. Cardinality(A) <= Cardinality(Workers \ {w}) /\ IsFiniteSet(A)
  BY <1>2, <1>3, FS_Subset
<1>5. Cardinality(A) \in Nat
  BY <1>4, FS_CardinalityType
<1> QED BY <1>1, <1>3, <1>4, <1>5

(* Who does not fill the places alone is not alone. *)
LEMMA NotAlone ==
  ASSUME NEW a \in Nat, NEW n \in Nat, NEW m \in Nat, n < m, ~(a + n < m)
  PROVE  a > 0
OBVIOUS

(* A call of the batch is busy only for somebody else's sake. *)
LEMMA BusyForOthers ==
  ASSUME BatchTypes, [Next]_vars, NEW c \in Calls, results[c] = "", results'[c] = "busy"
  PROVE  others > 0
<1>1. PICK w \in Workers : WorkerStep(w)
  BY StepCases DEF BatchStep, InvokeMany, Return, Cancel, OthersChange, batchVars, vars
<1>2. CASE Pull(w)
  <2>1. ~(Pending < MaxPending)
    BY <1>2 DEF Pull
  <2>2. Cardinality({v \in Workers : Active(v)}) < MaxPending
    BY <1>2, OnePulls DEF Pull, Active
  <2>3. Pending = others + Cardinality({v \in Workers : Active(v)})
    BY DEF Pending, Active
  <2>4. IsFiniteSet({v \in Workers : Active(v)})
    BY WorkerFacts, FS_Subset
  <2>5. Cardinality({v \in Workers : Active(v)}) \in Nat
    BY <2>4, FS_CardinalityType
  <2>6. others \in Nat /\ MaxPending \in Nat
    BY BatchAssumption DEF BatchTypes
  <2> DEFINE n == Cardinality({v \in Workers : Active(v)})
  <2>7. n \in Nat /\ n < MaxPending /\ ~(others + n < MaxPending)
    BY <2>1, <2>2, <2>3, <2>5
  <2> HIDE DEF n
  <2> QED BY <2>6, <2>7, NotAlone
<1>3. CASE ~Pull(w)
  <2>1. ASSUME NEW r \in {"not_found", "rate_limited", "success"}, Answered(w, r), Active(w)
        PROVE  FALSE
    BY <2>1, AnswerIsInPlace
  <2>2. results' # results
    OBVIOUS
  <2> QED BY <1>1, <1>3, <2>1, <2>2 DEF WorkerStep, Stop, Raise, Resolve, Start, Finish, Active
<1> QED BY <1>2, <1>3

(***************************************************************************)
(* For every batch and any number of workers: each call is handed to       *)
(* invoke once at most, and has its result when the batch returns; and a   *)
(* batch never makes its own calls busy.                                   *)
(***************************************************************************)
THEOREM BatchesAreFaithful == Spec => BatchIsFaithful
<1>1. ASSUME BatchTypes, BatchTypes', HandedOut, HandedOut', [Next]_vars
      PROVE  /\ EachCallOnce'
             /\ \A c \in Calls : results[c] = "" /\ results'[c] = "busy" => others > 0
  <2>1. EachCallOnce'
    <3>1. \A c \in Calls : entered'[c] = IF c < next' THEN 1 ELSE 0
      BY <1>1 DEF HandedOut
    <3>2. \A c \in Calls : entered'[c] <= 1
      BY <3>1
    <3>3. batch' = "returned" => \A c \in Calls : results'[c] # "" /\ entered'[c] = 1
      BY <1>1 DEF HandedOut
    <3> QED BY <3>2, <3>3 DEF EachCallOnce
  <2> QED BY <1>1, <2>1, BusyForOthers
<1> QED BY <1>1, BatchTypesHold, HandedOutHolds, PTL DEF Spec, BatchIsFaithful

-----------------------------------------------------------------------------
(***************************************************************************)
(* The progress of a call.                                                 *)
(***************************************************************************)

Kinds == {"progress", "stop", "log", "answer"}
Results == {"true", "false", "failed", "not_increasing"}
Hosts == {"calling", "joining", "closing", "logging", "answering", "answered", "silent"}

Types ==
  /\ maxUpdates \in Nat /\ asked \in BOOLEAN
  /\ scope \in [last : Nat, updates : Nat, closed : BOOLEAN]
  /\ lockQueue \in Seq(Reporters \cup {Host})
  /\ doing \in [Reporters -> {"running", "waiting", "sending", "ended"}]
  /\ pending \in [Reporters -> Nat]
  /\ host \in Hosts
  /\ wire \in Seq([kind : Kinds, progress : Nat])
  /\ reports \in Seq([progress : Nat, result : Results])

Sending(r) == doing[r] = "sending"
NobodySends == \A r \in Reporters : ~Sending(r)

(* Who sends holds the lock, and its update is the latest the scope took   *)
(* up, within the cap; without a scope nobody reports.                     *)
Delivery ==
  /\ \A r \in Reporters : Sending(r) =>
       IsHead(r) /\ pending[r] = scope.last /\ scope.updates < maxUpdates
  /\ ~asked => \A r \in Reporters : doing[r] \in {"running", "ended"}
  /\ scope.updates <= maxUpdates

(* The latest update of the scope is beyond all that was delivered, unless *)
(* it is the one that was delivered last.                                  *)
Ordered ==
  /\ Increasing(wire, Sent) /\ Increasing(reports, TakenUp)
  /\ \A i \in Sent : /\ wire[i].progress <= scope.last
                     /\ wire[i].progress = scope.last => NobodySends
                     /\ \E n \in DOMAIN reports :
                          reports[n] = [progress |-> wire[i].progress, result |-> "true"]
  /\ \A n \in TakenUp : /\ reports[n].progress <= scope.last
                        /\ reports[n].progress = scope.last => NobodySends
  /\ Cardinality(Sent) <= scope.updates

Written(kind) == \E i \in DOMAIN wire : wire[i].kind = kind

(* Nothing is taken up once the scope is closed, and the host goes on when *)
(* it had the lock: who is in delivery at the stop is the last one.        *)
Ending ==
  /\ host # "calling" \/ Written("stop") => scope.closed
  /\ \A i, j \in After("stop") : OfTool(i) /\ OfTool(j) => i = j
  /\ \A i \in After("stop") : OfTool(i) => NobodySends
  /\ host \in {"logging", "answering", "answered"} \/ Written("log") => NobodySends
  /\ Written("log") => host \in {"answering", "answered", "silent"}
  /\ Written("answer") => host = "answered"
  /\ \A i \in DOMAIN wire : wire[i].kind = "answer" => i = Len(wire)
  /\ \A i \in After("log") : ~OfTool(i)

(* An execution that has ended has an outcome, and the host a verdict.     *)
Course ==
  /\ bodyOutcome \in {"none", "success", "failed", "cancelled", "progress_failed"}
  /\ doing[Body] = "ended" => bodyOutcome # "none"
  /\ host = "joining" => verdict \in {"timed_out", "cancelled"}
  /\ host = "closing" =>
       verdict \in {"success", "failed", "timed_out", "raised", "cancelled", "progress_failed"}

Inv == Types /\ Course /\ Delivery /\ Ordered /\ Ending

-----------------------------------------------------------------------------
(* A sequence, as the function it is. *)
LEMMA ElementsOf ==
  ASSUME NEW T, NEW s \in Seq(T)
  PROVE  /\ \A i \in DOMAIN s : s[i] \in T
         /\ DOMAIN s = 1 .. Len(s) /\ Len(s) \in Nat
  OBVIOUS

(* A sequence with one more entry. *)
LEMMA AppendFacts ==
  ASSUME NEW T, NEW s \in Seq(T), NEW m \in T
  PROVE  /\ Append(s, m) \in Seq(T)
         /\ Len(s) \in Nat /\ DOMAIN s = 1 .. Len(s)
         /\ Len(Append(s, m)) = Len(s) + 1
         /\ DOMAIN Append(s, m) = 1 .. (Len(s) + 1)
         /\ \A i \in DOMAIN s : Append(s, m)[i] = s[i]
         /\ Append(s, m)[Len(s) + 1] = m
  OBVIOUS

(* Whoever leaves the queue, the first of the others keeps its place. *)
LEMMA WithoutFacts ==
  ASSUME NEW T, NEW q \in Seq(T), NEW r
  PROVE  /\ Without(q, r) \in Seq(T)
         /\ q # <<>> /\ Head(q) # r =>
              Without(q, r) # <<>> /\ Head(Without(q, r)) = Head(q)
<1>1. CASE \A i \in DOMAIN q : q[i] # r
  BY <1>1 DEF Without
<1>2. CASE ~ \A i \in DOMAIN q : q[i] # r
  <2> DEFINE k == CHOOSE i \in DOMAIN q : q[i] = r
             before == SubSeq(q, 1, k - 1)
             after  == SubSeq(q, k + 1, Len(q))
  <2>1. k \in 1 .. Len(q) /\ q[k] = r /\ Len(q) \in Nat
    BY <1>2
  <2>2. Without(q, r) = before \o after
    BY <1>2 DEF Without
  <2> HIDE DEF k
  <2>3. before \in Seq(T) /\ after \in Seq(T)
    BY <2>1
  <2>4. q # <<>> /\ Head(q) # r => k > 1
    BY <2>1
  <2>5. k > 1 => Len(before) = k - 1 /\ before[1] = q[1]
    BY <2>1
  <2> HIDE DEF before, after
  <2>6. /\ before \o after \in Seq(T)
        /\ Len(before) > 0 => /\ before \o after # <<>>
                              /\ Head(before \o after) = before[1]
    BY <2>3
  <2>7. Head(q) = q[1]
    BY <2>1
  <2> QED BY <2>1, <2>2, <2>4, <2>5, <2>6, <2>7
<1> QED BY <1>1, <1>2

(* The call begins: nothing was reported or written. *)
LEMMA InitInv == ProgressInit => Inv
<1> SUFFICES ASSUME ProgressInit PROVE Inv
  OBVIOUS
<1>1. Sent = {} /\ TakenUp = {} /\ Cardinality(Sent) = 0
  BY FS_EmptySet DEF ProgressInit, Sent, TakenUp
<1>2. Types /\ Course
  BY ProgressAssumption DEF ProgressInit, Types, Course, Hosts
<1>3. Delivery
  BY ProgressAssumption DEF ProgressInit, Delivery, Sending
<1>4. Ordered
  BY <1>1 DEF ProgressInit, Ordered, Increasing
<1>5. Ending
  BY DEF ProgressInit, Ending, Written, After
<1> QED BY <1>2, <1>3, <1>4, <1>5 DEF Inv

(* What is on the wire and among the reports. *)
LEMMA Entries ==
  ASSUME Types
  PROVE  /\ \A i \in DOMAIN wire : wire[i] \in [kind : Kinds, progress : Nat]
         /\ \A n \in DOMAIN reports : reports[n] \in [progress : Nat, result : Results]
         /\ DOMAIN wire = 1 .. Len(wire) /\ Len(wire) \in Nat
  BY ElementsOf DEF Types

(* A step that writes nothing, takes nothing up and answers no report.     *)
LEMMA QuietStep ==
  ASSUME Inv, UNCHANGED <<maxUpdates, asked, scope, wire, reports>>,
         \A r \in Reporters :
           Sending(r)' => Sending(r) /\ IsHead(r)' /\ pending'[r] = pending[r],
         ~asked => \A r \in Reporters : doing'[r] \in {"running", "ended"},
         host' # host =>
           /\ scope.closed
           /\ host \notin {"answering", "answered", "silent"} \/ host' = "silent"
           /\ host # "answered"
           /\ host' \in {"logging", "answering", "answered"} => NobodySends'
  PROVE  Delivery' /\ Ordered' /\ Ending'
<1>1. NobodySends => NobodySends'
  BY DEF NobodySends
<1>2. Delivery'
  BY DEF Inv, Delivery
<1>3. Ordered'
  BY <1>1 DEF Inv, Ordered, Sent, TakenUp, OfTool, Increasing
<1>4. Ending'
  BY <1>1 DEF Inv, Ending, Written, After, OfTool
<1> QED BY <1>2, <1>3, <1>4

(* A report that is refused, while nobody sends. *)
LEMMA RefusedStep ==
  ASSUME Inv, NEW p \in Nat, NEW x \in {"false", "not_increasing"},
         reports' = Append(reports, [progress |-> p, result |-> x]),
         NobodySends', scope'.last \in Nat, scope'.last >= scope.last,
         scope'.updates = scope.updates, scope'.closed = scope.closed,
         ~asked => \A r \in Reporters : doing'[r] \in {"running", "ended"},
         UNCHANGED <<maxUpdates, asked, wire, host>>
  PROVE  Delivery' /\ Ordered' /\ Ending'
<1>1. Delivery'
  BY DEF Inv, Delivery, NobodySends
<1>2. /\ DOMAIN reports' = DOMAIN reports \cup {Len(reports) + 1}
      /\ \A n \in DOMAIN reports : reports'[n] = reports[n]
      /\ reports'[Len(reports) + 1].result = x
  BY AppendFacts, [progress |-> p, result |-> x] \in [progress : Nat, result : Results]
     DEF Inv, Types, Results
<1>3. TakenUp' = TakenUp /\ TakenUp \subseteq DOMAIN reports
  BY <1>2 DEF TakenUp
<1>4. \A n \in TakenUp : reports[n].progress \in Nat
  BY Entries DEF Inv, TakenUp
<1>5. \A i \in Sent : wire[i].progress \in Nat
  BY Entries DEF Inv, Sent
<1>6. Ordered'
  <2>1. Increasing(wire, Sent)' /\ Cardinality(Sent') <= scope'.updates
    BY DEF Inv, Ordered, Increasing, Sent, OfTool
  <2>2. Increasing(reports, TakenUp)'
    BY <1>2, <1>3 DEF Inv, Ordered, Increasing
  <2>3. \A i \in Sent' : wire'[i].progress <= scope'.last
    BY <1>5 DEF Inv, Ordered, Types, Sent, OfTool
  <2>4. \A n \in TakenUp' : reports'[n].progress <= scope'.last
    BY <1>2, <1>3, <1>4 DEF Inv, Ordered, Types
  <2>5. \A i \in Sent' : \E n \in DOMAIN reports' :
          reports'[n] = [progress |-> wire'[i].progress, result |-> "true"]
    BY <1>2 DEF Inv, Ordered, Sent, OfTool
  <2> QED BY <2>1, <2>2, <2>3, <2>4, <2>5 DEF Ordered
<1>7. Ending'
  BY DEF Inv, Ending, Written, After, OfTool
<1> QED BY <1>1, <1>6, <1>7

(* An update that is taken up and goes to the handler. *)
LEMMA TakenUpStep ==
  ASSUME Inv, NEW r \in Reporters, NEW p \in Nat,
         ~scope.closed, p > scope.last, scope.updates < maxUpdates, asked,
         NobodySends, IsHead(r)', pending'[r] = p,
         scope' = [scope EXCEPT !.last = p],
         doing' = [doing EXCEPT ![r] = "sending"],
         UNCHANGED <<maxUpdates, asked, wire, reports, host>>
  PROVE  Delivery' /\ Ordered' /\ Ending'
<1>1. /\ scope'.last = p /\ scope'.updates = scope.updates /\ scope'.closed = scope.closed
      /\ scope.last \in Nat
  BY DEF Inv, Types
<1>2. \A q \in Reporters : Sending(q)' => q = r
  BY DEF NobodySends, Sending, Inv, Types
<1>3. Delivery'
  BY <1>1, <1>2 DEF Inv, Delivery
<1>4. Ordered'
  <2>1. \A i \in Sent : wire[i].progress \in Nat
    BY Entries DEF Inv, Sent
  <2>2. \A n \in TakenUp : reports[n].progress \in Nat
    BY Entries DEF Inv, TakenUp
  <2>3. Sent' = Sent /\ TakenUp' = TakenUp
    BY DEF Sent, TakenUp, OfTool
  <2>4. \A i \in Sent : wire[i].progress < p
    BY <1>1, <2>1 DEF Inv, Ordered
  <2>5. \A n \in TakenUp : reports[n].progress < p
    BY <1>1, <2>2 DEF Inv, Ordered
  <2> QED BY <1>1, <2>1, <2>2, <2>3, <2>4, <2>5 DEF Inv, Ordered, Increasing
<1>5. Ending'
  <2>1. ~Written("stop") /\ host = "calling"
    BY DEF Inv, Ending
  <2>2. After("stop") = {}
    BY <2>1 DEF After, Written, Inv, Types
  <2>3. ~Written("log") /\ ~Written("answer")
    BY <2>1 DEF Inv, Ending
  <2>4. After("log") = {}
    BY <2>3 DEF After, Written, Inv, Types
  <2> QED BY <2>1, <2>2, <2>3, <2>4 DEF Ending, Written, After
<1> QED BY <1>3, <1>4, <1>5

(* The decision on a report: with the lock, or while it is free. *)
LEMMA DecidesStep ==
  ASSUME Inv, NEW r \in Reporters, NEW p \in Nat, Decides(r, p), asked, NobodySends,
         pending'[r] = p, UNCHANGED <<maxUpdates, asked, wire, host>>
  PROVE  Delivery' /\ Ordered' /\ Ending'
<1>1. scope.last \in Nat /\ scope.updates \in Nat /\ maxUpdates \in Nat
  BY DEF Inv, Types
<1>2. ASSUME NEW x \in {"false", "not_increasing"}, Gives(r, p, x),
             scope' = scope \/ scope' = [scope EXCEPT !.last = p], scope'.last >= scope.last
      PROVE  Delivery' /\ Ordered' /\ Ending'
  <2>1. NobodySends'
    BY <1>2 DEF NobodySends, Sending, Gives, Inv, Types
  <2>2. scope'.last \in Nat /\ scope'.updates = scope.updates /\ scope'.closed = scope.closed
    BY <1>2 DEF Inv, Types
  <2> QED BY <1>2, <2>1, <2>2, RefusedStep DEF Gives
<1>3. CASE scope.closed /\ Gives(r, p, "false") /\ UNCHANGED scope
  BY <1>1, <1>2, <1>3
<1>4. CASE ~scope.closed /\ Gives(r, p, "not_increasing") /\ UNCHANGED scope
  BY <1>1, <1>2, <1>4
<1>5. CASE /\ ~scope.closed /\ p > scope.last
           /\ scope' = [scope EXCEPT !.last = p]
           /\ scope.updates >= maxUpdates /\ Gives(r, p, "false")
  <2>1. scope'.last >= scope.last
    BY <1>1, <1>5 DEF Inv, Types
  <2> QED BY <1>2, <1>5, <2>1
<1>6. CASE /\ ~scope.closed /\ p > scope.last
           /\ scope' = [scope EXCEPT !.last = p]
           /\ ~(scope.updates >= maxUpdates)
           /\ doing' = [doing EXCEPT ![r] = "sending"]
           /\ lockQueue' = <<r>> \o Without(lockQueue, r)
           /\ UNCHANGED reports
  <2>1. Without(lockQueue, r) \in Seq(Reporters \cup {Host})
    BY WithoutFacts DEF Inv, Types
  <2>2. lockQueue' # <<>> /\ Head(lockQueue') = r
    BY <1>6, <2>1
  <2>3. IsHead(r)'
    BY <2>2 DEF IsHead
  <2>4. scope.updates < maxUpdates
    BY <1>1, <1>6
  <2> QED BY <1>6, <2>3, <2>4, TakenUpStep
<1> QED BY <1>3, <1>4, <1>5, <1>6 DEF Decides

(* The types after an answer, and after a decision. *)
LEMMA GivesTypes ==
  ASSUME Inv, NEW r \in Reporters, NEW p \in Nat, NEW x \in Results, Gives(r, p, x)
  PROVE  /\ lockQueue' \in Seq(Reporters \cup {Host})
         /\ doing' \in [Reporters -> {"running", "waiting", "sending", "ended"}]
         /\ reports' \in Seq([progress : Nat, result : Results])
         /\ \A q \in Reporters : doing'[q] = "ended" => doing[q] = "ended"
<1>1. lockQueue' \in Seq(Reporters \cup {Host})
  BY WithoutFacts DEF Gives, Inv, Types
<1>2. reports' \in Seq([progress : Nat, result : Results])
  BY AppendFacts, [progress |-> p, result |-> x] \in [progress : Nat, result : Results]
     DEF Gives, Inv, Types
<1> QED BY <1>1, <1>2 DEF Gives, Inv, Types

(* A decision keeps the types, and ends nobody. *)
LEMMA DecidesTypes ==
  ASSUME Inv, NEW r \in Reporters, NEW p \in Nat, Decides(r, p)
  PROVE  /\ scope' \in [last : Nat, updates : Nat, closed : BOOLEAN]
         /\ lockQueue' \in Seq(Reporters \cup {Host})
         /\ doing' \in [Reporters -> {"running", "waiting", "sending", "ended"}]
         /\ reports' \in Seq([progress : Nat, result : Results])
         /\ \A q \in Reporters : doing'[q] = "ended" => doing[q] = "ended"
<1>1. <<r>> \o Without(lockQueue, r) \in Seq(Reporters \cup {Host})
  <2>1. Without(lockQueue, r) \in Seq(Reporters \cup {Host}) /\ <<r>> \in Seq(Reporters \cup {Host})
    BY WithoutFacts DEF Inv, Types
  <2> QED BY <2>1
<1>2. "false" \in Results /\ "not_increasing" \in Results
  BY DEF Results
<1> QED BY <1>1, <1>2, GivesTypes DEF Decides, Inv, Types

(* A report is decided at once or queues behind the others. *)
LEMMA ReportProgressStep ==
  ASSUME Inv, NEW r \in Reporters, NEW p \in 1 .. MaxProgress,
         ReportProgress(r, p)
  PROVE  Inv'
<1>1. /\ p \in Nat /\ pending' = [pending EXCEPT ![r] = p] /\ pending'[r] = p
      /\ doing[r] = "running" /\ UNCHANGED <<callVars, due, bodyOutcome, hostVars, wire>>
  BY ProgressAssumption DEF ReportProgress, Running, Inv, Types
<1>2. CASE ~asked /\ Gives(r, p, "false") /\ UNCHANGED scope
  <2>0. "false" \in Results
    BY DEF Results
  <2>1. Types' /\ Course'
    BY <1>1, <1>2, <2>0, GivesTypes, ProgressAssumption
       DEF Inv, Types, Course, callVars, hostVars
  <2>2. \A q \in Reporters : doing'[q] \in {"running", "ended"}
    BY <1>2 DEF Inv, Delivery, Types, Gives
  <2>3. NobodySends'
    BY <2>2 DEF NobodySends, Sending
  <2>4. scope'.last \in Nat /\ scope'.last >= scope.last
    BY <1>2 DEF Inv, Types
  <2>5. Delivery' /\ Ordered' /\ Ending'
    BY <1>1, <1>2, <2>2, <2>3, <2>4, RefusedStep DEF Gives, callVars, hostVars
  <2> QED BY <2>1, <2>5 DEF Inv
<1>3. CASE asked /\ lockQueue = <<>> /\ Decides(r, p)
  <2>1. Types' /\ Course'
    <3>1. /\ scope' \in [last : Nat, updates : Nat, closed : BOOLEAN]
          /\ lockQueue' \in Seq(Reporters \cup {Host})
          /\ doing' \in [Reporters -> {"running", "waiting", "sending", "ended"}]
          /\ reports' \in Seq([progress : Nat, result : Results])
          /\ \A q \in Reporters : doing'[q] = "ended" => doing[q] = "ended"
      BY <1>1, <1>3, DecidesTypes
    <3>2. Types'
      BY <1>1, <3>1 DEF Inv, Types, callVars, hostVars
    <3>3. Course'
      BY <1>1, <3>1, ProgressAssumption DEF Inv, Course, hostVars
    <3> QED BY <3>2, <3>3
  <2>2. NobodySends
    BY <1>3 DEF NobodySends, Inv, Delivery, IsHead
  <2>3. Delivery' /\ Ordered' /\ Ending'
    BY <1>1, <1>3, <2>2, DecidesStep DEF callVars, hostVars
  <2> QED BY <2>1, <2>3 DEF Inv
<1>4. CASE /\ asked /\ lockQueue # <<>>
           /\ doing' = [doing EXCEPT ![r] = "waiting"]
           /\ lockQueue' = Append(lockQueue, r)
           /\ UNCHANGED <<scope, reports>>
  <2>1. /\ lockQueue' \in Seq(Reporters \cup {Host})
        /\ lockQueue' # <<>> /\ Head(lockQueue') = Head(lockQueue)
    BY <1>4 DEF Inv, Types
  <2>2. Types' /\ Course'
    BY <1>1, <1>4, <2>1, ProgressAssumption DEF Inv, Types, Course, callVars, hostVars
  <2>3. \A q \in Reporters :
          Sending(q)' => Sending(q) /\ IsHead(q)' /\ pending'[q] = pending[q]
    BY <1>1, <1>4, <2>1 DEF Sending, Inv, Types, Delivery, IsHead
  <2>4. Delivery' /\ Ordered' /\ Ending'
    BY <1>1, <1>4, <2>3, QuietStep DEF callVars, hostVars
  <2> QED BY <2>2, <2>4 DEF Inv
<1> QED BY <1>2, <1>3, <1>4 DEF ReportProgress

(* The next in the queue has the lock, so nobody sends. *)
LEMMA EntersStep ==
  ASSUME Inv, NEW r \in Reporters, Enters(r)
  PROVE  Inv'
<1>1. /\ pending[r] \in Nat /\ Decides(r, pending[r]) /\ doing[r] = "waiting" /\ IsHead(r)
      /\ UNCHANGED <<callVars, pending, due, bodyOutcome, hostVars, wire>>
  BY DEF Enters, Inv, Types
<1>2. Types' /\ Course'
  <2>1. /\ scope' \in [last : Nat, updates : Nat, closed : BOOLEAN]
        /\ lockQueue' \in Seq(Reporters \cup {Host})
        /\ doing' \in [Reporters -> {"running", "waiting", "sending", "ended"}]
        /\ reports' \in Seq([progress : Nat, result : Results])
        /\ \A q \in Reporters : doing'[q] = "ended" => doing[q] = "ended"
    BY <1>1, DecidesTypes
  <2>2. Types'
    BY <1>1, <2>1 DEF Inv, Types, callVars, hostVars
  <2>3. Course'
    BY <1>1, <2>1, ProgressAssumption DEF Inv, Course, hostVars
  <2> QED BY <2>2, <2>3
<1>3. NobodySends /\ asked
  BY <1>1 DEF NobodySends, Inv, Types, Delivery, IsHead, Sending
<1>4. Delivery' /\ Ordered' /\ Ending'
  BY <1>1, <1>3, DecidesStep DEF callVars, hostVars
<1> QED BY <1>2, <1>4 DEF Inv

(* The handler has delivered an update, dropped it or failed: the lock is  *)
(* free, and one more update is behind the scope.                          *)
LEMMA HandlerEndsStep ==
  ASSUME Inv, NEW r \in Reporters, HandlerEnds(r)
  PROVE  Inv'
<1> DEFINE p == pending[r]
           m == Message("progress", p)
<1>1. /\ Sending(r) /\ p \in Nat /\ p = scope.last /\ scope.updates < maxUpdates
      /\ scope.last \in Nat /\ scope.updates \in Nat /\ maxUpdates \in Nat /\ asked
      /\ UNCHANGED <<maxUpdates, asked, pending, due, bodyOutcome, host, verdict, answer>>
  BY DEF HandlerEnds, Inv, Types, Delivery, Sending, callVars, hostVars
<1>2. \A q \in Reporters : Sending(q) => q = r
  BY <1>1 DEF Inv, Delivery, IsHead
<1>3. PICK x \in {"true", "failed"} :
        /\ Gives(r, p, x)
        /\ wire' = wire \/ (x = "true" /\ wire' = Append(wire, m))
        /\ IF x = "true" THEN scope' = [scope EXCEPT !.updates = @ + 1]
                         ELSE scope' = scope
  <2>1. CASE /\ wire' \in {wire, Append(wire, m)}
             /\ scope' = [scope EXCEPT !.updates = @ + 1]
             /\ Gives(r, p, "true")
    <3> WITNESS "true" \in {"true", "failed"}
    <3> QED BY <2>1
  <2>2. CASE Gives(r, p, "failed") /\ UNCHANGED <<scope, wire>>
    <3> WITNESS "failed" \in {"true", "failed"}
    <3> QED BY <2>2
  <2> QED BY <2>1, <2>2 DEF HandlerEnds
<1>4. NobodySends'
  BY <1>2, <1>3 DEF NobodySends, Sending, Gives, Inv, Types
<1>5. /\ scope' \in [last : Nat, updates : Nat, closed : BOOLEAN]
      /\ scope'.last = p /\ scope'.closed = scope.closed
      /\ scope'.updates = scope.updates + (IF x = "true" THEN 1 ELSE 0)
  BY <1>1, <1>3 DEF Inv, Types
<1>6. m \in [kind : Kinds, progress : Nat] /\ m.kind = "progress" /\ m.progress = p
  BY <1>1 DEF Message, Kinds
<1>7. wire' \in Seq([kind : Kinds, progress : Nat])
  <2>1. wire \in Seq([kind : Kinds, progress : Nat])
    BY DEF Inv, Types
  <2> HIDE DEF m
  <2>2. Append(wire, m) \in Seq([kind : Kinds, progress : Nat])
    BY <1>6, <2>1, AppendFacts
  <2>3. wire' = wire \/ wire' = Append(wire, m)
    BY <1>3
  <2> QED BY <2>1, <2>2, <2>3
<1>8. x \in Results
  BY DEF Results
<1>9. Types' /\ Course'
  <2>1. /\ lockQueue' \in Seq(Reporters \cup {Host})
        /\ doing' \in [Reporters -> {"running", "waiting", "sending", "ended"}]
        /\ reports' \in Seq([progress : Nat, result : Results])
        /\ \A q \in Reporters : doing'[q] = "ended" => doing[q] = "ended"
    BY <1>1, <1>3, <1>8, GivesTypes
  <2>2. Types'
    BY <1>1, <1>5, <1>7, <2>1 DEF Inv, Types
  <2>3. Course'
    BY <1>1, <2>1, ProgressAssumption DEF Inv, Course
  <2> QED BY <2>2, <2>3
<1>10. Delivery'
  BY <1>1, <1>4, <1>5 DEF Delivery, NobodySends
<1> DEFINE a == [progress |-> p, result |-> x]
           N == Len(reports) + 1
           W == Len(wire) + 1
<1>11. /\ DOMAIN reports' = DOMAIN reports \cup {N} /\ N \notin DOMAIN reports
       /\ \A n \in DOMAIN reports : reports'[n] = reports[n] /\ n < N /\ n \in Nat
       /\ reports'[N] = a
  <2>1. reports' = Append(reports, a) /\ a \in [progress : Nat, result : Results]
    BY <1>1, <1>3, <1>8 DEF Gives
  <2> QED BY <2>1, AppendFacts DEF Inv, Types
<1>12. wire' # wire =>
         /\ DOMAIN wire' = DOMAIN wire \cup {W} /\ W \notin DOMAIN wire /\ x = "true"
         /\ \A i \in DOMAIN wire : wire'[i] = wire[i] /\ i < W /\ i \in Nat
         /\ wire'[W] = m /\ W = Len(wire')
  <2> SUFFICES ASSUME wire' # wire
               PROVE  /\ DOMAIN wire' = DOMAIN wire \cup {W} /\ W \notin DOMAIN wire /\ x = "true"
                      /\ \A i \in DOMAIN wire : wire'[i] = wire[i] /\ i < W /\ i \in Nat
                      /\ wire'[W] = m /\ W = Len(wire')
    OBVIOUS
  <2>1. wire' = Append(wire, m) /\ x = "true"
    BY <1>3
  <2>2. wire \in Seq([kind : Kinds, progress : Nat])
    BY DEF Inv, Types
  <2> HIDE DEF m
  <2> QED BY <1>6, <2>1, <2>2, AppendFacts
<1>13. Sent' = IF wire' = wire THEN Sent ELSE Sent \cup {W}
  BY <1>6, <1>12 DEF Sent, OfTool
<1>14. TakenUp' = TakenUp \cup {N} /\ N \notin TakenUp
  BY <1>11 DEF TakenUp
<1>15. /\ \A i \in Sent : i \in DOMAIN wire /\ wire[i].progress \in Nat /\ wire[i].progress < p
       /\ \A n \in TakenUp : n \in DOMAIN reports /\ reports[n].progress \in Nat /\ reports[n].progress < p
  BY <1>1, Entries DEF Inv, Ordered, Sent, TakenUp, NobodySends
<1>16. Ordered'
  <2>1. Increasing(reports, TakenUp)'
    BY <1>11, <1>14, <1>15 DEF Inv, Ordered, Increasing
  <2>2. Increasing(wire, Sent)'
    BY <1>6, <1>12, <1>13, <1>15 DEF Inv, Ordered, Increasing
  <2>3. \A i \in Sent' : wire'[i].progress <= scope'.last
    BY <1>1, <1>5, <1>6, <1>12, <1>13, <1>15
  <2>4. \A n \in TakenUp' : reports'[n].progress <= scope'.last
    BY <1>1, <1>5, <1>11, <1>14, <1>15
  <2>5. \A i \in Sent' : \E n \in DOMAIN reports' :
          reports'[n] = [progress |-> wire'[i].progress, result |-> "true"]
    <3>1. \A i \in Sent : \E n \in DOMAIN reports' :
            reports'[n] = [progress |-> wire[i].progress, result |-> "true"]
      BY <1>11 DEF Inv, Ordered
    <3>2. wire' # wire => reports'[N] = [progress |-> wire'[W].progress, result |-> "true"]
      BY <1>6, <1>11, <1>12
    <3> QED BY <1>11, <1>12, <1>13, <1>15, <3>1, <3>2
  <2>6. Cardinality(Sent') <= scope'.updates
    <3>1. IsFiniteSet(Sent) /\ Cardinality(Sent) \in Nat /\ W \notin Sent
      <4>1. Sent \subseteq 1 .. Len(wire) /\ Len(wire) \in Nat
        BY Entries DEF Inv, Sent
      <4>2. IsFiniteSet(1 .. Len(wire))
        BY <4>1, FS_Interval
      <4>3. IsFiniteSet(Sent)
        BY <4>1, <4>2, FS_Subset
      <4> QED BY <4>1, <4>3, FS_CardinalityType
    <3>2. wire' # wire => Cardinality(Sent') = Cardinality(Sent) + 1
      BY <1>13, <3>1, FS_AddElement
    <3> QED BY <1>1, <1>5, <1>12, <1>13, <3>1, <3>2 DEF Inv, Ordered
  <2> QED BY <1>4, <2>1, <2>2, <2>3, <2>4, <2>5, <2>6 DEF Ordered
<1>17. Ending'
  <2>1. \A kind \in {"stop", "log", "answer"} : Written(kind)' = Written(kind)
    BY <1>6, <1>12 DEF Written
  <2>2. ~Written("log") /\ ~Written("answer") /\ host \notin {"logging", "answering", "answered"}
    BY <1>1 DEF Inv, Ending, NobodySends
  <2>3. \A i \in After("stop") : ~OfTool(i)
    BY <1>1 DEF Inv, Ending, NobodySends
  <2>4. \A i \in After("stop")' : OfTool(i)' => i = W
    <3> SUFFICES ASSUME NEW i \in DOMAIN wire', i # W, OfTool(i)',
                        NEW j \in 1 .. (i - 1), wire'[j].kind = "stop"
                 PROVE  FALSE
      BY DEF After
    <3>1. i \in DOMAIN wire /\ j \in DOMAIN wire /\ wire'[i] = wire[i] /\ wire'[j] = wire[j]
      BY <1>12, Entries DEF Inv
    <3> QED BY <2>3, <3>1 DEF After, OfTool
  <2>5. After("log")' = {}
    <3> SUFFICES ASSUME NEW i \in DOMAIN wire', NEW j \in 1 .. (i - 1), wire'[j].kind = "log"
                 PROVE  FALSE
      BY DEF After
    <3>1. j \in DOMAIN wire'
      BY <1>7, ElementsOf
    <3> QED BY <2>1, <2>2, <3>1 DEF Written
  <2>6. \A i \in DOMAIN wire' : wire'[i].kind # "answer"
    BY <2>1, <2>2 DEF Written
  <2>7. (host # "calling" \/ Written("stop"))' => scope'.closed
    BY <1>1, <1>5, <2>1 DEF Inv, Ending
  <2> QED BY <1>1, <1>4, <2>1, <2>2, <2>4, <2>5, <2>6, <2>7 DEF Ending
<1> QED BY <1>9, <1>10, <1>16, <1>17 DEF Inv

(* A cancelled task gives up the lock or its place; whoever sends keeps    *)
(* its own.                                                                *)
LEMMA CancelledStep ==
  ASSUME Inv, NEW r \in Reporters, Cancelled(r)
  PROVE  Inv'
<1>1. /\ lockQueue' = Without(lockQueue, r)
      /\ \E s \in {"running", "ended"} : doing' = [doing EXCEPT ![r] = s]
      /\ UNCHANGED <<maxUpdates, asked, scope, pending, host, verdict, answer, wire, reports>>
  BY DEF Cancelled, callVars, hostVars
<1>2. lockQueue' \in Seq(Reporters \cup {Host})
  BY <1>1, WithoutFacts DEF Inv, Types
<1>3. Types'
  BY <1>1, <1>2 DEF Inv, Types
<1>4. Course'
  BY ProgressAssumption DEF Cancelled, callVars, hostVars, Inv, Types, Course
<1>5. \A q \in Reporters :
        Sending(q)' => Sending(q) /\ IsHead(q)' /\ pending'[q] = pending[q]
  <2> SUFFICES ASSUME NEW q \in Reporters, Sending(q)'
               PROVE  Sending(q) /\ IsHead(q)' /\ pending'[q] = pending[q]
    OBVIOUS
  <2>1. q # r /\ Sending(q)
    BY <1>1 DEF Sending, Inv, Types
  <2>2. lockQueue # <<>> /\ Head(lockQueue) # r /\ Head(lockQueue) = q
    BY <2>1 DEF Inv, Delivery, IsHead
  <2>3. lockQueue' # <<>> /\ Head(lockQueue') = q
    BY <1>1, <2>2, WithoutFacts DEF Inv, Types
  <2> QED BY <1>1, <2>1, <2>3 DEF IsHead
<1>6. ~asked => \A q \in Reporters : doing'[q] \in {"running", "ended"}
  BY <1>1 DEF Inv, Delivery, Types
<1>7. Delivery' /\ Ordered' /\ Ending'
  BY <1>1, <1>5, <1>6, QuietStep
<1> QED BY <1>3, <1>4, <1>7 DEF Inv

(* The body of the tool ends outside report_progress. *)
LEMMA BodyEndsStep ==
  ASSUME Inv, BodyEnds
  PROVE  Inv'
<1>1. /\ doing' = [doing EXCEPT ![Body] = "ended"] /\ doing[Body] = "running"
      /\ UNCHANGED <<maxUpdates, asked, scope, lockQueue, pending, host, verdict, answer,
                     wire, reports>>
  BY DEF BodyEnds, Running, callVars, hostVars
<1>2. Types'
  BY <1>1 DEF Inv, Types
<1>3. bodyOutcome' \in {"success", "failed", "progress_failed"}
  BY DEF BodyEnds
<1>4. Course'
  BY <1>1, <1>3, ProgressAssumption DEF Inv, Types, Course
<1>5. \A q \in Reporters : Sending(q)' => Sending(q) /\ IsHead(q)' /\ pending'[q] = pending[q]
  BY <1>1 DEF Sending, Inv, Types, Delivery, IsHead
<1>6. ~asked => \A q \in Reporters : doing'[q] \in {"running", "ended"}
  BY <1>1 DEF Inv, Delivery, Types
<1>7. Delivery' /\ Ordered' /\ Ending'
  BY <1>1, <1>5, <1>6, QuietStep
<1> QED BY <1>2, <1>4, <1>7 DEF Inv

(* The host leaves the queue of the lock, as its owner or cancelled. *)
LEMMA HostLeavesStep ==
  ASSUME Inv, Closes \/ HostCancelled
  PROVE  Inv'
<1>1. UNCHANGED <<maxUpdates, asked, scope, doing, pending, bodyOutcome, verdict, wire, reports>>
  BY DEF Closes, HostCancelled, callVars
<1>2. host \in {"closing", "logging", "answering"} /\ scope.closed
  BY DEF Closes, HostCancelled, Inv, Ending
<1>3. ~asked => \A q \in Reporters : doing'[q] \in {"running", "ended"}
  BY <1>1 DEF Inv, Delivery
<1>4. CASE Closes
  <2>1. NobodySends /\ host = "closing" /\ IsHead(Host)
    BY <1>4, ProgressAssumption DEF Closes, NobodySends, Inv, Delivery, IsHead
  <2>2. host' \in {"logging", "answering", "silent"}
    BY <1>4, <2>1 DEF Closes, AfterClose, Inv, Course
  <2>3. lockQueue' \in Seq(Reporters \cup {Host})
    BY <1>4, <2>1 DEF Closes, IsHead, Inv, Types
  <2>4. Types' /\ Course'
    BY <1>1, <2>2, <2>3 DEF Inv, Types, Course, Hosts
  <2>5. \A q \in Reporters : ~Sending(q)'
    BY <1>1, <2>1 DEF NobodySends, Sending
  <2>6. NobodySends'
    BY <2>5 DEF NobodySends
  <2>7. Delivery' /\ Ordered' /\ Ending'
    BY <1>1, <1>2, <1>3, <2>1, <2>2, <2>5, <2>6, QuietStep
  <2> QED BY <2>4, <2>7 DEF Inv
<1>5. CASE HostCancelled
  <2>1. host' = "silent" /\ lockQueue' = Without(lockQueue, Host)
    BY <1>5 DEF HostCancelled
  <2>2. lockQueue' \in Seq(Reporters \cup {Host})
    BY <2>1, WithoutFacts DEF Inv, Types
  <2>3. Types' /\ Course'
    BY <1>1, <2>1, <2>2 DEF Inv, Types, Course, Hosts
  <2>4. \A q \in Reporters : Sending(q)' => Sending(q) /\ IsHead(q)' /\ pending'[q] = pending[q]
    <3> SUFFICES ASSUME NEW q \in Reporters, Sending(q)
                 PROVE  IsHead(q)'
      BY <1>1 DEF Sending
    <3>1. lockQueue # <<>> /\ Head(lockQueue) = q /\ q # Host
      BY ProgressAssumption DEF Inv, Delivery, IsHead
    <3>2. lockQueue' # <<>> /\ Head(lockQueue') = q
      BY <2>1, <3>1, WithoutFacts DEF Inv, Types
    <3> QED BY <3>2 DEF IsHead
  <2>5. Delivery' /\ Ordered' /\ Ending'
    BY <1>1, <1>2, <1>3, <2>1, <2>4, QuietStep
  <2> QED BY <2>3, <2>5 DEF Inv
<1> QED BY <1>4, <1>5

(* A line of the host is written: the mark of a stop, a log event or the   *)
(* answer.                                                                 *)
LEMMA WrittenStep ==
  ASSUME Inv, NEW kind \in {"stop", "log", "answer"},
         wire' = Append(wire, Message(kind, 0)),
         UNCHANGED <<maxUpdates, asked, doing, pending, reports>>,
         scope' = IF kind = "stop" THEN Stopped(scope) ELSE scope,
         \A q \in Reporters : Sending(q) => IsHead(q)',
         host' # "calling", host' \in Hosts, kind # "stop" => host # "calling",
         kind = "stop" => host \in {"calling", "joining"} /\ host' \in {"joining", "closing"},
         kind = "log" => host = "logging" /\ host' = "answering",
         kind = "answer" => host = "answering" /\ host' = "answered"
  PROVE  Delivery' /\ Ordered' /\ Ending' /\ wire' \in Seq([kind : Kinds, progress : Nat])
<1> DEFINE W == Len(wire) + 1
<1>1. /\ wire' \in Seq([kind : Kinds, progress : Nat])
      /\ DOMAIN wire' = DOMAIN wire \cup {W} /\ DOMAIN wire = 1 .. Len(wire)
      /\ Len(wire) \in Nat /\ Len(wire') = W
      /\ \A i \in DOMAIN wire : wire'[i] = wire[i]
      /\ wire'[W] = Message(kind, 0)
  <2>1. Message(kind, 0) \in [kind : Kinds, progress : Nat]
    BY DEF Message, Kinds
  <2>2. wire \in Seq([kind : Kinds, progress : Nat])
    BY DEF Inv, Types
  <2> QED BY <2>1, <2>2, AppendFacts
<1>2. wire'[W].kind = kind
  BY <1>1 DEF Message
<1>3. /\ scope'.last = scope.last /\ scope'.updates = scope.updates
      /\ scope'.closed = (scope.closed \/ kind = "stop")
  BY DEF Stopped, Inv, Types
<1>4. \A q \in Reporters : Sending(q)' = Sending(q)
  BY DEF Sending
<1>5. NobodySends' = NobodySends
  BY <1>4 DEF NobodySends
<1>6. Delivery'
  BY <1>3, <1>4 DEF Inv, Delivery
<1>7. \A i \in DOMAIN wire' : OfTool(i)' <=> i \in Sent
  BY <1>1, <1>2 DEF Sent, OfTool
<1>8. Sent' = Sent /\ TakenUp' = TakenUp /\ \A i \in Sent : wire'[i] = wire[i]
  BY <1>1, <1>7 DEF Sent, TakenUp, OfTool
<1>9. Ordered'
  BY <1>3, <1>5, <1>8 DEF Inv, Ordered, Increasing
<1>10. \A k : Written(k)' <=> Written(k) \/ k = kind
  BY <1>1, <1>2 DEF Written
<1>11. \A k : \A i \in DOMAIN wire : i \in After(k)' <=> i \in After(k)
  BY <1>1 DEF After
<1>12. Ending'
  <2>1. (host # "calling" \/ Written("stop"))' => scope'.closed
    BY <1>3, <1>10 DEF Inv, Ending
  <2>2. \A i \in DOMAIN wire', k \in {"stop", "log"} :
          i \in After(k)' /\ OfTool(i)' => i \in After(k) /\ OfTool(i)
    BY <1>1, <1>2, <1>7, <1>11 DEF Sent, OfTool
  <2>3. \A k : After(k)' \subseteq DOMAIN wire'
    BY DEF After
  <2>4. /\ \A i, j \in After("stop")' : OfTool(i)' /\ OfTool(j)' => i = j
        /\ \A i \in After("stop")' : OfTool(i)' => NobodySends'
        /\ \A i \in After("log")' : ~OfTool(i)'
    BY <1>5, <2>2, <2>3 DEF Inv, Ending
  <2>5. host' \in {"logging", "answering", "answered"} \/ Written("log")' => NobodySends'
    BY <1>5, <1>10 DEF Inv, Ending
  <2>6. Written("log")' => host' \in {"answering", "answered", "silent"}
    BY <1>10 DEF Inv, Ending
  <2>7. ~Written("answer")
    BY DEF Inv, Ending
  <2>8. Written("answer")' => host' = "answered"
    BY <1>10, <2>7
  <2>9. \A i \in DOMAIN wire' : wire'[i].kind = "answer" => i = Len(wire')
    BY <1>1, <2>7 DEF Written
  <2> QED BY <2>1, <2>4, <2>5, <2>6, <2>8, <2>9 DEF Ending
<1> QED BY <1>1, <1>6, <1>9, <1>12

(* The three places that stop the scope. *)
LEMMA StopsStep ==
  ASSUME Inv, Resolves \/ CancelsExecution \/ Joins
  PROVE  Inv'
<1>1. /\ wire' = Append(wire, Message("stop", 0)) /\ scope' = Stopped(scope)
      /\ UNCHANGED <<maxUpdates, asked, doing, pending, bodyOutcome, reports, answer>>
      /\ host \in {"calling", "joining"} /\ host' \in {"joining", "closing"}
  BY DEF Resolves, CancelsExecution, Joins, StopScope, callVars
<1>2. lockQueue' = lockQueue \/ lockQueue' = Append(lockQueue, Host)
  BY DEF Resolves, CancelsExecution, Joins
<1>3. /\ lockQueue' \in Seq(Reporters \cup {Host})
      /\ lockQueue # <<>> => lockQueue' # <<>> /\ Head(lockQueue') = Head(lockQueue)
  <2>1. lockQueue \in Seq(Reporters \cup {Host}) /\ Host \in Reporters \cup {Host}
    BY DEF Inv, Types
  <2>2. /\ Append(lockQueue, Host) \in Seq(Reporters \cup {Host})
        /\ Append(lockQueue, Host) # <<>>
        /\ lockQueue # <<>> => Head(Append(lockQueue, Host)) = Head(lockQueue)
    BY <2>1
  <2> QED BY <1>2, <2>1, <2>2
<1>4. \A q \in Reporters : Sending(q) => IsHead(q)'
  BY <1>3 DEF Inv, Delivery, IsHead
<1>5. host' \in Hosts /\ host' # "calling"
  BY <1>1 DEF Hosts
<1>6. /\ Delivery' /\ Ordered' /\ Ending' /\ wire' \in Seq([kind : Kinds, progress : Nat])
  BY <1>1, <1>4, <1>5, WrittenStep
<1>7. Types'
  BY <1>1, <1>3, <1>5, <1>6 DEF Inv, Types, Stopped
<1>8. Course'
  BY <1>1 DEF Inv, Course, Resolves, CancelsExecution, Joins
<1> QED BY <1>6, <1>7, <1>8 DEF Inv

(* The host logs and answers after it had the lock of a closed scope. *)
LEMMA AnswersStep ==
  ASSUME Inv, Logs \/ Answers
  PROVE  Inv'
<1>1. /\ UNCHANGED <<maxUpdates, asked, scope, lockQueue, doing, pending, bodyOutcome, reports,
                     verdict>>
      /\ \/ host = "logging" /\ host' = "answering"
         \/ host = "answering" /\ host' = "answered"
  BY DEF Logs, Answers, callVars, reportVars
<1>2. host' \in Hosts /\ Course'
  BY <1>1 DEF Hosts, Inv, Course
<1>3. \A q \in Reporters : ~Sending(q)
  BY <1>1 DEF Inv, Ending, NobodySends
<1>4. \A q \in Reporters : ~Sending(q)'
  BY <1>1, <1>3 DEF Sending
<1>5. CASE wire' = wire
  <2>1. host' = "answering" /\ host = "logging"
    <3>1. CASE Logs
      BY <3>1, <1>1 DEF Logs
    <3>2. CASE Answers
      BY <3>2, <1>5, AppendFacts DEF Answers, Inv, Types, Message, Kinds
    <3> QED BY <3>1, <3>2
  <2>2. NobodySends' /\ scope.closed
    BY <1>1, <1>4 DEF NobodySends, Inv, Ending
  <2>3. ~asked => \A q \in Reporters : doing'[q] \in {"running", "ended"}
    BY <1>1 DEF Inv, Delivery
  <2>4. Delivery' /\ Ordered' /\ Ending'
    BY <1>1, <1>4, <1>5, <2>1, <2>2, <2>3, QuietStep
  <2>5. Types'
    BY <1>1, <1>2, <1>5 DEF Inv, Types
  <2> QED BY <1>2, <2>4, <2>5 DEF Inv
<1>6. ASSUME NEW kind \in {"log", "answer"}, wire' = Append(wire, Message(kind, 0)),
             kind = "log" <=> host = "logging"
      PROVE  Inv'
  <2>1. Delivery' /\ Ordered' /\ Ending' /\ wire' \in Seq([kind : Kinds, progress : Nat])
    BY <1>1, <1>2, <1>3, <1>6, WrittenStep
  <2>2. Types'
    BY <1>1, <1>2, <2>1 DEF Inv, Types
  <2> QED BY <1>2, <2>1, <2>2 DEF Inv
<1>7. CASE Logs /\ wire' # wire
  BY <1>6, <1>7 DEF Logs
<1>8. CASE Answers
  BY <1>6, <1>8 DEF Answers
<1> QED BY <1>5, <1>7, <1>8

(* Every step keeps the invariant. *)
LEMMA StepInv == Inv /\ [ProgressNext]_progressVars => Inv'
<1> SUFFICES ASSUME Inv, [ProgressNext]_progressVars PROVE Inv'
  OBVIOUS
<1>1. CASE UNCHANGED progressVars
  BY <1>1 DEF progressVars, callVars, reportVars, hostVars, Inv, Types, Course, Delivery, Ordered,
              Ending, Increasing, Sent, TakenUp, OfTool, After, Written, NobodySends,
              Sending, IsHead
<1>2. ASSUME NEW r \in Reporters, NEW p \in 1 .. MaxProgress, ReportProgress(r, p)
      PROVE  Inv'
  BY <1>2, ReportProgressStep
<1>3. ASSUME NEW r \in Reporters, Enters(r) \/ HandlerEnds(r) \/ Cancelled(r)
      PROVE  Inv'
  BY <1>3, EntersStep, HandlerEndsStep, CancelledStep
<1> QED
  BY <1>1, <1>2, <1>3, BodyEndsStep, StopsStep, HostLeavesStep, AnswersStep DEF ProgressNext

(***************************************************************************)
(* What the tool's tasks report: the invariant in every behaviour.         *)
(***************************************************************************)
THEOREM DeliveryIsOrderly == ProgressSpec => []Inv
<1>1. ProgressInit => Inv
  BY InitInv
<1>2. Inv /\ [ProgressNext]_progressVars => Inv'
  BY StepInv
<1> QED BY <1>1, <1>2, PTL DEF ProgressSpec

(***************************************************************************)
(* ProgressInOrder for every set of reporters, every cap and every number  *)
(* of reports: whatever reports, times out, is cancelled or fails, what    *)
(* reaches the client increases, keeps to the cap, was answered True, and  *)
(* does not follow the stop (but for the update in delivery), the log      *)
(* event or the answer.                                                    *)
(***************************************************************************)
THEOREM ProgressStaysInOrder == ProgressSpec => []ProgressInOrder
<1>1. Inv => ProgressInOrder
  <2> SUFFICES ASSUME Inv PROVE ProgressInOrder
    OBVIOUS
  <2>1. /\ IsFiniteSet(1 .. Len(wire)) /\ Sent \subseteq 1 .. Len(wire)
    BY Entries, FS_Interval DEF Inv, Sent
  <2>2. Cardinality(Sent) \in Nat
    BY <2>1, FS_Subset, FS_CardinalityType
  <2>3. Cardinality(Sent) <= maxUpdates
    BY <2>2 DEF Inv, Types, Delivery, Ordered
  <2> QED BY <2>3 DEF Inv, Ordered, Ending, ProgressInOrder
<1> QED BY <1>1, DeliveryIsOrderly, PTL
=============================================================================
