---------------------------- MODULE LegacyProofs ----------------------------
(***************************************************************************)
(* Proofs about the archived components: the message bus, the context      *)
(* manager, the gateway and the engine of thoughts, each a specification   *)
(* of its own.                                                             *)
(***************************************************************************)
EXTENDS LLMGateway, MessageBus, AgentContext, AlgorithmOfThoughts,
        FiniteSetTheorems, WellFoundedInduction, TLAPS

-----------------------------------------------------------------------------
(***************************************************************************)
(* Lists of numbers.                                                       *)
(***************************************************************************)
Below(seq, n) == \A i \in DOMAIN seq : seq[i] < n

LEMMA AppendOrdered ==
  ASSUME NEW s \in Seq(Nat), NEW n \in Nat, NEW m \in Nat, n < m
  PROVE  /\ Append(s, n) \in Seq(Nat)
         /\ Increasing(s) /\ Below(s, n) => Increasing(Append(s, n))
         /\ Below(s, m) => Below(Append(s, n), m)
         /\ Below(s, n) => Below(Append(s, n), m)
BY DEF Increasing, Below

LEMMA BelowMore ==
  ASSUME NEW s \in Seq(Nat), NEW n \in Nat, NEW m \in Nat, n <= m, Below(s, n)
  PROVE  Below(s, m)
BY DEF Below

LEMMA JoinFacts ==
  ASSUME NEW T, NEW a \in Seq(T), NEW b \in Seq(T)
  PROVE  /\ a \o b \in Seq(T) /\ Len(a \o b) = Len(a) + Len(b)
         /\ \A i \in 1..Len(a) : (a \o b)[i] = a[i]
         /\ \A i \in 1..Len(b) : (a \o b)[Len(a) + i] = b[i]
OBVIOUS

LEMMA EndOfFacts ==
  ASSUME NEW T, NEW s \in Seq(T), NEW k \in Nat, k <= Len(s)
  PROVE  /\ SubSeq(s, k + 1, Len(s)) \in Seq(T)
         /\ Len(SubSeq(s, k + 1, Len(s))) = Len(s) - k
         /\ \A i \in 1..(Len(s) - k) :
              i + k \in 1..Len(s) /\ SubSeq(s, k + 1, Len(s))[i] = s[i + k]
<1>1. Len(s) \in Nat OBVIOUS
<1>2. SubSeq(s, k + 1, Len(s)) \in Seq(T) OBVIOUS
<1>3. Len(SubSeq(s, k + 1, Len(s))) = Len(s) - k BY <1>1
<1>4. ASSUME NEW i \in 1..(Len(s) - k)
      PROVE  i + k \in 1..Len(s) /\ SubSeq(s, k + 1, Len(s))[i] = s[i + k]
  <2>1. i \in 1..Len(SubSeq(s, k + 1, Len(s))) BY <1>3, <1>4
  <2>2. SubSeq(s, k + 1, Len(s))[i] = s[(k + 1) + i - 1] BY <1>1, <1>4, <2>1
  <2>3. (k + 1) + i - 1 = i + k /\ i + k \in 1..Len(s) BY <1>1, <1>4
  <2> QED BY <2>2, <2>3
<1> QED BY <1>2, <1>3, <1>4

LEMMA LastOfFacts ==
  ASSUME NEW T, NEW s \in Seq(T), NEW n \in Nat
  PROVE  /\ LastOf(s, n) \in Seq(T) /\ Len(LastOf(s, n)) <= n
         /\ \E k \in Nat : /\ Len(LastOf(s, n)) = Len(s) - k
                           /\ \A i \in 1..Len(LastOf(s, n)) :
                                i + k \in 1..Len(s) /\ LastOf(s, n)[i] = s[i + k]
<1> DEFINE k == IF Len(s) > n THEN Len(s) - n ELSE 0
<1>1. k \in Nat /\ Len(s) \in Nat /\ k <= Len(s) /\ Len(s) - k <= n OBVIOUS
<1>2. LastOf(s, n) = SubSeq(s, k + 1, Len(s)) BY DEF LastOf
<1> HIDE DEF k
<1>3. /\ SubSeq(s, k + 1, Len(s)) \in Seq(T)
      /\ Len(SubSeq(s, k + 1, Len(s))) = Len(s) - k
      /\ \A i \in 1..(Len(s) - k) :
           i + k \in 1..Len(s) /\ SubSeq(s, k + 1, Len(s))[i] = s[i + k]
  BY <1>1, EndOfFacts
<1>4. Len(LastOf(s, n)) = Len(s) - k /\ LastOf(s, n) \in Seq(T) BY <1>2, <1>3
<1>5. \A i \in 1..Len(LastOf(s, n)) : i + k \in 1..Len(s) /\ LastOf(s, n)[i] = s[i + k]
  BY <1>2, <1>3, <1>4
<1> QED BY <1>1, <1>4, <1>5

LEMMA LastOfOrdered ==
  ASSUME NEW s \in Seq(Nat), NEW n \in Nat, NEW m \in Nat
  PROVE  /\ LastOf(s, n) \in Seq(Nat) /\ Len(LastOf(s, n)) <= n
         /\ Increasing(s) => Increasing(LastOf(s, n))
         /\ Below(s, m) => Below(LastOf(s, n), m)
<1> DEFINE l == LastOf(s, n)
<1>0. l \in Seq(Nat) /\ Len(l) <= n BY LastOfFacts
<1>1. PICK k \in Nat : \A i \in 1..Len(l) : i + k \in 1..Len(s) /\ l[i] = s[i + k]
  BY LastOfFacts
<1> HIDE DEF l
<1>2. Increasing(s) => Increasing(l) BY <1>0, <1>1 DEF Increasing
<1>3. Below(s, m) => Below(l, m) BY <1>0, <1>1 DEF Below
<1> QED BY <1>0, <1>2, <1>3 DEF l

LEMMA JoinAppend ==
  ASSUME NEW r \in Seq(Nat), NEW q \in Seq(Nat), NEW n \in Nat
  PROVE  r \o Append(q, n) = Append(r \o q, n)
OBVIOUS

LEMMA JoinMove ==
  ASSUME NEW r \in Seq(Nat), NEW q \in Seq(Nat), q # <<>>
  PROVE  /\ Append(r, Head(q)) \o Tail(q) = r \o q
         /\ Tail(q) \in Seq(Nat) /\ Append(r, Head(q)) \in Seq(Nat)
<1> DEFINE a == Append(r, Head(q))
           b == Tail(q)
<1>1. /\ a \in Seq(Nat) /\ Len(a) = Len(r) + 1 /\ a[Len(r) + 1] = q[1]
      /\ \A i \in 1..Len(r) : a[i] = r[i]
  OBVIOUS
<1>2. b \in Seq(Nat) /\ Len(b) = Len(q) - 1 /\ \A i \in 1..(Len(q) - 1) : b[i] = q[i + 1]
  OBVIOUS
<1>3. Len(r) \in Nat /\ Len(q) \in Nat /\ Len(q) >= 1 OBVIOUS
<1> HIDE DEF a, b
<1>4. /\ a \o b \in Seq(Nat) /\ Len(a \o b) = Len(a) + Len(b)
      /\ \A i \in 1..Len(a) : (a \o b)[i] = a[i]
      /\ \A i \in 1..Len(b) : (a \o b)[Len(a) + i] = b[i]
  <2>1. a \in Seq(Nat) /\ b \in Seq(Nat) BY <1>1, <1>2
  <2> QED BY <2>1, JoinFacts
<1>5. /\ r \o q \in Seq(Nat) /\ Len(r \o q) = Len(r) + Len(q)
      /\ \A i \in 1..Len(r) : (r \o q)[i] = r[i]
      /\ \A i \in 1..Len(q) : (r \o q)[Len(r) + i] = q[i]
  BY JoinFacts
<1>6. Len(a \o b) = Len(r \o q) BY <1>1, <1>2, <1>3, <1>4, <1>5
<1> DEFINE u == a \o b
           v == r \o q
<1>7. ASSUME NEW i \in 1..Len(v) PROVE u[i] = v[i]
  <2>1. i \in Nat /\ i >= 1 /\ i <= Len(r) + Len(q) BY <1>3, <1>5, <1>7
  <2>2. CASE i <= Len(r)
    <3>1. i \in 1..Len(a) /\ i \in 1..Len(r) BY <1>1, <1>3, <2>1, <2>2
    <3> QED BY <1>1, <1>4, <1>5, <3>1
  <2>3. CASE i = Len(r) + 1
    <3>1. i \in 1..Len(a) /\ 1 \in 1..Len(q) BY <1>1, <1>3, <2>1, <2>3
    <3>2. (r \o q)[Len(r) + 1] = q[1] BY <1>5, <3>1
    <3>3. (a \o b)[i] = a[i] BY <1>4, <3>1
    <3> QED BY <1>1, <2>3, <3>2, <3>3
  <2>4. CASE i > Len(r) + 1
    <3> DEFINE k == i - (Len(r) + 1)
    <3>1. k \in 1..Len(b) /\ k \in 1..(Len(q) - 1) /\ k + 1 \in 1..Len(q)
          /\ Len(a) + k = i /\ Len(r) + (k + 1) = i
      BY <1>1, <1>2, <1>3, <2>1, <2>4
    <3> HIDE DEF k
    <3>2. (a \o b)[Len(a) + k] = b[k] BY <1>4, <3>1
    <3>3. (r \o q)[Len(r) + (k + 1)] = q[k + 1] BY <1>5, <3>1
    <3>4. b[k] = q[k + 1] BY <1>2, <3>1
    <3> QED BY <3>1, <3>2, <3>3, <3>4
  <2>5. i <= Len(r) \/ i = Len(r) + 1 \/ i > Len(r) + 1 BY <1>3, <2>1
  <2> HIDE DEF u, v
  <2> QED BY <2>2, <2>3, <2>4, <2>5
<1>8. u \in Seq(Nat) /\ v \in Seq(Nat) /\ Len(u) = Len(v) BY <1>4, <1>5, <1>6
<1> HIDE DEF u, v
<1>9. u = v
  <2>1. u = [i \in 1..Len(u) |-> u[i]] /\ v = [i \in 1..Len(v) |-> v[i]] BY <1>8
  <2>2. [i \in 1..Len(u) |-> u[i]] = [i \in 1..Len(v) |-> v[i]] BY <1>7, <1>8
  <2> QED BY <2>1, <2>2
<1> QED BY <1>1, <1>2, <1>9 DEF a, b, u, v

LEMMA JoinCut ==
  ASSUME NEW r \in Seq(Nat), NEW q \in Seq(Nat)
  PROVE  /\ Increasing(r \o q) => Increasing(r \o <<>>)
         /\ \A n : Below(r \o q, n) => Below(r \o <<>>, n)
<1>1. r \o <<>> = r /\ Len(r \o q) = Len(r) + Len(q)
      /\ \A i \in 1..Len(r) : (r \o q)[i] = r[i]
  OBVIOUS
<1>2. Increasing(r \o q) => Increasing(r) BY <1>1 DEF Increasing
<1>3. \A n : Below(r \o q, n) => Below(r, n) BY <1>1 DEF Below
<1> QED BY <1>1, <1>2, <1>3

(* A task leaves the queue: the others keep their order, and their head.   *)
Leaves(q, w, t) ==
  /\ w \in Seq(Tasks)
  /\ \A i, j \in DOMAIN w : i < j =>
       \E k, l \in DOMAIN q : k < l /\ i <= k /\ q[k] = w[i] /\ q[l] = w[j]
  /\ \A i \in DOMAIN w : w[i] # t /\ \E k \in DOMAIN q : q[k] = w[i]
  /\ \A k \in DOMAIN q : q[k] # t => \E i \in DOMAIN w : w[i] = q[k]
  /\ q # <<>> /\ q[1] # t => w # <<>> /\ w[1] = q[1]

-----------------------------------------------------------------------------
(***************************************************************************)
(* The message bus.                                                        *)
(***************************************************************************)
Kinds == {"idle", "publish", "subscribe", "unsubscribe", "send", "receive",
          "receive_nowait", "clear_queue", "clear_history", "publishing", "frozen",
          "polling"}
Operation == [kind : Kinds, at : Topics \cup {Nobody},
              who : Handlers \cup Agents \cup {Nobody}, msg : Nat, rest : SUBSET Handlers]

BusTypes ==
  /\ lockQueue \in Seq(Tasks)
  /\ op \in [Tasks -> Operation]
  /\ subscribers \in [Topics -> SUBSET Handlers]
  /\ queues \in [Agents -> Seq(Nat)] /\ received \in [Agents -> Seq(Nat)]
  /\ handled \in [Handlers -> Seq(Nat)] /\ history \in Seq(Nat)
  /\ created \in Nat
  /\ \A t \in Tasks :
       /\ op[t].kind = "publish" => op[t].at \in Topics
       /\ op[t].kind \in {"subscribe", "unsubscribe"} =>
            op[t].at \in Topics /\ op[t].who \in Handlers
       /\ op[t].kind \in {"send", "receive", "receive_nowait", "polling", "clear_queue"} =>
            op[t].who \in Agents

(* The queue for the lock holds the tasks that are in an operation, in the *)
(* order of their calls; a task that is in its handlers stays its head.    *)
Resting == {"idle", "polling"}
Numbered == {"publish", "publishing", "send"}

QueuedOnce ==
  /\ \A i, j \in DOMAIN lockQueue : i < j /\ lockQueue[i] = lockQueue[j] =>
       i = 1 /\ op[lockQueue[i]].kind = "frozen"
  /\ \A t \in Tasks : op[t].kind \notin Resting => \E i \in DOMAIN lockQueue : lockQueue[i] = t
  /\ \A i \in DOMAIN lockQueue : op[lockQueue[i]].kind \notin Resting

HolderFirst ==
  \A t \in Tasks : op[t].kind \in {"publishing", "frozen"} =>
    lockQueue # <<>> /\ lockQueue[1] = t

InCallOrder ==
  \A i, j \in DOMAIN lockQueue :
    /\ i < j
    /\ op[lockQueue[i]].kind \in Numbered
    /\ op[lockQueue[j]].kind \in Numbered
    => op[lockQueue[i]].msg < op[lockQueue[j]].msg

(* What was handed out is older than what still has to be.                 *)
Delivered(gave, got, waiting, past, n) ==
  /\ \A h \in Handlers : Below(gave[h], n)
  /\ \A a \in Agents : Below(got[a] \o waiting[a], n)
  /\ Below(past, n)

OlderOut ==
  /\ Delivered(handled, received, queues, history, created + 1)
  /\ \A t \in Tasks :
       /\ op[t].msg <= created
       /\ op[t].kind \in {"publish", "send"} =>
            Delivered(handled, received, queues, history, op[t].msg)
       /\ op[t].kind = "publishing" =>
            \A h \in op[t].rest : Below(handled[h], op[t].msg)

BusInv == BusTypes /\ QueuedOnce /\ HolderFirst /\ InCallOrder /\ OlderOut /\ MessagesInOrder

-----------------------------------------------------------------------------
(* Without takes out one place of the queue.                               *)
LEMMA WithoutFacts ==
  ASSUME NEW q \in Seq(Tasks), NEW t, NEW n \in DOMAIN q, q[n] = t
  PROVE  \E k \in DOMAIN q :
           /\ q[k] = t /\ Without(q, t) \in Seq(Tasks)
           /\ Len(Without(q, t)) = Len(q) - 1
           /\ \A i \in 1..(Len(q) - 1) :
                Without(q, t)[i] = IF i < k THEN q[i] ELSE q[i + 1]
<1> DEFINE k == CHOOSE i \in DOMAIN q : q[i] = t
           a == SubSeq(q, 1, k - 1)
           b == SubSeq(q, k + 1, Len(q))
<1>1. k \in DOMAIN q /\ q[k] = t OBVIOUS
<1>2. Without(q, t) = a \o b BY DEF Without
<1> HIDE DEF k
<1>3. k \in 1..Len(q) /\ k \in Nat /\ Len(q) \in Nat BY <1>1
<1>4. a \in Seq(Tasks) /\ Len(a) = k - 1 /\ \A i \in 1..(k - 1) : a[i] = q[i]
  BY <1>3
<1>5. b \in Seq(Tasks) /\ Len(b) = Len(q) - k
      /\ \A i \in 1..(Len(q) - k) : b[i] = q[i + k]
  BY <1>3, EndOfFacts
<1> HIDE DEF a, b
<1>6. a \o b \in Seq(Tasks) /\ Len(a \o b) = Len(q) - 1
  <2>1. a \o b \in Seq(Tasks) /\ Len(a \o b) = Len(a) + Len(b)
    <3>1. a \in Seq(Tasks) /\ b \in Seq(Tasks) BY <1>4, <1>5
    <3> QED BY <3>1, JoinFacts
  <2> QED BY <1>3, <1>4, <1>5, <2>1
<1>7. ASSUME NEW i \in 1..(Len(q) - 1)
      PROVE  (a \o b)[i] = IF i < k THEN q[i] ELSE q[i + 1]
  <2>1. CASE i < k
    <3>1. i \in 1..Len(a) /\ a[i] = q[i] BY <1>3, <1>4, <2>1
    <3>2. (a \o b)[i] = a[i] BY <1>4, <1>5, <3>1
    <3> QED BY <3>1, <3>2, <2>1
  <2>2. CASE ~(i < k)
    <3>1. i - Len(a) \in 1..Len(b) /\ i \notin 1..Len(a) /\ (i - Len(a)) + k = i + 1
      BY <1>3, <1>4, <1>5, <2>2
    <3>2. (a \o b)[i] = b[i - Len(a)] BY <1>3, <1>4, <1>5, <3>1
    <3>3. b[i - Len(a)] = q[(i - Len(a)) + k] BY <1>5, <3>1
    <3> QED BY <3>1, <3>2, <3>3, <2>2
  <2> QED BY <2>1, <2>2
<1> QED BY <1>1, <1>2, <1>3, <1>6, <1>7

LEMMA WithoutLeaves ==
  ASSUME NEW q \in Seq(Tasks), NEW t,
         \A i, j \in DOMAIN q : i < j => ~(q[i] = t /\ q[j] = t)
  PROVE  Leaves(q, Without(q, t), t)
<1>1. CASE \A i \in DOMAIN q : q[i] # t
  <2>1. Without(q, t) = q BY <1>1 DEF Without
  <2>2. \A i, j \in DOMAIN q : i < j =>
          \E k, l \in DOMAIN q : k < l /\ i <= k /\ q[k] = q[i] /\ q[l] = q[j]
    OBVIOUS
  <2> QED BY <1>1, <2>1, <2>2 DEF Leaves
<1>2. CASE \E n \in DOMAIN q : q[n] = t
  <2> DEFINE w == Without(q, t)
  <2>1. PICK k \in DOMAIN q :
           /\ q[k] = t /\ w \in Seq(Tasks) /\ Len(w) = Len(q) - 1
           /\ \A i \in 1..(Len(q) - 1) : w[i] = IF i < k THEN q[i] ELSE q[i + 1]
    BY <1>2, WithoutFacts
  <2> HIDE DEF w
  <2> DEFINE up(i) == IF i < k THEN i ELSE i + 1
  <2>2. DOMAIN w = 1..(Len(q) - 1) /\ DOMAIN q = 1..Len(q) /\ k \in 1..Len(q) BY <2>1
  <2>3. \A i \in DOMAIN w : up(i) \in DOMAIN q /\ up(i) # k /\ i <= up(i) /\ w[i] = q[up(i)]
    BY <2>1, <2>2
  <2>4. \A i, j \in DOMAIN w : i < j => up(i) < up(j) BY <2>2
  <2>5. \A i \in DOMAIN q : i # k => q[i] # t
    BY <2>1, <2>2
  <2>6. \A n \in DOMAIN q : n # k => \E i \in DOMAIN w : w[i] = q[n]
    <3> SUFFICES ASSUME NEW n \in DOMAIN q, n # k PROVE \E i \in DOMAIN w : w[i] = q[n]
      OBVIOUS
    <3> DEFINE i == IF n < k THEN n ELSE n - 1
    <3>1. i \in DOMAIN w /\ up(i) = n BY <2>2
    <3>2. w[i] = q[n] BY <2>3, <3>1
    <3> QED BY <3>1, <3>2
  <2>7. \A i, j \in DOMAIN w : i < j =>
          \E m, l \in DOMAIN q : m < l /\ i <= m /\ q[m] = w[i] /\ q[l] = w[j]
    BY <2>3, <2>4
  <2>8. \A i \in DOMAIN w : w[i] # t /\ \E m \in DOMAIN q : q[m] = w[i]
    BY <2>3, <2>5
  <2>9. q # <<>> /\ q[1] # t => w # <<>> /\ w[1] = q[1]
    <3> SUFFICES ASSUME q[1] # t PROVE w # <<>> /\ w[1] = q[1] OBVIOUS
    <3>1. k > 1 /\ 1 \in DOMAIN w /\ up(1) = 1 BY <2>1, <2>2
    <3>2. w[1] = q[1] BY <2>3, <3>1
    <3> QED BY <3>1, <3>2, <2>1
  <2>10. Leaves(q, w, t) BY <2>1, <2>6, <2>7, <2>8, <2>9 DEF Leaves
  <2> QED BY <2>10 DEF w
<1> QED BY <1>1, <1>2

(* A publisher that waits for itself leaves both its places.               *)
LEMMA WithoutBothLeaves ==
  ASSUME NEW q \in Seq(Tasks), NEW t,
         \A i, j \in DOMAIN q : i < j /\ q[i] = t /\ q[j] = t => i = 1
  PROVE  Leaves(q, Without(Without(q, t), t), t)
<1>1. CASE \A i, j \in DOMAIN q : i < j => ~(q[i] = t /\ q[j] = t)
  <2>1. Leaves(q, Without(q, t), t) BY <1>1, WithoutLeaves
  <2>2. Without(Without(q, t), t) = Without(q, t) BY <2>1 DEF Leaves, Without
  <2> QED BY <2>1, <2>2
<1>2. CASE \E i, j \in DOMAIN q : i < j /\ q[i] = t /\ q[j] = t
  <2> DEFINE w == Without(q, t)
             v == Without(w, t)
  <2>0. q[1] = t /\ 1 \in DOMAIN q BY <1>2
  <2>1. PICK k \in DOMAIN q :
           /\ q[k] = t /\ w \in Seq(Tasks) /\ Len(w) = Len(q) - 1
           /\ \A i \in 1..(Len(q) - 1) : w[i] = IF i < k THEN q[i] ELSE q[i + 1]
    <3>1. \E n \in DOMAIN q : q[n] = t BY <2>0
    <3> QED BY <3>1, WithoutFacts
  <2> HIDE DEF w
  <2> DEFINE up(i) == IF i < k THEN i ELSE i + 1
  <2>2. DOMAIN w = 1..(Len(q) - 1) /\ DOMAIN q = 1..Len(q) /\ k \in 1..Len(q) BY <2>1
  <2>3. \A i \in DOMAIN w : up(i) \in DOMAIN q /\ up(i) # k /\ i <= up(i) /\ w[i] = q[up(i)]
    BY <2>1, <2>2
  <2>4. \A i, j \in DOMAIN w : i < j => up(i) < up(j) BY <2>2
  <2>5. \A i, j \in DOMAIN w : i < j => ~(w[i] = t /\ w[j] = t)
    <3> SUFFICES ASSUME NEW i \in DOMAIN w, NEW j \in DOMAIN w, i < j, w[i] = t, w[j] = t
                 PROVE  FALSE
      OBVIOUS
    <3>1. /\ up(i) \in DOMAIN q /\ up(j) \in DOMAIN q /\ up(i) < up(j)
          /\ q[up(i)] = t /\ q[up(j)] = t /\ up(i) # k /\ up(j) # k
      BY <2>3, <2>4
    <3>2. up(i) = 1 BY <3>1
    <3>3. 1 < k BY <3>1, <3>2, <2>2
    <3>4. CASE k < up(j) BY <3>1, <3>3, <3>4, <2>1, <2>2
    <3>5. CASE up(j) < k BY <3>1, <3>2, <3>5, <2>1, <2>2
    <3> QED BY <3>1, <3>4, <3>5, <2>2
  <2>6. Leaves(w, v, t) BY <2>1, <2>5, WithoutLeaves
  <2> HIDE DEF v
  <2>7. \A i, j \in DOMAIN v : i < j =>
          \E m, l \in DOMAIN q : m < l /\ i <= m /\ q[m] = v[i] /\ q[l] = v[j]
    <3> SUFFICES ASSUME NEW i \in DOMAIN v, NEW j \in DOMAIN v, i < j
                 PROVE  \E m, l \in DOMAIN q : m < l /\ i <= m /\ q[m] = v[i] /\ q[l] = v[j]
      OBVIOUS
    <3>0. v \in Seq(Tasks) /\ i \in Nat
      <4>1. v \in Seq(Tasks) BY <2>6 DEF Leaves
      <4> QED BY <4>1
    <3>1. PICK m \in DOMAIN w : \E l \in DOMAIN w : m < l /\ i <= m /\ w[m] = v[i] /\ w[l] = v[j]
      BY <2>6 DEF Leaves
    <3>2. PICK l \in DOMAIN w : m < l /\ i <= m /\ w[m] = v[i] /\ w[l] = v[j] BY <3>1
    <3>3. /\ up(m) \in DOMAIN q /\ up(l) \in DOMAIN q /\ up(m) < up(l) /\ m <= up(m)
          /\ q[up(m)] = v[i] /\ q[up(l)] = v[j]
      BY <2>3, <2>4, <3>2
    <3>4. i <= up(m) BY <3>0, <3>2, <3>3, <2>2
    <3> HIDE DEF up
    <3> QED BY <3>3, <3>4
  <2>8. \A i \in DOMAIN v : v[i] # t /\ \E m \in DOMAIN q : q[m] = v[i]
    <3> SUFFICES ASSUME NEW i \in DOMAIN v PROVE v[i] # t /\ \E m \in DOMAIN q : q[m] = v[i]
      OBVIOUS
    <3>1. PICK m \in DOMAIN w : w[m] = v[i] BY <2>6 DEF Leaves
    <3>2. up(m) \in DOMAIN q /\ q[up(m)] = v[i] BY <2>3, <3>1
    <3>3. v[i] # t BY <2>6 DEF Leaves
    <3> HIDE DEF up
    <3> QED BY <3>2, <3>3
  <2>9. \A n \in DOMAIN q : q[n] # t => \E i \in DOMAIN v : v[i] = q[n]
    <3> SUFFICES ASSUME NEW n \in DOMAIN q, q[n] # t PROVE \E i \in DOMAIN v : v[i] = q[n]
      OBVIOUS
    <3> DEFINE i == IF n < k THEN n ELSE n - 1
    <3>1. i \in DOMAIN w /\ up(i) = n BY <2>1, <2>2
    <3>2. w[i] = q[n] BY <2>3, <3>1
    <3> QED BY <2>6, <3>1, <3>2 DEF Leaves
  <2>10. v \in Seq(Tasks) BY <2>6 DEF Leaves
  <2>11. Leaves(q, v, t) BY <2>0, <2>7, <2>8, <2>9, <2>10 DEF Leaves
  <2> QED BY <2>11 DEF v, w
<1> QED BY <1>1, <1>2

LEMMA TailLeaves ==
  ASSUME NEW q \in Seq(Tasks), q # <<>>, NEW t, q[1] = t,
         \A i \in DOMAIN q : i # 1 => q[i] # t
  PROVE  Leaves(q, Tail(q), t)
<1> DEFINE w == Tail(q)
<1>1. /\ w \in Seq(Tasks) /\ Len(w) = Len(q) - 1 /\ Len(q) \in Nat /\ Len(q) > 0
      /\ \A i \in 1..(Len(q) - 1) : w[i] = q[i + 1]
  OBVIOUS
<1> HIDE DEF w
<1>2. DOMAIN w = 1..(Len(q) - 1) /\ DOMAIN q = 1..Len(q) BY <1>1
<1>3. \A i \in DOMAIN w : i + 1 \in DOMAIN q /\ i <= i + 1 /\ i + 1 # 1 /\ w[i] = q[i + 1]
  BY <1>1, <1>2
<1>4. \A i, j \in DOMAIN w : i < j =>
        \E k, l \in DOMAIN q : k < l /\ i <= k /\ q[k] = w[i] /\ q[l] = w[j]
  <2> SUFFICES ASSUME NEW i \in DOMAIN w, NEW j \in DOMAIN w, i < j
               PROVE  i + 1 < j + 1
    BY <1>3
  <2> QED BY <1>2
<1>5. \A k \in DOMAIN q : q[k] # t => \E i \in DOMAIN w : w[i] = q[k]
  <2> SUFFICES ASSUME NEW k \in DOMAIN q, q[k] # t PROVE \E i \in DOMAIN w : w[i] = q[k]
    OBVIOUS
  <2>1. k - 1 \in DOMAIN w /\ (k - 1) + 1 = k BY <1>2
  <2>2. w[k - 1] = q[k] BY <1>3, <2>1
  <2> QED BY <2>1, <2>2
<1>6. Leaves(q, w, t) BY <1>1, <1>3, <1>4, <1>5 DEF Leaves
<1> QED BY <1>6 DEF w

(* Whoever leaves, the rest of the queue stays as the invariant says.      *)
QueueInv == QueuedOnce /\ HolderFirst /\ InCallOrder

LEMMA LeavingKeepsQueue ==
  ASSUME BusTypes, QueueInv, NEW t \in Tasks, Leaves(lockQueue, lockQueue', t),
         NEW x \in Operation, x.kind \in Resting, op' = [op EXCEPT ![t] = x]
  PROVE  QueueInv'
<1> DEFINE q == lockQueue
           w == lockQueue'
<1>1. op'[t] = x /\ \A u \in Tasks : u # t => op'[u] = op[u] BY DEF BusTypes
<1>2. \A i \in DOMAIN w : w[i] \in Tasks /\ w[i] # t /\ op'[w[i]] = op[w[i]]
  BY <1>1 DEF Leaves
<1>3. ASSUME NEW i \in DOMAIN w, NEW j \in DOMAIN w, i < j
      PROVE  /\ w[i] = w[j] => i = 1 /\ op'[w[i]].kind = "frozen"
             /\ op'[w[i]].kind \in Numbered /\ op'[w[j]].kind \in Numbered
                  => op'[w[i]].msg < op'[w[j]].msg
  <2>1. PICK k \in DOMAIN q : \E l \in DOMAIN q : k < l /\ i <= k /\ q[k] = w[i] /\ q[l] = w[j]
    BY <1>3 DEF Leaves
  <2>2. PICK l \in DOMAIN q : k < l /\ i <= k /\ q[k] = w[i] /\ q[l] = w[j] BY <2>1
  <2>3. w[i] = w[j] => k = 1 /\ op[w[i]].kind = "frozen" BY <2>2 DEF QueueInv, QueuedOnce
  <2>4. k = 1 => i = 1 BY <2>2 DEF Leaves
  <2>5. op[w[i]].kind \in Numbered /\ op[w[j]].kind \in Numbered => op[w[i]].msg < op[w[j]].msg
    BY <2>2 DEF QueueInv, InCallOrder
  <2> QED BY <1>2, <2>3, <2>4, <2>5
<1>4. \A u \in Tasks : op'[u].kind \notin Resting => \E i \in DOMAIN w : w[i] = u
  <2> SUFFICES ASSUME NEW u \in Tasks, op'[u].kind \notin Resting
               PROVE  \E i \in DOMAIN w : w[i] = u
    OBVIOUS
  <2>1. u # t /\ op'[u] = op[u] BY <1>1
  <2>2. PICK k \in DOMAIN q : q[k] = u BY <2>1 DEF QueueInv, QueuedOnce
  <2> QED BY <2>1, <2>2 DEF Leaves
<1>5. \A i \in DOMAIN w : op'[w[i]].kind \notin Resting
  <2> SUFFICES ASSUME NEW i \in DOMAIN w PROVE op[w[i]].kind \notin Resting BY <1>2
  <2>1. PICK k \in DOMAIN q : q[k] = w[i] BY DEF Leaves
  <2> QED BY <2>1 DEF QueueInv, QueuedOnce
<1>6. \A u \in Tasks : op'[u].kind \in {"publishing", "frozen"} => w # <<>> /\ w[1] = u
  <2> SUFFICES ASSUME NEW u \in Tasks, op'[u].kind \in {"publishing", "frozen"}
               PROVE  w # <<>> /\ w[1] = u
    OBVIOUS
  <2>1. u # t /\ op'[u] = op[u] BY <1>1 DEF Resting
  <2>2. q # <<>> /\ q[1] = u BY <2>1 DEF QueueInv, HolderFirst
  <2> QED BY <2>1, <2>2 DEF Leaves
<1>7. QueuedOnce' BY <1>3, <1>4, <1>5 DEF QueuedOnce
<1>8. HolderFirst' BY <1>6 DEF HolderFirst
<1>9. InCallOrder' BY <1>3 DEF InCallOrder
<1> QED BY <1>7, <1>8, <1>9 DEF QueueInv

-----------------------------------------------------------------------------
LEMMA NoOperationFacts == NoOperation \in Operation /\ NoOperation.kind = "idle"
                          /\ NoOperation.msg = 0
BY DEF NoOperation, Operation, Kinds

(* The task at the head has the lock; nobody has called before it.         *)
LEMMA HeadFacts ==
  ASSUME BusTypes, QueueInv, NEW t \in Tasks, lockQueue # <<>>, lockQueue[1] = t
  PROVE  /\ op[t].kind # "frozen" => Leaves(lockQueue, Tail(lockQueue), t)
         /\ op[t].kind # "frozen" => Leaves(lockQueue, Without(lockQueue, t), t)
         /\ op[t].kind \in Numbered =>
              \A u \in Tasks : u # t /\ op[u].kind \in Numbered => op[t].msg < op[u].msg
         /\ \A u \in Tasks : op[u].kind \in {"publishing", "frozen"} => u = t
<1>0. lockQueue \in Seq(Tasks) /\ 1 \in DOMAIN lockQueue BY DEF BusTypes
<1>1. ASSUME op[t].kind # "frozen" PROVE \A i \in DOMAIN lockQueue : i # 1 => lockQueue[i] # t
  <2> SUFFICES ASSUME NEW i \in DOMAIN lockQueue, i # 1, lockQueue[i] = t PROVE FALSE
    OBVIOUS
  <2>1. 1 < i BY <1>0
  <2> QED BY <1>0, <1>1, <2>1 DEF QueueInv, QueuedOnce
<1>2. ASSUME op[t].kind # "frozen" PROVE Leaves(lockQueue, Tail(lockQueue), t)
  BY <1>0, <1>1, <1>2, TailLeaves
<1>3. ASSUME op[t].kind # "frozen" PROVE Leaves(lockQueue, Without(lockQueue, t), t)
  <2>1. \A i, j \in DOMAIN lockQueue : i < j => ~(lockQueue[i] = t /\ lockQueue[j] = t)
    BY <1>0, <1>1, <1>3
  <2> QED BY <1>0, <2>1, WithoutLeaves
<1>4. ASSUME op[t].kind \in Numbered, NEW u \in Tasks, u # t, op[u].kind \in Numbered
      PROVE  op[t].msg < op[u].msg
  <2>1. op[u].kind \notin Resting BY <1>4 DEF Numbered, Resting
  <2>2. PICK j \in DOMAIN lockQueue : lockQueue[j] = u BY <2>1 DEF QueueInv, QueuedOnce
  <2>3. 1 < j BY <1>0, <1>4, <2>2
  <2> QED BY <1>0, <1>4, <2>2, <2>3 DEF QueueInv, InCallOrder
<1>5. \A u \in Tasks : op[u].kind \in {"publishing", "frozen"} => u = t
  BY DEF QueueInv, HolderFirst
<1> QED BY <1>2, <1>3, <1>4, <1>5

(* What a step that delivers nothing leaves to show.                       *)
LEMMA NothingDelivered ==
  ASSUME BusTypes, OlderOut, MessagesInOrder, NEW t \in Tasks, NEW x \in Operation,
         op' = [op EXCEPT ![t] = x], x.msg <= created, x.kind \notin Numbered,
         UNCHANGED <<queues, history, created, handled, received>>
  PROVE  OlderOut' /\ MessagesInOrder'
<1> DEFINE old(n) == Delivered(handled, received, queues, history, n)
           new(n) == Delivered(handled', received', queues', history', n)
<1>1. op'[t] = x /\ \A u \in Tasks : u # t => op'[u] = op[u] BY DEF BusTypes
<1>2. \A n : old(n) <=> new(n) OBVIOUS
<1>3. MessagesInOrder' BY DEF MessagesInOrder
<1>4. new(created' + 1) BY <1>2 DEF OlderOut
<1>5. ASSUME NEW u \in Tasks
      PROVE  /\ op'[u].msg <= created'
             /\ op'[u].kind \in {"publish", "send"} => new(op'[u].msg)
             /\ op'[u].kind = "publishing" => \A h \in op'[u].rest : Below(handled'[h], op'[u].msg)
  <2>1. CASE u = t BY <1>1, <2>1 DEF Numbered
  <2>2. CASE u # t
    <3>1. op[u].kind \in {"publish", "send"} => new(op[u].msg) BY <1>2 DEF OlderOut
    <3> QED BY <1>1, <2>2, <3>1 DEF OlderOut
  <2> QED BY <2>1, <2>2
<1> QED BY <1>3, <1>4, <1>5 DEF OlderOut

LEMMA BusInitInv ==
  ASSUME BusAssumption, BusInit PROVE BusInv
<1>1. \A n : Below(<<>>, n) BY DEF Below
<1>2. Increasing(<<>>) BY DEF Increasing
<1>3. <<>> \o <<>> = <<>> OBVIOUS
<1>4. \A t \in Tasks : op[t] = NoOperation BY DEF BusInit
<1>5. BusTypes BY <1>4, NoOperationFacts DEF BusInit, BusTypes
<1>6. QueuedOnce /\ HolderFirst /\ InCallOrder
  BY <1>4, NoOperationFacts DEF BusInit, QueuedOnce, HolderFirst, InCallOrder, Resting
<1>7. \A n : Delivered(handled, received, queues, history, n)
  BY <1>1, <1>3 DEF BusInit, Delivered
<1>8. OlderOut
  <2>1. Delivered(handled, received, queues, history, created + 1) BY <1>7
  <2>2. created = 0 BY DEF BusInit
  <2> QED BY <1>4, <2>1, <2>2, NoOperationFacts DEF OlderOut
<1>9. MessagesInOrder BY <1>2, <1>3 DEF BusInit, MessagesInOrder, BusAssumption
<1> QED BY <1>5, <1>6, <1>8, <1>9 DEF BusInv

LEMMA CallKeeps ==
  ASSUME BusInv, NEW t \in Tasks, NEW kind \in Kinds \ {"publishing", "frozen", "idle", "polling"},
         NEW at \in Topics \cup {Nobody}, NEW who \in Handlers \cup Agents \cup {Nobody},
         kind = "publish" => at \in Topics,
         kind \in {"subscribe", "unsubscribe"} => at \in Topics /\ who \in Handlers,
         kind \in {"send", "receive", "receive_nowait", "clear_queue"} => who \in Agents,
         Call(t, kind, at, who)
  PROVE  BusInv'
<1> DEFINE x == [kind |-> kind, at |-> at, who |-> who, msg |-> created', rest |-> {}]
           q == lockQueue
           old(n) == Delivered(handled, received, queues, history, n)
           new(n) == Delivered(handled', received', queues', history', n)
<1> USE DEF BusInv
<1>1. created \in Nat /\ created' \in Nat /\ created <= created' BY DEF Call, BusTypes
<1>2. x \in Operation BY <1>1 DEF Operation
<1>3. x.kind = kind /\ x.msg = created' /\ x.at = at /\ x.who = who OBVIOUS
<1>4. op' = [op EXCEPT ![t] = x] BY DEF Call
<1> HIDE DEF x
<1>5. op'[t] = x /\ \A u \in Tasks : u # t => op'[u] = op[u] BY <1>4 DEF BusTypes
<1>6. BusTypes'
  <2>1. lockQueue' \in Seq(Tasks) BY DEF Call, BusTypes
  <2>2. op' \in [Tasks -> Operation] BY <1>2, <1>4 DEF BusTypes
  <2>3. UNCHANGED <<subscribers, queues, history, handled, received>> BY DEF Call
  <2>4. \A u \in Tasks :
          /\ op'[u].kind = "publish" => op'[u].at \in Topics
          /\ op'[u].kind \in {"subscribe", "unsubscribe"} =>
               op'[u].at \in Topics /\ op'[u].who \in Handlers
          /\ op'[u].kind \in {"send", "receive", "receive_nowait", "polling", "clear_queue"} =>
               op'[u].who \in Agents
    BY <1>3, <1>5 DEF BusTypes
  <2> QED BY <1>1, <2>1, <2>2, <2>3, <2>4 DEF BusTypes
<1>7. op[t].kind = "idle" /\ q \in Seq(Tasks) /\ lockQueue' = Append(q, t) BY DEF Call, BusTypes
<1>8. /\ DOMAIN lockQueue' = 1..(Len(q) + 1) /\ DOMAIN q = 1..Len(q) /\ Len(q) \in Nat
      /\ \A i \in DOMAIN q : lockQueue'[i] = q[i] /\ q[i] \in Tasks
      /\ lockQueue'[Len(q) + 1] = t
  BY <1>7
<1>9. \A i \in DOMAIN q : q[i] # t BY <1>7 DEF QueuedOnce, Resting
<1>10. QueuedOnce'
  <2>1. \A i, j \in DOMAIN lockQueue' : i < j /\ lockQueue'[i] = lockQueue'[j] =>
          i = 1 /\ op'[lockQueue'[i]].kind = "frozen"
    <3> SUFFICES ASSUME NEW i \in DOMAIN lockQueue', NEW j \in DOMAIN lockQueue', i < j,
                        lockQueue'[i] = lockQueue'[j]
                 PROVE  i = 1 /\ op'[lockQueue'[i]].kind = "frozen"
      OBVIOUS
    <3>1. i \in DOMAIN q BY <1>8
    <3>2. lockQueue'[i] # t BY <1>8, <1>9, <3>1
    <3>3. j \in DOMAIN q BY <1>8, <3>2
    <3>4. i = 1 /\ op[q[i]].kind = "frozen" BY <1>8, <3>1, <3>3 DEF QueuedOnce
    <3> QED BY <1>5, <1>8, <3>1, <3>2, <3>4
  <2>2. ASSUME NEW u \in Tasks, op'[u].kind \notin Resting
        PROVE  \E i \in DOMAIN lockQueue' : lockQueue'[i] = u
    <3>1. CASE u = t BY <1>8, <3>1
    <3>2. CASE u # t
      <4>1. PICK i \in DOMAIN q : q[i] = u BY <1>5, <2>2, <3>2 DEF QueuedOnce
      <4>2. i \in DOMAIN lockQueue' /\ lockQueue'[i] = u BY <1>8, <4>1
      <4> QED BY <4>2
    <3> QED BY <3>1, <3>2
  <2>3. ASSUME NEW i \in DOMAIN lockQueue' PROVE op'[lockQueue'[i]].kind \notin Resting
    <3>1. CASE i = Len(q) + 1 BY <1>3, <1>5, <1>8, <3>1 DEF Resting
    <3>2. CASE i \in DOMAIN q BY <1>5, <1>8, <1>9, <3>2 DEF QueuedOnce
    <3> QED BY <1>8, <3>1, <3>2
  <2> QED BY <2>1, <2>2, <2>3 DEF QueuedOnce
<1>11. HolderFirst'
  <2> SUFFICES ASSUME NEW u \in Tasks, op'[u].kind \in {"publishing", "frozen"}
               PROVE  lockQueue' # <<>> /\ lockQueue'[1] = u
    BY DEF HolderFirst
  <2>1. u # t /\ op[u].kind \in {"publishing", "frozen"} BY <1>3, <1>5
  <2>2. q # <<>> /\ q[1] = u BY <2>1 DEF HolderFirst
  <2> QED BY <1>7, <1>8, <2>2
<1>12. InCallOrder'
  <2> SUFFICES ASSUME NEW i \in DOMAIN lockQueue', NEW j \in DOMAIN lockQueue', i < j,
                      op'[lockQueue'[i]].kind \in Numbered, op'[lockQueue'[j]].kind \in Numbered
               PROVE  op'[lockQueue'[i]].msg < op'[lockQueue'[j]].msg
    BY DEF InCallOrder
  <2>1. i \in DOMAIN q /\ lockQueue'[i] = q[i] /\ q[i] \in Tasks /\ op'[q[i]] = op[q[i]]
    BY <1>5, <1>8, <1>9
  <2>2. CASE j \in DOMAIN q
    <3>1. lockQueue'[j] = q[j] /\ op'[q[j]] = op[q[j]] BY <1>5, <1>8, <1>9, <2>2
    <3> QED BY <2>1, <2>2, <3>1 DEF InCallOrder
  <2>3. CASE j = Len(q) + 1
    <3>1. op'[lockQueue'[j]] = x BY <1>5, <1>8, <2>3
    <3>2. created' = created + 1 BY <1>3, <3>1 DEF Call, Numbered, CreatesMessage, Kinds
    <3>3. op[q[i]].msg <= created BY <2>1 DEF OlderOut
    <3>4. op[q[i]].msg \in Nat BY <2>1 DEF BusTypes, Operation
    <3> QED BY <1>1, <1>3, <2>1, <3>1, <3>2, <3>3, <3>4
  <2> QED BY <1>8, <2>2, <2>3
<1>13. UNCHANGED <<queues, history, handled, received>> BY DEF Call
<1>14. \A n : old(n) <=> new(n) BY <1>13
<1>15. ASSUME NEW n \in Nat, NEW m \in Nat, n <= m, old(n) PROVE old(m)
  <2>1. \A h \in Handlers : handled[h] \in Seq(Nat) BY DEF BusTypes
  <2>2. \A a \in Agents : received[a] \o queues[a] \in Seq(Nat) BY DEF BusTypes
  <2>3. history \in Seq(Nat) BY DEF BusTypes
  <2> QED BY <1>15, <2>1, <2>2, <2>3, BelowMore DEF Delivered
<1>16. OlderOut'
  <2>1. new(created' + 1) BY <1>1, <1>14, <1>15 DEF OlderOut
  <2>2. ASSUME NEW u \in Tasks
        PROVE  /\ op'[u].msg <= created'
               /\ op'[u].kind \in {"publish", "send"} => new(op'[u].msg)
               /\ op'[u].kind = "publishing" =>
                    \A h \in op'[u].rest : Below(handled'[h], op'[u].msg)
    <3>1. CASE u = t
      <4>1. op'[u] = x BY <1>5, <3>1
      <4>2. kind \in {"publish", "send"} => created' = created + 1
        BY DEF Call, CreatesMessage
      <4>3. kind \in {"publish", "send"} => new(created') BY <1>14, <4>2 DEF OlderOut
      <4> QED BY <1>1, <1>3, <4>1, <4>3
    <3>2. CASE u # t
      <4>1. op'[u] = op[u] BY <1>5, <3>2
      <4>2. op[u].msg \in Nat /\ op[u].msg <= created BY DEF BusTypes, Operation, OlderOut
      <4>3. op[u].kind \in {"publish", "send"} => new(op[u].msg) BY <1>14 DEF OlderOut
      <4>4. op[u].kind = "publishing" => \A h \in op[u].rest : Below(handled'[h], op[u].msg)
        BY <1>13 DEF OlderOut
      <4>5. op[u].msg <= created' BY <1>1, <4>2
      <4> QED BY <4>1, <4>3, <4>4, <4>5
    <3> QED BY <3>1, <3>2
  <2> QED BY <2>1, <2>2 DEF OlderOut
<1>17. MessagesInOrder' BY <1>13 DEF MessagesInOrder
<1> QED BY <1>6, <1>10, <1>11, <1>12, <1>16, <1>17

-----------------------------------------------------------------------------
(* A step of the task at the head that ends, or puts off, its operation    *)
(* and delivers nothing.                                                   *)
LEMMA OneTaskTyped ==
  ASSUME BusTypes, NEW t \in Tasks, NEW x \in Operation, op' = [op EXCEPT ![t] = x],
         lockQueue' \in Seq(Tasks), created' \in Nat,
         x.kind = "publish" => x.at \in Topics,
         x.kind \in {"subscribe", "unsubscribe"} => x.at \in Topics /\ x.who \in Handlers,
         x.kind \in {"send", "receive", "receive_nowait", "polling", "clear_queue"} =>
           x.who \in Agents,
         subscribers' \in [Topics -> SUBSET Handlers],
         queues' \in [Agents -> Seq(Nat)], received' \in [Agents -> Seq(Nat)],
         handled' \in [Handlers -> Seq(Nat)], history' \in Seq(Nat)
  PROVE  BusTypes'
<1>1. op'[t] = x /\ \A u \in Tasks : u # t => op'[u] = op[u] BY DEF BusTypes
<1>2. op' \in [Tasks -> Operation] BY DEF BusTypes
<1>3. \A u \in Tasks :
        /\ op'[u].kind = "publish" => op'[u].at \in Topics
        /\ op'[u].kind \in {"subscribe", "unsubscribe"} =>
             op'[u].at \in Topics /\ op'[u].who \in Handlers
        /\ op'[u].kind \in {"send", "receive", "receive_nowait", "polling", "clear_queue"} =>
             op'[u].who \in Agents
  BY <1>1 DEF BusTypes
<1> QED BY <1>2, <1>3 DEF BusTypes

LEMMA OwnsFacts ==
  ASSUME BusTypes, NEW t \in Tasks, Owns(t)
  PROVE  lockQueue # <<>> /\ lockQueue[1] = t /\ op[t].kind # "publishing" /\ op[t] \in Operation
BY DEF BusTypes, Owns

LEMMA SilentReleaseKeeps ==
  ASSUME BusInv, NEW t \in Tasks, Owns(t), Releases(t), op[t].kind # "frozen",
         subscribers' \in [Topics -> SUBSET Handlers],
         UNCHANGED <<queues, history, created, handled, received>>
  PROVE  BusInv'
<1> USE DEF BusInv
<1>1. QueueInv BY DEF QueueInv
<1>2. lockQueue # <<>> /\ lockQueue[1] = t BY OwnsFacts
<1>3. Leaves(lockQueue, lockQueue', t) BY <1>1, <1>2, HeadFacts DEF Releases
<1>4. op' = [op EXCEPT ![t] = NoOperation] BY DEF Releases
<1>5. NoOperation.kind \in Resting /\ NoOperation.kind \notin Numbered
  BY NoOperationFacts DEF Resting, Numbered
<1>6. QueueInv' BY <1>1, <1>3, <1>4, <1>5, NoOperationFacts, LeavingKeepsQueue
<1>7. NoOperation.msg <= created BY NoOperationFacts DEF BusTypes
<1>8. OlderOut' /\ MessagesInOrder'
  BY <1>4, <1>5, <1>7, NoOperationFacts, NothingDelivered
<1>9. lockQueue' \in Seq(Tasks) BY <1>3 DEF Leaves
<1>10. BusTypes'
  <2>1. /\ queues' \in [Agents -> Seq(Nat)] /\ received' \in [Agents -> Seq(Nat)]
        /\ handled' \in [Handlers -> Seq(Nat)] /\ history' \in Seq(Nat) /\ created' \in Nat
    BY DEF BusTypes
  <2> QED BY <1>4, <1>9, <2>1, NoOperationFacts, OneTaskTyped
<1> QED BY <1>6, <1>8, <1>10 DEF QueueInv

LEMMA UnheardKeeps ==
  ASSUME BusInv, NEW t \in Tasks, Unheard(t) PROVE BusInv'
<1>1. subscribers' \in [Topics -> SUBSET Handlers] BY DEF Unheard, BusInv, BusTypes
<1> QED BY <1>1, SilentReleaseKeeps DEF Unheard

LEMMA SubscriptionKeeps ==
  ASSUME BusInv, NEW t \in Tasks, Subscription(t) PROVE BusInv'
<1>1. op[t].at \in Topics /\ op[t].who \in Handlers BY DEF Subscription, BusInv, BusTypes
<1>2. subscribers' \in [Topics -> SUBSET Handlers] BY <1>1 DEF Subscription, BusInv, BusTypes
<1> QED BY <1>2, SilentReleaseKeeps DEF Subscription

LEMMA FindsNothingKeeps ==
  ASSUME BusInv, NEW t \in Tasks, FindsNothing(t) PROVE BusInv'
<1> USE DEF BusInv
<1> DEFINE x == IF op[t].kind = "receive" THEN [op[t] EXCEPT !.kind = "polling"] ELSE NoOperation
<1>1. QueueInv BY DEF QueueInv
<1>2. lockQueue # <<>> /\ lockQueue[1] = t /\ op[t] \in Operation BY OwnsFacts DEF FindsNothing
<1>3. op[t].kind # "frozen" BY DEF FindsNothing
<1>4. lockQueue' = Tail(lockQueue) BY DEF FindsNothing
<1>5. Leaves(lockQueue, lockQueue', t) BY <1>1, <1>2, <1>3, <1>4, HeadFacts
<1>6. op' = [op EXCEPT ![t] = x] BY DEF FindsNothing, BusTypes
<1>7. x \in Operation /\ x.kind \in Resting /\ x.kind \notin Numbered
  BY <1>2, NoOperationFacts DEF Operation, Kinds, Resting, Numbered
<1>8. x.msg <= created
  <2>1. op[t].msg <= created BY DEF OlderOut
  <2> QED BY <1>2, <2>1, NoOperationFacts DEF Operation, BusTypes
<1>9. x.kind \in {"idle", "polling"} /\ (x.kind = "polling" => x.who \in Agents)
  BY <1>2, NoOperationFacts DEF Operation, FindsNothing, BusTypes
<1> HIDE DEF x
<1>10. UNCHANGED <<subscribers, queues, history, created, handled, received>> BY DEF FindsNothing
<1>11. QueueInv' BY <1>1, <1>5, <1>6, <1>7, LeavingKeepsQueue
<1>12. OlderOut' /\ MessagesInOrder' BY <1>6, <1>7, <1>8, <1>10, NothingDelivered
<1>13. BusTypes'
  <2>1. /\ queues' \in [Agents -> Seq(Nat)] /\ received' \in [Agents -> Seq(Nat)]
        /\ handled' \in [Handlers -> Seq(Nat)] /\ history' \in Seq(Nat) /\ created' \in Nat
        /\ subscribers' \in [Topics -> SUBSET Handlers]
    BY <1>10 DEF BusTypes
  <2>2. lockQueue' \in Seq(Tasks) BY <1>5 DEF Leaves
  <2> QED BY <1>6, <1>7, <1>9, <2>1, <2>2, OneTaskTyped
<1> QED BY <1>11, <1>12, <1>13 DEF QueueInv

LEMMA CancelledKeeps ==
  ASSUME BusInv, NEW t \in Tasks, Cancelled(t) PROVE BusInv'
<1> USE DEF BusInv
<1>1. QueueInv BY DEF QueueInv
<1>2. \A i, j \in DOMAIN lockQueue : i < j /\ lockQueue[i] = t /\ lockQueue[j] = t => i = 1
  BY DEF QueuedOnce
<1>3. lockQueue \in Seq(Tasks) BY DEF BusTypes
<1>4. Leaves(lockQueue, lockQueue', t) BY <1>2, <1>3, WithoutBothLeaves DEF Cancelled
<1>5. op' = [op EXCEPT ![t] = NoOperation] BY DEF Cancelled
<1>6. NoOperation.kind \in Resting /\ NoOperation.kind \notin Numbered
  BY NoOperationFacts DEF Resting, Numbered
<1>7. NoOperation.msg <= created BY NoOperationFacts DEF BusTypes
<1>8. UNCHANGED <<subscribers, queues, history, created, handled, received>> BY DEF Cancelled
<1>9. QueueInv' BY <1>1, <1>4, <1>5, <1>6, NoOperationFacts, LeavingKeepsQueue
<1>10. OlderOut' /\ MessagesInOrder'
  BY <1>5, <1>6, <1>7, <1>8, NoOperationFacts, NothingDelivered
<1>11. BusTypes'
  <2>1. /\ queues' \in [Agents -> Seq(Nat)] /\ received' \in [Agents -> Seq(Nat)]
        /\ handled' \in [Handlers -> Seq(Nat)] /\ history' \in Seq(Nat) /\ created' \in Nat
        /\ subscribers' \in [Topics -> SUBSET Handlers]
    BY <1>8 DEF BusTypes
  <2>2. lockQueue' \in Seq(Tasks) BY <1>4 DEF Leaves
  <2> QED BY <1>5, <2>1, <2>2, NoOperationFacts, OneTaskTyped
<1> QED BY <1>9, <1>10, <1>11 DEF QueueInv

-----------------------------------------------------------------------------
(* A step that changes the operation of one task in its place.             *)
LEMMA SameQueueKept ==
  ASSUME BusTypes, QueueInv, NEW t \in Tasks, NEW x \in Operation, op' = [op EXCEPT ![t] = x],
         lockQueue' = lockQueue,
         \/ op[t].kind \in Resting /\ x.kind \in Resting
         \/ /\ op[t].kind \in Numbered /\ lockQueue # <<>> /\ lockQueue[1] = t
            /\ x.kind = "publishing" /\ x.msg = op[t].msg
  PROVE  QueueInv'
<1>1. op'[t] = x /\ \A u \in Tasks : u # t => op'[u] = op[u] BY DEF BusTypes
<1>2. \A i \in DOMAIN lockQueue : lockQueue[i] \in Tasks BY DEF BusTypes
<1>3. CASE op[t].kind \in Resting /\ x.kind \in Resting
  <2>1. \A i \in DOMAIN lockQueue : lockQueue[i] # t BY <1>3 DEF QueueInv, QueuedOnce
  <2>2. \A i \in DOMAIN lockQueue : op'[lockQueue[i]] = op[lockQueue[i]] BY <1>1, <1>2, <2>1
  <2>3. QueuedOnce' BY <1>1, <1>3, <2>2 DEF QueueInv, QueuedOnce
  <2>4. HolderFirst' BY <1>1, <1>3 DEF QueueInv, HolderFirst, Resting
  <2>5. InCallOrder' BY <2>2 DEF QueueInv, InCallOrder
  <2> QED BY <2>3, <2>4, <2>5 DEF QueueInv
<1>4. CASE /\ op[t].kind \in Numbered /\ lockQueue # <<>> /\ lockQueue[1] = t
           /\ x.kind = "publishing" /\ x.msg = op[t].msg
  <2>1. \A u \in Tasks : op'[u].msg = op[u].msg BY <1>1, <1>4
  <2>2. \A u \in Tasks : op'[u].kind \in Numbered <=> op[u].kind \in Numbered
    BY <1>1, <1>4 DEF Numbered
  <2>3. \A u \in Tasks : op'[u].kind \in Resting <=> op[u].kind \in Resting
    BY <1>1, <1>4 DEF Numbered, Resting
  <2>4. \A u \in Tasks : op[u].kind = "frozen" => op'[u].kind = "frozen"
    BY <1>1, <1>4 DEF Numbered
  <2>5. QueuedOnce' BY <1>2, <2>3, <2>4 DEF QueueInv, QueuedOnce
  <2>6. HolderFirst' BY <1>1, <1>4 DEF QueueInv, HolderFirst
  <2>7. InCallOrder' BY <1>2, <2>1, <2>2 DEF QueueInv, InCallOrder
  <2> QED BY <2>5, <2>6, <2>7 DEF QueueInv
<1> QED BY <1>3, <1>4

(* A waiter joins the queue with an operation that carries no message.     *)
LEMMA JoiningKeepsQueue ==
  ASSUME BusTypes, QueueInv, NEW t \in Tasks, NEW x \in Operation, op' = [op EXCEPT ![t] = x],
         lockQueue' = Append(lockQueue, t), x.kind \notin Numbered, x.kind \notin Resting,
         \/ op[t].kind \in Resting /\ x.kind # "frozen"
         \/ /\ op[t].kind = "publishing" /\ x.kind = "frozen"
  PROVE  QueueInv'
<1> DEFINE q == lockQueue
<1>1. op'[t] = x /\ \A u \in Tasks : u # t => op'[u] = op[u] BY DEF BusTypes
<1>2. q \in Seq(Tasks) BY DEF BusTypes
<1>3. /\ DOMAIN lockQueue' = 1..(Len(q) + 1) /\ DOMAIN q = 1..Len(q) /\ Len(q) \in Nat
      /\ \A i \in DOMAIN q : lockQueue'[i] = q[i] /\ q[i] \in Tasks
      /\ lockQueue'[Len(q) + 1] = t
  BY <1>2
<1>4. op[t].kind \in Resting => \A i \in DOMAIN q : q[i] # t BY DEF QueueInv, QueuedOnce
<1>5. op[t].kind = "publishing" => /\ q # <<>> /\ q[1] = t
                                   /\ \A i \in DOMAIN q : i # 1 => q[i] # t
  <2> SUFFICES ASSUME op[t].kind = "publishing"
               PROVE  q # <<>> /\ q[1] = t /\ \A i \in DOMAIN q : i # 1 => q[i] # t
    OBVIOUS
  <2>1. q # <<>> /\ q[1] = t BY DEF QueueInv, HolderFirst
  <2>2. ASSUME NEW i \in DOMAIN q, i # 1, q[i] = t PROVE FALSE
    <3>1. 1 < i /\ 1 \in DOMAIN q BY <1>2, <2>1, <2>2
    <3> QED BY <2>1, <2>2, <3>1 DEF QueueInv, QueuedOnce
  <2> QED BY <2>1, <2>2
<1>6. QueuedOnce'
  <2>1. ASSUME NEW i \in DOMAIN lockQueue', NEW j \in DOMAIN lockQueue', i < j,
               lockQueue'[i] = lockQueue'[j]
        PROVE  i = 1 /\ op'[lockQueue'[i]].kind = "frozen"
    <3>1. i \in DOMAIN q /\ lockQueue'[i] = q[i] BY <1>3, <2>1
    <3>2. CASE j \in DOMAIN q
      <4>1. i = 1 /\ op[q[i]].kind = "frozen" BY <1>3, <2>1, <3>1, <3>2 DEF QueueInv, QueuedOnce
      <4>2. q[i] # t BY <4>1 DEF Resting
      <4> QED BY <1>1, <1>3, <3>1, <4>1, <4>2
    <3>3. CASE j = Len(q) + 1
      <4>1. q[i] = t BY <1>3, <2>1, <3>1, <3>3
      <4>2. op[t].kind = "publishing" /\ x.kind = "frozen" BY <1>4, <3>1, <4>1
      <4> QED BY <1>1, <1>5, <3>1, <4>1, <4>2
    <3> QED BY <1>3, <3>2, <3>3
  <2>2. ASSUME NEW u \in Tasks, op'[u].kind \notin Resting
        PROVE  \E i \in DOMAIN lockQueue' : lockQueue'[i] = u
    <3>1. CASE u = t BY <1>3, <3>1
    <3>2. CASE u # t
      <4>1. PICK i \in DOMAIN q : q[i] = u BY <1>1, <2>2, <3>2 DEF QueueInv, QueuedOnce
      <4>2. i \in DOMAIN lockQueue' /\ lockQueue'[i] = u BY <1>3, <4>1
      <4> QED BY <4>2
    <3> QED BY <3>1, <3>2
  <2>3. ASSUME NEW i \in DOMAIN lockQueue' PROVE op'[lockQueue'[i]].kind \notin Resting
    <3>1. CASE lockQueue'[i] = t BY <1>1, <3>1
    <3>2. CASE lockQueue'[i] # t
      <4>1. i \in DOMAIN q BY <1>3, <3>2
      <4> QED BY <1>1, <1>3, <3>2, <4>1 DEF QueueInv, QueuedOnce
    <3> QED BY <3>1, <3>2
  <2> QED BY <2>1, <2>2, <2>3 DEF QueuedOnce
<1>7. HolderFirst'
  <2> SUFFICES ASSUME NEW u \in Tasks, op'[u].kind \in {"publishing", "frozen"}
               PROVE  lockQueue' # <<>> /\ lockQueue'[1] = u
    BY DEF HolderFirst
  <2>1. op[u].kind \in {"publishing", "frozen"}
    BY <1>1 DEF Numbered
  <2>2. q # <<>> /\ q[1] = u BY <2>1 DEF QueueInv, HolderFirst
  <2>3. 1 \in DOMAIN q BY <1>2, <2>2
  <2> QED BY <1>3, <2>2, <2>3
<1>8. InCallOrder'
  <2> SUFFICES ASSUME NEW i \in DOMAIN lockQueue', NEW j \in DOMAIN lockQueue', i < j,
                      op'[lockQueue'[i]].kind \in Numbered, op'[lockQueue'[j]].kind \in Numbered
               PROVE  op'[lockQueue'[i]].msg < op'[lockQueue'[j]].msg
    BY DEF InCallOrder
  <2>1. lockQueue'[i] # t /\ lockQueue'[j] # t BY <1>1
  <2>2. i \in DOMAIN q /\ j \in DOMAIN q BY <1>3, <2>1
  <2>3. op'[q[i]] = op[q[i]] /\ op'[q[j]] = op[q[j]] BY <1>1, <1>3, <2>1, <2>2
  <2> QED BY <1>3, <2>2, <2>3 DEF QueueInv, InCallOrder
<1> QED BY <1>6, <1>7, <1>8 DEF QueueInv

LEMMA TimesOutKeeps ==
  ASSUME BusInv, NEW t \in Tasks, TimesOut(t) PROVE BusInv'
<1> USE DEF BusInv
<1>1. QueueInv BY DEF QueueInv
<1>2. op' = [op EXCEPT ![t] = NoOperation] /\ lockQueue' = lockQueue BY DEF TimesOut
<1>3. op[t].kind \in Resting BY DEF TimesOut, Resting
<1>4. NoOperation.kind \in Resting /\ NoOperation.kind \notin Numbered
  BY NoOperationFacts DEF Resting, Numbered
<1>5. NoOperation.msg <= created BY NoOperationFacts DEF BusTypes
<1>6. UNCHANGED <<subscribers, queues, history, created, handled, received>> BY DEF TimesOut
<1>7. QueueInv' BY <1>1, <1>2, <1>3, <1>4, NoOperationFacts, SameQueueKept
<1>8. OlderOut' /\ MessagesInOrder' BY <1>2, <1>4, <1>5, <1>6, NoOperationFacts, NothingDelivered
<1>9. BusTypes'
  <2>1. /\ queues' \in [Agents -> Seq(Nat)] /\ received' \in [Agents -> Seq(Nat)]
        /\ handled' \in [Handlers -> Seq(Nat)] /\ history' \in Seq(Nat) /\ created' \in Nat
        /\ subscribers' \in [Topics -> SUBSET Handlers] /\ lockQueue' \in Seq(Tasks)
    BY <1>2, <1>6 DEF BusTypes
  <2> QED BY <1>2, <2>1, NoOperationFacts, OneTaskTyped
<1> QED BY <1>7, <1>8, <1>9 DEF QueueInv

LEMMA LooksAgainKeeps ==
  ASSUME BusInv, NEW t \in Tasks, LooksAgain(t) PROVE BusInv'
<1> USE DEF BusInv
<1> DEFINE x == [op[t] EXCEPT !.kind = "receive"]
<1>1. QueueInv BY DEF QueueInv
<1>2. op[t] \in Operation /\ op[t].kind = "polling" /\ op[t].who \in Agents
      /\ op[t].msg <= created
  BY DEF LooksAgain, BusTypes, OlderOut
<1>3. op' = [op EXCEPT ![t] = x] /\ lockQueue' = Append(lockQueue, t) BY DEF LooksAgain, BusTypes
<1>4. x \in Operation /\ x.kind = "receive" /\ x.who \in Agents /\ x.msg <= created
  BY <1>2 DEF Operation, Kinds
<1> HIDE DEF x
<1>5. UNCHANGED <<subscribers, queues, history, created, handled, received>> BY DEF LooksAgain
<1>6. x.kind \notin Numbered /\ x.kind \notin Resting /\ op[t].kind \in Resting /\ x.kind # "frozen"
  BY <1>2, <1>4 DEF Numbered, Resting
<1>7. QueueInv' BY <1>1, <1>3, <1>4, <1>6, JoiningKeepsQueue
<1>8. OlderOut' /\ MessagesInOrder' BY <1>3, <1>4, <1>5, <1>6, NothingDelivered
<1>9. BusTypes'
  <2>1. /\ queues' \in [Agents -> Seq(Nat)] /\ received' \in [Agents -> Seq(Nat)]
        /\ handled' \in [Handlers -> Seq(Nat)] /\ history' \in Seq(Nat) /\ created' \in Nat
        /\ subscribers' \in [Topics -> SUBSET Handlers] /\ lockQueue' \in Seq(Tasks)
    BY <1>3, <1>5 DEF BusTypes
  <2> QED BY <1>3, <1>4, <2>1, OneTaskTyped
<1> QED BY <1>7, <1>8, <1>9 DEF QueueInv

-----------------------------------------------------------------------------
(* The holder of the lock hands out its message: it is the oldest that is  *)
(* still to be handed out.                                                 *)
LEMMA HolderDelivers ==
  ASSUME BusInv, NEW t \in Tasks, lockQueue # <<>>, lockQueue[1] = t, op[t].kind \in Numbered,
         NEW x \in Operation, op' = [op EXCEPT ![t] = x], x.msg <= created, created' = created,
         \/ x.kind \notin Numbered
         \/ x.kind = "publishing" /\ \A h \in x.rest : Below(handled'[h], x.msg),
         \A m \in Nat : op[t].msg < m /\ Delivered(handled, received, queues, history, m)
                          => Delivered(handled', received', queues', history', m)
  PROVE  OlderOut'
<1> USE DEF BusInv
<1>1. op'[t] = x /\ \A u \in Tasks : u # t => op'[u] = op[u] BY DEF BusTypes
<1>2. QueueInv BY DEF QueueInv
<1>3. \A u \in Tasks : op[u].msg \in Nat /\ op[u].msg <= created BY DEF BusTypes, Operation, OlderOut
<1>4. created \in Nat BY DEF BusTypes
<1>5. op[t].msg < created + 1 /\ created + 1 \in Nat BY <1>3, <1>4
<1>6. Delivered(handled', received', queues', history', created' + 1) BY <1>5 DEF OlderOut
<1>7. ASSUME NEW u \in Tasks
      PROVE  /\ op'[u].msg <= created'
             /\ op'[u].kind \in {"publish", "send"} =>
                  Delivered(handled', received', queues', history', op'[u].msg)
             /\ op'[u].kind = "publishing" => \A h \in op'[u].rest : Below(handled'[h], op'[u].msg)
  <2>1. CASE u = t BY <1>1, <2>1 DEF Numbered
  <2>2. CASE u # t
    <3>1. op'[u] = op[u] BY <1>1, <2>2
    <3>2. op[u].kind # "publishing" BY <1>2, <2>2, HeadFacts
    <3>3. op[u].kind \in {"publish", "send"} => op[t].msg < op[u].msg
      BY <1>2, <2>2, HeadFacts DEF Numbered
    <3>4. op[u].kind \in {"publish", "send"} =>
            Delivered(handled', received', queues', history', op[u].msg)
      BY <1>3, <3>3 DEF OlderOut
    <3> QED BY <1>3, <3>1, <3>2, <3>4
  <2> QED BY <2>1, <2>2
<1> QED BY <1>6, <1>7 DEF OlderOut

LEMMA AddedFacts ==
  ASSUME BusAssumption, history \in Seq(Nat), NEW n \in Nat
  PROVE  /\ Added(n) \in Seq(Nat) /\ Len(Added(n)) <= MaxHistory
         /\ Increasing(history) /\ Below(history, n) => Increasing(Added(n))
         /\ \A m \in Nat : n < m /\ Below(history, m) => Below(Added(n), m)
<1>1. Append(history, n) \in Seq(Nat) OBVIOUS
<1>2. /\ Added(n) \in Seq(Nat) /\ Len(Added(n)) <= MaxHistory
      /\ Increasing(Append(history, n)) => Increasing(Added(n))
      /\ \A m \in Nat : Below(Append(history, n), m) => Below(Added(n), m)
  BY <1>1, LastOfOrdered, BusAssumption DEF Added, BusAssumption
<1>3. Increasing(history) /\ Below(history, n) => Increasing(Append(history, n))
  <2>1. n < n + 1 /\ n + 1 \in Nat OBVIOUS
  <2> QED BY <2>1, AppendOrdered
<1>4. \A m \in Nat : n < m /\ Below(history, m) => Below(Append(history, n), m)
  BY AppendOrdered
<1> QED BY <1>2, <1>3, <1>4

LEMMA PublishesKeeps ==
  ASSUME BusAssumption, BusInv, NEW t \in Tasks, Publishes(t) PROVE BusInv'
<1> USE DEF BusInv
<1> DEFINE n == op[t].msg
           x == [op[t] EXCEPT !.kind = "publishing", !.rest = subscribers[op[t].at]]
<1>1. QueueInv BY DEF QueueInv
<1>2. lockQueue # <<>> /\ lockQueue[1] = t /\ op[t] \in Operation /\ op[t].kind = "publish"
  BY OwnsFacts DEF Publishes
<1>3. op[t].at \in Topics /\ subscribers[op[t].at] \in SUBSET Handlers BY <1>2 DEF BusTypes
<1>4. op' = [op EXCEPT ![t] = x] BY <1>2 DEF Publishes, BusTypes
<1>5. x \in Operation /\ x.kind = "publishing" /\ x.msg = n /\ x.rest \in SUBSET Handlers
  BY <1>2, <1>3 DEF Operation, Kinds
<1> HIDE DEF x
<1>6. lockQueue' = lockQueue /\ history' = Added(n)
      /\ UNCHANGED <<subscribers, queues, created, handled, received>>
  BY DEF Publishes, LockWhileHandling
<1>7. n \in Nat /\ n <= created /\ Delivered(handled, received, queues, history, n)
  BY <1>2 DEF Operation, OlderOut
<1>8. history \in Seq(Nat) BY DEF BusTypes
<1>9. op[t].kind \in Numbered BY <1>2 DEF Numbered
<1>10. QueueInv' BY <1>1, <1>2, <1>4, <1>5, <1>6, <1>9, SameQueueKept
<1>11. \A m \in Nat : n < m /\ Delivered(handled, received, queues, history, m)
                        => Delivered(handled', received', queues', history', m)
  BY <1>6, <1>7, <1>8, AddedFacts DEF Delivered
<1>12. \A h \in x.rest : Below(handled'[h], x.msg) BY <1>5, <1>6, <1>7 DEF Delivered
<1>13. OlderOut'
  BY <1>2, <1>4, <1>5, <1>6, <1>7, <1>9, <1>11, <1>12, HolderDelivers
<1>14. MessagesInOrder'
  <2>1. Increasing(history') /\ Len(history') <= MaxHistory
    BY <1>6, <1>7, <1>8, AddedFacts DEF Delivered, MessagesInOrder
  <2> QED BY <1>6, <2>1 DEF MessagesInOrder
<1>15. BusTypes'
  <2>1. /\ queues' \in [Agents -> Seq(Nat)] /\ received' \in [Agents -> Seq(Nat)]
        /\ handled' \in [Handlers -> Seq(Nat)] /\ created' \in Nat
        /\ subscribers' \in [Topics -> SUBSET Handlers] /\ lockQueue' \in Seq(Tasks)
    BY <1>6 DEF BusTypes
  <2>2. history' \in Seq(Nat) BY <1>6, <1>7, <1>8, AddedFacts
  <2> QED BY <1>4, <1>5, <2>1, <2>2, OneTaskTyped
<1> QED BY <1>10, <1>13, <1>14, <1>15 DEF QueueInv

(* What both ways to hand a message to a handler have in common.           *)
LEMMA HandlingFacts ==
  ASSUME BusInv, NEW t \in Tasks, NEW h \in Handlers, op[t].kind = "publishing", h \in op[t].rest,
         handled' = [handled EXCEPT ![h] = Append(@, op[t].msg)],
         UNCHANGED <<subscribers, queues, history, created, received>>
  PROVE  /\ lockQueue # <<>> /\ lockQueue[1] = t /\ op[t].kind \in Numbered
         /\ op[t] \in Operation /\ op[t].msg <= created
         /\ handled' \in [Handlers -> Seq(Nat)]
         /\ \A g \in Handlers : g # h => handled'[g] = handled[g]
         /\ \A m \in Nat : op[t].msg < m /\ Delivered(handled, received, queues, history, m)
                             => Delivered(handled', received', queues', history', m)
         /\ MessagesInOrder'
<1> USE DEF BusInv
<1> DEFINE n == op[t].msg
<1>1. lockQueue # <<>> /\ lockQueue[1] = t BY DEF HolderFirst
<1>2. op[t] \in Operation /\ n \in Nat /\ n <= created BY DEF BusTypes, Operation, OlderOut
<1>3. handled[h] \in Seq(Nat) /\ Below(handled[h], n) BY DEF BusTypes, OlderOut
<1>4. handled'[h] = Append(handled[h], n) /\ \A g \in Handlers : g # h => handled'[g] = handled[g]
  BY DEF BusTypes
<1>5. Append(handled[h], n) \in Seq(Nat) BY <1>2, <1>3
<1>6. handled' \in [Handlers -> Seq(Nat)] BY <1>5 DEF BusTypes
<1>7. ASSUME NEW m \in Nat, n < m, Delivered(handled, received, queues, history, m)
      PROVE  Delivered(handled', received', queues', history', m)
  <2>1. Below(handled'[h], m) BY <1>2, <1>3, <1>4, <1>7, AppendOrdered DEF Delivered
  <2> QED BY <1>4, <1>7, <2>1 DEF Delivered
<1>8. Increasing(handled'[h])
  <2>1. Increasing(handled[h]) BY DEF MessagesInOrder
  <2>2. n < n + 1 /\ n + 1 \in Nat BY <1>2
  <2> QED BY <1>2, <1>3, <1>4, <2>1, <2>2, AppendOrdered
<1>9. MessagesInOrder' BY <1>4, <1>8 DEF MessagesInOrder
<1> QED BY <1>1, <1>2, <1>4, <1>6, <1>7, <1>9 DEF Numbered

LEMMA HandlesKeeps ==
  ASSUME BusInv, NEW t \in Tasks, NEW h \in Handlers, Handles(t, h) PROVE BusInv'
<1> USE DEF BusInv
<1> DEFINE n == op[t].msg
<1>1. QueueInv BY DEF QueueInv
<1>2. /\ op[t].kind = "publishing" /\ h \in op[t].rest
      /\ handled' = [handled EXCEPT ![h] = Append(@, op[t].msg)]
      /\ UNCHANGED <<subscribers, queues, history, created, received>>
  BY DEF Handles
<1>3. /\ lockQueue # <<>> /\ lockQueue[1] = t /\ op[t].kind \in Numbered
      /\ op[t] \in Operation /\ op[t].msg <= created
      /\ handled' \in [Handlers -> Seq(Nat)]
      /\ \A g \in Handlers : g # h => handled'[g] = handled[g]
      /\ \A m \in Nat : op[t].msg < m /\ Delivered(handled, received, queues, history, m)
                          => Delivered(handled', received', queues', history', m)
      /\ MessagesInOrder'
  BY <1>2, HandlingFacts
<1>4. /\ queues' \in [Agents -> Seq(Nat)] /\ received' \in [Agents -> Seq(Nat)]
      /\ history' \in Seq(Nat) /\ created' \in Nat /\ created' = created
      /\ subscribers' \in [Topics -> SUBSET Handlers]
  BY <1>2 DEF BusTypes
<1>5. CASE op[t].rest = {h}
  <2>1. lockQueue' = Without(lockQueue, t) /\ op' = [op EXCEPT ![t] = NoOperation]
    BY <1>5 DEF Handles
  <2>2. Leaves(lockQueue, lockQueue', t) BY <1>1, <1>2, <1>3, <2>1, HeadFacts
  <2>3. NoOperation.kind \in Resting /\ NoOperation.kind \notin Numbered
    BY NoOperationFacts DEF Resting, Numbered
  <2>4. NoOperation.msg <= created BY NoOperationFacts DEF BusTypes
  <2>5. QueueInv' BY <1>1, <2>1, <2>2, <2>3, NoOperationFacts, LeavingKeepsQueue
  <2>6. OlderOut' BY <1>3, <1>4, <2>1, <2>3, <2>4, NoOperationFacts, HolderDelivers
  <2>7. lockQueue' \in Seq(Tasks) BY <2>2 DEF Leaves
  <2>8. BusTypes' BY <1>3, <1>4, <2>1, <2>7, NoOperationFacts, OneTaskTyped
  <2> QED BY <1>3, <2>5, <2>6, <2>8 DEF QueueInv
<1>6. CASE op[t].rest # {h}
  <2> DEFINE x == [op[t] EXCEPT !.rest = @ \ {h}]
  <2>1. op' = [op EXCEPT ![t] = x] /\ lockQueue' = lockQueue
    BY <1>6 DEF Handles, BusTypes
  <2>2. x \in Operation /\ x.kind = "publishing" /\ x.msg = n /\ x.rest = op[t].rest \ {h}
    BY <1>2, <1>3 DEF Operation
  <2> HIDE DEF x
  <2>3. QueueInv' BY <1>1, <1>3, <2>1, <2>2, SameQueueKept
  <2>4. \A g \in x.rest : Below(handled'[g], x.msg)
    <3> SUFFICES ASSUME NEW g \in x.rest PROVE Below(handled'[g], x.msg) OBVIOUS
    <3>1. g \in Handlers /\ g # h /\ g \in op[t].rest BY <1>3, <2>2 DEF Operation
    <3>2. Below(handled[g], n) BY <1>2, <3>1 DEF OlderOut
    <3> QED BY <1>3, <2>2, <3>1, <3>2
  <2>5. OlderOut' BY <1>3, <1>4, <2>1, <2>2, <2>4, HolderDelivers
  <2>6. lockQueue' \in Seq(Tasks) BY <2>1 DEF BusTypes
  <2>7. BusTypes' BY <1>3, <1>4, <2>1, <2>2, <2>6, OneTaskTyped
  <2> QED BY <1>3, <2>3, <2>5, <2>7 DEF QueueInv
<1> QED BY <1>5, <1>6

LEMMA ReentersKeeps ==
  ASSUME BusInv, NEW t \in Tasks, NEW h \in Handlers, Reenters(t, h) PROVE BusInv'
<1> USE DEF BusInv
<1> DEFINE x == [op[t] EXCEPT !.kind = "frozen"]
<1>1. QueueInv BY DEF QueueInv
<1>2. /\ op[t].kind = "publishing" /\ h \in op[t].rest
      /\ handled' = [handled EXCEPT ![h] = Append(@, op[t].msg)]
      /\ UNCHANGED <<subscribers, queues, history, created, received>>
  BY DEF Reenters
<1>3. /\ lockQueue # <<>> /\ lockQueue[1] = t /\ op[t].kind \in Numbered
      /\ op[t] \in Operation /\ op[t].msg <= created
      /\ handled' \in [Handlers -> Seq(Nat)]
      /\ \A m \in Nat : op[t].msg < m /\ Delivered(handled, received, queues, history, m)
                          => Delivered(handled', received', queues', history', m)
      /\ MessagesInOrder'
  BY <1>2, HandlingFacts
<1>4. /\ queues' \in [Agents -> Seq(Nat)] /\ received' \in [Agents -> Seq(Nat)]
      /\ history' \in Seq(Nat) /\ created' \in Nat /\ created' = created
      /\ subscribers' \in [Topics -> SUBSET Handlers]
  BY <1>2 DEF BusTypes
<1>5. op' = [op EXCEPT ![t] = x] /\ lockQueue' = Append(lockQueue, t) BY DEF Reenters, BusTypes
<1>6. x \in Operation /\ x.kind = "frozen" /\ x.msg = op[t].msg BY <1>3 DEF Operation, Kinds
<1> HIDE DEF x
<1>7. x.kind \notin Numbered /\ x.kind \notin Resting BY <1>6 DEF Numbered, Resting
<1>8. QueueInv' BY <1>1, <1>2, <1>5, <1>6, <1>7, JoiningKeepsQueue
<1>9. x.msg <= created BY <1>3, <1>6
<1>10. OlderOut' BY <1>3, <1>4, <1>5, <1>6, <1>7, <1>9, HolderDelivers
<1>11. lockQueue' \in Seq(Tasks) BY <1>5 DEF BusTypes
<1>12. BusTypes' BY <1>3, <1>4, <1>5, <1>6, <1>11, OneTaskTyped
<1> QED BY <1>3, <1>8, <1>10, <1>12 DEF QueueInv

-----------------------------------------------------------------------------
LEMMA ReleaseFacts ==
  ASSUME BusInv, NEW t \in Tasks, Owns(t), Releases(t), op[t].kind # "frozen"
  PROVE  /\ QueueInv' /\ lockQueue' \in Seq(Tasks)
         /\ op' = [op EXCEPT ![t] = NoOperation]
         /\ NoOperation.kind \notin Numbered /\ NoOperation.msg <= created
<1> USE DEF BusInv
<1>1. QueueInv BY DEF QueueInv
<1>2. lockQueue # <<>> /\ lockQueue[1] = t BY OwnsFacts
<1>3. Leaves(lockQueue, lockQueue', t) BY <1>1, <1>2, HeadFacts DEF Releases
<1>4. op' = [op EXCEPT ![t] = NoOperation] BY DEF Releases
<1>5. NoOperation.kind \in Resting /\ NoOperation.kind \notin Numbered
  BY NoOperationFacts DEF Resting, Numbered
<1>6. QueueInv' BY <1>1, <1>3, <1>4, <1>5, NoOperationFacts, LeavingKeepsQueue
<1>7. NoOperation.msg <= created BY NoOperationFacts DEF BusTypes
<1>8. lockQueue' \in Seq(Tasks) BY <1>3 DEF Leaves
<1> QED BY <1>4, <1>5, <1>6, <1>7, <1>8

(* Messages only move on, or are dropped.                                  *)
LEMMA NothingNew ==
  ASSUME BusInv, NEW t \in Tasks, op' = [op EXCEPT ![t] = NoOperation],
         UNCHANGED <<created, handled>>,
         \A m \in Nat : Delivered(handled, received, queues, history, m)
                          => Delivered(handled', received', queues', history', m)
  PROVE  OlderOut'
<1> USE DEF BusInv
<1>1. op'[t] = NoOperation /\ \A u \in Tasks : u # t => op'[u] = op[u] BY DEF BusTypes
<1>2. \A u \in Tasks : op[u].msg \in Nat /\ op[u].msg <= created BY DEF BusTypes, Operation, OlderOut
<1>3. created \in Nat /\ created + 1 \in Nat BY DEF BusTypes
<1>4. Delivered(handled', received', queues', history', created' + 1) BY <1>3 DEF OlderOut
<1>5. ASSUME NEW u \in Tasks
      PROVE  /\ op'[u].msg <= created'
             /\ op'[u].kind \in {"publish", "send"} =>
                  Delivered(handled', received', queues', history', op'[u].msg)
             /\ op'[u].kind = "publishing" => \A h \in op'[u].rest : Below(handled'[h], op'[u].msg)
  <2>1. CASE u = t BY <1>1, <1>3, <2>1, NoOperationFacts
  <2>2. CASE u # t BY <1>1, <1>2, <2>2 DEF OlderOut
  <2> QED BY <2>1, <2>2
<1> QED BY <1>4, <1>5 DEF OlderOut

LEMMA SendsKeeps ==
  ASSUME BusAssumption, BusInv, NEW t \in Tasks, Sends(t) PROVE BusInv'
<1> USE DEF BusInv
<1> DEFINE n == op[t].msg
           a == op[t].who
<1>1. QueueInv' /\ lockQueue' \in Seq(Tasks) /\ op' = [op EXCEPT ![t] = NoOperation]
      /\ NoOperation.kind \notin Numbered /\ NoOperation.msg <= created
  BY ReleaseFacts DEF Sends
<1>2. /\ lockQueue # <<>> /\ lockQueue[1] = t /\ op[t] \in Operation
      /\ op[t].kind \in Numbered /\ op[t].kind = "send"
  BY OwnsFacts DEF Sends, Numbered
<1>3. a \in Agents /\ n \in Nat /\ n <= created
      /\ Delivered(handled, received, queues, history, n)
  BY <1>2 DEF BusTypes, Operation, OlderOut
<1>4. received[a] \in Seq(Nat) /\ queues[a] \in Seq(Nat) /\ history \in Seq(Nat)
  BY <1>3 DEF BusTypes
<1>5. /\ queues' = [queues EXCEPT ![a] = Append(@, n)] /\ history' = Added(n)
      /\ UNCHANGED <<subscribers, created, handled, received>>
  BY DEF Sends
<1>6. queues'[a] = Append(queues[a], n) /\ \A b \in Agents : b # a => queues'[b] = queues[b]
  BY <1>3, <1>5 DEF BusTypes
<1>7. received[a] \o queues'[a] = Append(received[a] \o queues[a], n)
      /\ received[a] \o queues[a] \in Seq(Nat)
  <2>1. received[a] \o Append(queues[a], n) = Append(received[a] \o queues[a], n)
    BY <1>3, <1>4, JoinAppend
  <2>2. received[a] \o queues[a] \in Seq(Nat) BY <1>4, JoinFacts
  <2> QED BY <1>6, <2>1, <2>2
<1>8. Below(received[a] \o queues[a], n) /\ Below(history, n) BY <1>3 DEF Delivered
<1>9. n < n + 1 /\ n + 1 \in Nat BY <1>3
<1>10. ASSUME NEW m \in Nat, n < m, Delivered(handled, received, queues, history, m)
       PROVE  Delivered(handled', received', queues', history', m)
  <2>1. Below(Append(received[a] \o queues[a], n), m)
    BY <1>3, <1>7, <1>8, <1>10, AppendOrdered
  <2>2. Below(history', m) BY <1>3, <1>4, <1>5, <1>10, AddedFacts DEF Delivered
  <2>3. \A b \in Agents : Below(received'[b] \o queues'[b], m)
    BY <1>5, <1>6, <1>7, <1>10, <2>1 DEF Delivered
  <2> QED BY <1>5, <1>10, <2>2, <2>3 DEF Delivered
<1>11. OlderOut' BY <1>1, <1>2, <1>5, <1>10, NoOperationFacts, HolderDelivers
<1>12. MessagesInOrder'
  <2>1. Increasing(received[a] \o queues[a]) /\ Increasing(history) BY <1>3 DEF MessagesInOrder
  <2>2. Increasing(Append(received[a] \o queues[a], n))
    BY <1>3, <1>7, <1>8, <1>9, <2>1, AppendOrdered
  <2>3. \A b \in Agents : Increasing(received'[b] \o queues'[b])
    BY <1>5, <1>6, <1>7, <2>2 DEF MessagesInOrder
  <2>4. Increasing(history') /\ Len(history') <= MaxHistory
    BY <1>3, <1>4, <1>5, <1>8, <2>1, AddedFacts
  <2> QED BY <1>5, <2>3, <2>4 DEF MessagesInOrder
<1>13. BusTypes'
  <2>1. Append(queues[a], n) \in Seq(Nat) BY <1>3, <1>4
  <2>2. queues' \in [Agents -> Seq(Nat)] BY <1>5, <2>1 DEF BusTypes
  <2>3. history' \in Seq(Nat) BY <1>3, <1>4, <1>5, AddedFacts
  <2>4. /\ received' \in [Agents -> Seq(Nat)] /\ handled' \in [Handlers -> Seq(Nat)]
        /\ created' \in Nat /\ subscribers' \in [Topics -> SUBSET Handlers]
    BY <1>5 DEF BusTypes
  <2> QED BY <1>1, <2>2, <2>3, <2>4, NoOperationFacts, OneTaskTyped
<1> QED BY <1>1, <1>11, <1>12, <1>13 DEF QueueInv

LEMMA TakesKeeps ==
  ASSUME BusInv, NEW t \in Tasks, Takes(t) PROVE BusInv'
<1> USE DEF BusInv
<1> DEFINE a == op[t].who
<1>1. QueueInv' /\ lockQueue' \in Seq(Tasks) /\ op' = [op EXCEPT ![t] = NoOperation]
  BY ReleaseFacts DEF Takes
<1>2. a \in Agents BY DEF Takes, BusTypes
<1>3. received[a] \in Seq(Nat) /\ queues[a] \in Seq(Nat) /\ queues[a] # <<>>
  BY <1>2 DEF Takes, BusTypes
<1>4. /\ queues' = [queues EXCEPT ![a] = Tail(@)]
      /\ received' = [received EXCEPT ![a] = Append(@, Head(queues[a]))]
      /\ UNCHANGED <<subscribers, history, created, handled>>
  BY DEF Takes
<1>5. /\ queues'[a] = Tail(queues[a]) /\ received'[a] = Append(received[a], Head(queues[a]))
      /\ \A b \in Agents : b # a => queues'[b] = queues[b] /\ received'[b] = received[b]
  BY <1>2, <1>4 DEF BusTypes
<1>6. /\ received'[a] \o queues'[a] = received[a] \o queues[a]
      /\ Tail(queues[a]) \in Seq(Nat) /\ Append(received[a], Head(queues[a])) \in Seq(Nat)
  <2>1. /\ Append(received[a], Head(queues[a])) \o Tail(queues[a]) = received[a] \o queues[a]
        /\ Tail(queues[a]) \in Seq(Nat) /\ Append(received[a], Head(queues[a])) \in Seq(Nat)
    BY <1>3, JoinMove
  <2> QED BY <1>5, <2>1
<1>7. \A b \in Agents : received'[b] \o queues'[b] = received[b] \o queues[b] BY <1>5, <1>6
<1>8. OlderOut'
  <2>1. \A m \in Nat : Delivered(handled, received, queues, history, m)
                         => Delivered(handled', received', queues', history', m)
    BY <1>4, <1>7 DEF Delivered
  <2> QED BY <1>1, <1>4, <2>1, NothingNew
<1>9. MessagesInOrder' BY <1>4, <1>7 DEF MessagesInOrder
<1>10. BusTypes'
  <2>1. queues' \in [Agents -> Seq(Nat)] /\ received' \in [Agents -> Seq(Nat)]
    BY <1>4, <1>6 DEF BusTypes
  <2>2. /\ handled' \in [Handlers -> Seq(Nat)] /\ history' \in Seq(Nat)
        /\ created' \in Nat /\ subscribers' \in [Topics -> SUBSET Handlers]
    BY <1>4 DEF BusTypes
  <2> QED BY <1>1, <2>1, <2>2, NoOperationFacts, OneTaskTyped
<1> QED BY <1>1, <1>8, <1>9, <1>10 DEF QueueInv

LEMMA ClearsKeeps ==
  ASSUME BusAssumption, BusInv, NEW t \in Tasks, Clears(t) PROVE BusInv'
<1> USE DEF BusInv
<1> DEFINE a == op[t].who
<1>1. QueueInv' /\ lockQueue' \in Seq(Tasks) /\ op' = [op EXCEPT ![t] = NoOperation]
  BY ReleaseFacts DEF Clears
<1>2. UNCHANGED <<subscribers, created, handled, received>> BY DEF Clears
<1>3. /\ handled' \in [Handlers -> Seq(Nat)] /\ received' \in [Agents -> Seq(Nat)]
      /\ created' \in Nat /\ subscribers' \in [Topics -> SUBSET Handlers]
  BY <1>2 DEF BusTypes
<1>4. <<>> \in Seq(Nat) OBVIOUS
<1>5. CASE op[t].kind = "clear_queue" /\ queues' = [queues EXCEPT ![op[t].who] = <<>>]
           /\ UNCHANGED history
  <2>1. a \in Agents BY <1>5 DEF BusTypes
  <2>2. received[a] \in Seq(Nat) /\ queues[a] \in Seq(Nat) BY <2>1 DEF BusTypes
  <2>3. queues'[a] = <<>> /\ \A b \in Agents : b # a => queues'[b] = queues[b]
    BY <1>5, <2>1 DEF BusTypes
  <2>4. \A m \in Nat : Below(received[a] \o queues[a], m) => Below(received[a] \o queues'[a], m)
    BY <2>2, <2>3, JoinCut
  <2>5. Increasing(received[a] \o queues[a]) => Increasing(received[a] \o queues'[a])
    BY <2>2, <2>3, JoinCut
  <2>6. \A m \in Nat : Delivered(handled, received, queues, history, m)
                         => Delivered(handled', received', queues', history', m)
    BY <1>2, <1>5, <2>3, <2>4 DEF Delivered
  <2>7. OlderOut' BY <1>1, <1>2, <2>6, NothingNew
  <2>8. MessagesInOrder' BY <1>2, <1>5, <2>1, <2>3, <2>5 DEF MessagesInOrder
  <2>9. queues' \in [Agents -> Seq(Nat)] /\ history' \in Seq(Nat)
    BY <1>4, <1>5 DEF BusTypes
  <2>10. BusTypes' BY <1>1, <1>3, <2>9, NoOperationFacts, OneTaskTyped
  <2> QED BY <1>1, <2>7, <2>8, <2>10 DEF QueueInv
<1>6. CASE op[t].kind = "clear_history" /\ history' = <<>> /\ UNCHANGED queues
  <2>1. \A m : Below(<<>>, m) BY DEF Below
  <2>2. Increasing(<<>>) /\ Len(<<>>) <= MaxHistory BY BusAssumption DEF Increasing, BusAssumption
  <2>3. \A m \in Nat : Delivered(handled, received, queues, history, m)
                         => Delivered(handled', received', queues', history', m)
    BY <1>2, <1>6, <2>1 DEF Delivered
  <2>4. OlderOut' BY <1>1, <1>2, <2>3, NothingNew
  <2>5. MessagesInOrder' BY <1>2, <1>6, <2>2 DEF MessagesInOrder
  <2>6. queues' \in [Agents -> Seq(Nat)] /\ history' \in Seq(Nat)
    BY <1>4, <1>6 DEF BusTypes
  <2>7. BusTypes' BY <1>1, <1>3, <2>6, NoOperationFacts, OneTaskTyped
  <2> QED BY <1>1, <2>4, <2>5, <2>7 DEF QueueInv
<1> QED BY <1>5, <1>6 DEF Clears

LEMMA BusStutters ==
  ASSUME BusInv, UNCHANGED busVars PROVE BusInv'
BY DEF busVars, BusInv, BusTypes, QueuedOnce, HolderFirst, InCallOrder, OlderOut, Delivered,
       MessagesInOrder

LEMMA OperationsKeep ==
  ASSUME BusInv, NEW t \in Tasks, Operations(t) PROVE BusInv'
<1>1. CASE \E p \in Topics : Call(t, "publish", p, Nobody) BY <1>1, CallKeeps DEF Kinds
<1>2. ASSUME NEW p \in Topics, NEW h \in Handlers,
             Call(t, "subscribe", p, h) \/ Call(t, "unsubscribe", p, h)
      PROVE  BusInv'
  BY <1>2, CallKeeps DEF Kinds
<1>3. ASSUME NEW a \in Agents,
             \/ Call(t, "send", Nobody, a) \/ Call(t, "receive", Nobody, a)
             \/ Call(t, "receive_nowait", Nobody, a) \/ Call(t, "clear_queue", Nobody, a)
      PROVE  BusInv'
  BY <1>3, CallKeeps DEF Kinds
<1>4. CASE Call(t, "clear_history", Nobody, Nobody) BY <1>4, CallKeeps DEF Kinds
<1> QED BY <1>1, <1>2, <1>3, <1>4 DEF Operations

(* The bus keeps its invariant: the lock is a queue in the order of the    *)
(* calls, held by the publisher while its handlers run, so a message is    *)
(* handed out after all that were created before it.                       *)
THEOREM BusInvariant == BusSpec => []BusInv
<1>1. BusInit => BusInv BY BusInitInv, BusAssumption
<1>2. BusInv /\ [BusNext]_busVars => BusInv'
  <2> SUFFICES ASSUME BusInv, [BusNext]_busVars PROVE BusInv' OBVIOUS
  <2>1. CASE UNCHANGED busVars BY <2>1, BusStutters
  <2>2. ASSUME NEW t \in Tasks,
               \/ Operations(t) \/ Unheard(t) \/ Publishes(t) \/ Subscription(t) \/ Sends(t)
               \/ Takes(t) \/ FindsNothing(t) \/ LooksAgain(t) \/ TimesOut(t)
               \/ Clears(t) \/ Cancelled(t)
               \/ \E h \in Handlers : Handles(t, h) \/ Reenters(t, h)
        PROVE  BusInv'
    <3>1. CASE Operations(t) BY <3>1, OperationsKeep
    <3>2. CASE Unheard(t) BY <3>2, UnheardKeeps
    <3>3. CASE Publishes(t) BY <3>3, PublishesKeeps, BusAssumption
    <3>4. CASE Subscription(t) BY <3>4, SubscriptionKeeps
    <3>5. CASE Sends(t) BY <3>5, SendsKeeps, BusAssumption
    <3>6. CASE Takes(t) BY <3>6, TakesKeeps
    <3>7. CASE FindsNothing(t) BY <3>7, FindsNothingKeeps
    <3>8. CASE LooksAgain(t) BY <3>8, LooksAgainKeeps
    <3>9. CASE TimesOut(t) BY <3>9, TimesOutKeeps
    <3>10. CASE Clears(t) BY <3>10, ClearsKeeps, BusAssumption
    <3>11. CASE Cancelled(t) BY <3>11, CancelledKeeps
    <3>12. CASE \E h \in Handlers : Handles(t, h) \/ Reenters(t, h)
      BY <3>12, HandlesKeeps, ReentersKeeps
    <3> QED BY <2>2, <3>1, <3>2, <3>3, <3>4, <3>5, <3>6, <3>7, <3>8, <3>9, <3>10, <3>11, <3>12
  <2> QED BY <2>1, <2>2 DEF BusNext
<1> QED BY <1>1, <1>2, PTL DEF BusSpec

(* No handler sees an older message after a newer one or one twice, what   *)
(* an agent receives is in the order it was sent, and the history shows    *)
(* that order, whatever number of tasks uses the bus and however they are  *)
(* cancelled.                                                              *)
THEOREM BusKeepsOrder == BusSpec => []MessagesInOrder
<1>1. BusInv => MessagesInOrder BY DEF BusInv
<1> QED BY <1>1, BusInvariant, PTL

-----------------------------------------------------------------------------
(***************************************************************************)
(* The context manager.                                                    *)
(***************************************************************************)
Dated == [id : Nat, at : Nat]

(* Entries are added with a new number and the time of day.                *)
InOrderOfAge(seq, n, time) ==
  /\ \A i, j \in DOMAIN seq : i < j => seq[i].id < seq[j].id /\ seq[i].at <= seq[j].at
  /\ \A i \in DOMAIN seq : seq[i].id <= n /\ seq[i].at <= time

ContextTypes ==
  /\ now \in 0..MaxTime /\ entries \in Nat /\ metrics \in Nat
  /\ shared \in [SharedKeys -> Nat] /\ deadline \in [SharedKeys -> Nat]
  /\ timers \subseteq SharedKeys \X Nat
  /\ ucfHistory \in Seq(Nat) /\ memory \in Seq(Dated) /\ learning \in Seq(Dated)

(* The timer of the value that is stored sleeps until its deadline.        *)
Timed ==
  \A k \in SharedKeys : shared[k] # NoWrite =>
    /\ now <= deadline[k]
    /\ deadline[k] = Never \/ <<k, deadline[k]>> \in timers

MetricsInOrder ==
  /\ metrics <= entries
  /\ metrics = 0 => ucfHistory = <<>>
  /\ Increasing(ucfHistory) /\ Below(ucfHistory, metrics)

WithinLimits == Len(ucfHistory) <= MaxHistoryPerAgent /\ Len(memory) <= MaxMemoryPerAgent

ContextInv ==
  /\ ContextTypes /\ Timed /\ MetricsInOrder /\ WithinLimits
  /\ InOrderOfAge(memory, entries, now) /\ InOrderOfAge(learning, entries, now)

LEMMA LeastNumber ==
  ASSUME NEW S \in SUBSET Nat, S # {}
  PROVE  Min(S) \in S /\ \A n \in S : Min(S) <= n
<1> DEFINE Smaller == OpToRel(<, Nat)
<1>1. Smaller = {p \in Nat \X Nat : p[1] < p[2]} BY DEF OpToRel
<1>2. IsWellFoundedOn(Smaller, Nat) BY NatLessThanWellFounded
<1> HIDE DEF Smaller
<1>3. PICK least \in S : \A n \in S : ~(<<n, least>> \in Smaller) BY <1>2, WFMin
<1>4. ASSUME NEW n \in S PROVE least <= n
  <2>1. ~(<<n, least>> \in Nat \X Nat /\ <<n, least>>[1] < <<n, least>>[2]) BY <1>1, <1>3
  <2> QED BY <2>1
<1>5. \E m \in S : \A n \in S : m <= n BY <1>3, <1>4
<1> QED BY <1>5 DEF Min

(* The end of a list, and the last of a list with one entry more.          *)
LEMMA EndInOrder ==
  ASSUME NEW n, NEW time, NEW s \in Seq(Dated), InOrderOfAge(s, n, time), NEW e \in Seq(Dated), NEW k \in Nat,
         \A i \in 1..Len(e) : i + k \in 1..Len(s) /\ e[i] = s[i + k]
  PROVE  InOrderOfAge(e, n, time)
<1>1. DOMAIN s = 1..Len(s) /\ DOMAIN e = 1..Len(e) OBVIOUS
<1>2. ASSUME NEW i \in DOMAIN e, NEW j \in DOMAIN e, i < j
      PROVE  e[i].id < e[j].id /\ e[i].at <= e[j].at
  <2>1. i + k < j + k /\ i + k \in DOMAIN s /\ j + k \in DOMAIN s BY <1>1, <1>2
  <2>2. e[i] = s[i + k] /\ e[j] = s[j + k] BY <1>1
  <2> QED BY <2>1, <2>2 DEF InOrderOfAge
<1>3. \A i \in DOMAIN e : e[i].id <= n /\ e[i].at <= time BY <1>1 DEF InOrderOfAge
<1> QED BY <1>2, <1>3 DEF InOrderOfAge

LEMMA YoungFacts ==
  ASSUME ContextAssumption, now \in Nat, NEW s \in Seq(Dated), InOrderOfAge(s, entries, now)
  PROVE  /\ Young(s) \in Seq(Dated) /\ Len(Young(s)) <= Len(s) /\ InOrderOfAge(Young(s), entries, now)
         /\ {Young(s)[i] : i \in DOMAIN Young(s)}
              = {s[i] : i \in {j \in DOMAIN s : s[j].at > now - MaxAge}}
<1> DEFINE young == {i \in DOMAIN s : s[i].at > now - MaxAge}
           l == Young(s)
<1>1. young \in SUBSET Nat /\ DOMAIN s = 1..Len(s) /\ Len(s) \in Nat OBVIOUS
<1>2. CASE young = {}
  <2>1. l = <<>> BY <1>2 DEF Young
  <2> QED BY <1>2, <2>1 DEF InOrderOfAge
<1>3. CASE young # {}
  <2> DEFINE k == Min(young) - 1
  <2>1. Min(young) \in young /\ \A i \in young : Min(young) <= i BY <1>1, <1>3, LeastNumber
  <2>2. l = SubSeq(s, Min(young), Len(s)) BY <1>3 DEF Young
  <2>3. k \in Nat /\ k <= Len(s) /\ k + 1 = Min(young) BY <1>1, <2>1
  <2> HIDE DEF k
  <2>4. /\ l \in Seq(Dated) /\ Len(l) = Len(s) - k
        /\ \A i \in 1..(Len(s) - k) : i + k \in 1..Len(s) /\ l[i] = s[i + k]
    <3>1. l = SubSeq(s, k + 1, Len(s)) BY <2>2, <2>3
    <3>2. /\ SubSeq(s, k + 1, Len(s)) \in Seq(Dated)
          /\ Len(SubSeq(s, k + 1, Len(s))) = Len(s) - k
          /\ \A i \in 1..(Len(s) - k) :
               i + k \in 1..Len(s) /\ SubSeq(s, k + 1, Len(s))[i] = s[i + k]
      BY <2>3, EndOfFacts
    <3> QED BY <3>1, <3>2
  <2> HIDE DEF l
  <2>5. InOrderOfAge(l, entries, now) BY <2>3, <2>4, EndInOrder
  <2>6. \A i \in DOMAIN s : i \in young <=> i > k
    <3> SUFFICES ASSUME NEW i \in DOMAIN s PROVE i \in young <=> i > k OBVIOUS
    <3>1. i \in young => i > k
      <4>1. i \in young => k + 1 <= i BY <2>1, <2>3
      <4>2. i \in Nat BY <1>1
      <4> HIDE DEF young
      <4> QED BY <2>3, <4>1, <4>2
    <3>2. ASSUME i > k PROVE i \in young
      <4>1. i = k + 1 \/ k + 1 < i BY <1>1, <2>3, <3>2
      <4>2. s[k + 1].at > now - MaxAge BY <2>1, <2>3
      <4>3. CASE i = k + 1 BY <4>2, <4>3
      <4>4. CASE k + 1 < i
        <5>1. k + 1 \in DOMAIN s BY <2>1, <2>3
        <5>2. s[k + 1].at <= s[i].at BY <4>4, <5>1 DEF InOrderOfAge
        <5>3. s[i] \in Dated /\ s[k + 1] \in Dated BY <5>1
        <5>4. s[i].at \in Nat /\ s[k + 1].at \in Nat BY <5>3 DEF Dated
        <5> QED BY <4>2, <5>2, <5>4, ContextAssumption DEF ContextAssumption
      <4> QED BY <4>1, <4>3, <4>4
    <3> QED BY <3>1, <3>2
  <2>7. DOMAIN l = 1..(Len(s) - k) BY <2>4
  <2>8. {l[i] : i \in DOMAIN l} \subseteq {s[i] : i \in young}
    <3> SUFFICES ASSUME NEW i \in DOMAIN l PROVE \E j \in young : l[i] = s[j] OBVIOUS
    <3>1. i + k \in DOMAIN s /\ l[i] = s[i + k] /\ i + k > k BY <1>1, <2>3, <2>4, <2>7
    <3>2. i + k \in young BY <2>6, <3>1
    <3> HIDE DEF young
    <3> QED BY <3>1, <3>2
  <2>9. {s[i] : i \in young} \subseteq {l[i] : i \in DOMAIN l}
    <3> SUFFICES ASSUME NEW j \in young PROVE \E i \in DOMAIN l : s[j] = l[i] OBVIOUS
    <3>1. j \in DOMAIN s /\ j > k BY <2>6
    <3>2. j - k \in DOMAIN l /\ (j - k) + k = j BY <1>1, <2>3, <2>7, <3>1
    <3>3. l[j - k] = s[j] BY <2>4, <2>7, <3>2
    <3> QED BY <3>2, <3>3
  <2>10. {l[i] : i \in DOMAIN l} = {s[i] : i \in young} BY <2>8, <2>9
  <2>11. Len(l) <= Len(s) BY <1>1, <2>3, <2>4
  <2> QED BY <2>4, <2>5, <2>10, <2>11 DEF l
<1> QED BY <1>2, <1>3

-----------------------------------------------------------------------------
(* A list takes an entry, of which it may keep the last only.              *)
LEMMA EntryAdded ==
  ASSUME ContextTypes, NEW s \in Seq(Dated), InOrderOfAge(s, entries, now), NEW n \in Nat
  PROVE  /\ Append(s, Entry) \in Seq(Dated)
         /\ InOrderOfAge(Append(s, Entry), entries + 1, now)
         /\ LastOf(Append(s, Entry), n) \in Seq(Dated)
         /\ Len(LastOf(Append(s, Entry), n)) <= n
         /\ InOrderOfAge(LastOf(Append(s, Entry), n), entries + 1, now)
<1> DEFINE e == Append(s, Entry)
           l == LastOf(e, n)
<1>1. Entry \in Dated /\ Entry.id = entries + 1 /\ Entry.at = now
  BY DEF Entry, Dated, ContextTypes
<1>2. now \in Nat /\ entries \in Nat BY DEF ContextTypes
<1> HIDE DEF Entry
<1>3. e \in Seq(Dated) BY <1>1
<1>4. /\ DOMAIN e = 1..(Len(s) + 1) /\ DOMAIN s = 1..Len(s) /\ Len(s) \in Nat
      /\ \A i \in DOMAIN s : e[i] = s[i] /\ s[i] \in Dated
      /\ e[Len(s) + 1] = Entry
  OBVIOUS
<1> HIDE DEF e
<1>5. \A i \in DOMAIN e : e[i] \in Dated /\ e[i].id \in Nat /\ e[i].at \in Nat
  <2>1. \A i \in DOMAIN e : e[i] \in Dated BY <1>3
  <2> QED BY <2>1 DEF Dated
<1>6. \A i \in DOMAIN s : e[i].id <= entries /\ e[i].at <= now BY <1>4 DEF InOrderOfAge
<1>7. \A i \in DOMAIN e : e[i].id <= entries + 1 /\ e[i].at <= now
  BY <1>1, <1>2, <1>4, <1>5, <1>6
<1>8. ASSUME NEW i \in DOMAIN e, NEW j \in DOMAIN e, i < j
      PROVE  e[i].id < e[j].id /\ e[i].at <= e[j].at
  <2>1. i \in DOMAIN s BY <1>4, <1>8
  <2>2. CASE j \in DOMAIN s BY <1>4, <1>8, <2>1, <2>2 DEF InOrderOfAge
  <2>3. CASE j = Len(s) + 1
    <3>1. e[i].id <= entries /\ e[i].at <= now /\ e[i].id \in Nat /\ e[i].at \in Nat
      BY <1>5, <1>6, <2>1, <1>8
    <3>2. e[j].id = entries + 1 /\ e[j].at = now BY <1>1, <1>4, <2>3
    <3> QED BY <1>2, <3>1, <3>2
  <2> QED BY <1>4, <2>2, <2>3
<1>9. InOrderOfAge(e, entries + 1, now) BY <1>7, <1>8 DEF InOrderOfAge
<1>10. l \in Seq(Dated) /\ Len(l) <= n BY <1>3, LastOfFacts
<1>11. PICK k \in Nat : \A i \in 1..Len(l) : i + k \in 1..Len(e) /\ l[i] = e[i + k]
  BY <1>3, LastOfFacts
<1> HIDE DEF l
<1>12. InOrderOfAge(l, entries + 1, now) BY <1>3, <1>9, <1>10, <1>11, EndInOrder
<1> QED BY <1>3, <1>9, <1>10, <1>12 DEF e, l

LEMMA StaysInOrder ==
  ASSUME NEW s \in Seq(Dated), NEW n \in Nat, NEW m \in Nat, NEW t \in Nat, NEW u \in Nat,
         n <= m, t <= u, InOrderOfAge(s, n, t)
  PROVE  InOrderOfAge(s, m, u)
<1>1. \A i \in DOMAIN s : s[i] \in Dated OBVIOUS
<1>2. \A i \in DOMAIN s : s[i].id \in Nat /\ s[i].at \in Nat BY <1>1 DEF Dated
<1>3. \A i \in DOMAIN s : s[i].id <= m /\ s[i].at <= u BY <1>2 DEF InOrderOfAge
<1> QED BY <1>3 DEF InOrderOfAge

LEMMA ContextInitInv ==
  ASSUME ContextAssumption, ContextInit PROVE ContextInv
<1> USE ContextAssumption DEF ContextInit, ContextAssumption
<1>1. ContextTypes BY DEF ContextTypes, Never, NoWrite
<1>2. Timed BY DEF Timed, NoWrite
<1>3. MetricsInOrder BY DEF MetricsInOrder, Increasing, Below
<1>4. WithinLimits BY DEF WithinLimits
<1>5. InOrderOfAge(<<>>, 0, 0) BY DEF InOrderOfAge
<1> QED BY <1>1, <1>2, <1>3, <1>4, <1>5 DEF ContextInv

(* The steps on the shared values.                                         *)
AgentPart == MetricsInOrder /\ WithinLimits /\ InOrderOfAge(memory, entries, now)
             /\ InOrderOfAge(learning, entries, now)

LEMMA AgentPartKept ==
  ASSUME ContextInv, UNCHANGED <<metrics, ucfHistory, memory, learning>>,
         now' \in Nat, now <= now', entries' \in Nat, entries <= entries'
  PROVE  AgentPart'
<1> USE DEF ContextInv
<1>1. now \in Nat /\ entries \in Nat /\ metrics \in Nat /\ memory \in Seq(Dated)
      /\ learning \in Seq(Dated)
  BY DEF ContextTypes
<1>2. InOrderOfAge(memory, entries', now') BY <1>1, StaysInOrder
<1>3. InOrderOfAge(learning, entries', now') BY <1>1, StaysInOrder
<1>4. MetricsInOrder' BY <1>1 DEF MetricsInOrder
<1>5. WithinLimits' BY DEF WithinLimits
<1> QED BY <1>2, <1>3, <1>4, <1>5 DEF AgentPart

LEMMA SetSharedKeeps ==
  ASSUME ContextAssumption, ContextInv, NEW k \in SharedKeys, NEW ttl \in TTLs, SetShared(k, ttl)
  PROVE  ContextInv'
<1> USE DEF ContextInv
<1>1. ttl \in Nat /\ MaxTime \in Nat BY ContextAssumption DEF ContextAssumption
<1>2. now \in Nat /\ now <= MaxTime /\ entries \in Nat BY <1>1 DEF ContextTypes
<1>3. entries' = entries + 1 /\ now' = now BY DEF SetShared
<1>4. AgentPart' BY <1>2, <1>3, AgentPartKept DEF SetShared
<1>5. /\ shared' = [shared EXCEPT ![k] = entries']
      /\ deadline' = [deadline EXCEPT ![k] = IF ttl > 0 THEN now + ttl ELSE Never]
      /\ timers' = IF ttl > 0 THEN timers \cup {<<k, now + ttl>>} ELSE timers
  BY DEF SetShared, TimersAfter
<1>6. Never \in Nat /\ now <= Never BY <1>1, <1>2 DEF Never
<1>7. ContextTypes'
  <2>1. shared' \in [SharedKeys -> Nat] /\ deadline' \in [SharedKeys -> Nat]
    BY <1>1, <1>2, <1>3, <1>5, <1>6 DEF ContextTypes
  <2>2. timers' \subseteq SharedKeys \X Nat BY <1>1, <1>2, <1>5 DEF ContextTypes
  <2> QED BY <1>2, <1>3, <2>1, <2>2 DEF SetShared, ContextTypes
<1>8. Timed'
  <2> SUFFICES ASSUME NEW j \in SharedKeys, shared'[j] # NoWrite
               PROVE  /\ now' <= deadline'[j]
                      /\ deadline'[j] = Never \/ <<j, deadline'[j]>> \in timers'
    BY DEF Timed, Never
  <2>1. CASE j = k
    <3>1. deadline'[j] = IF ttl > 0 THEN now + ttl ELSE Never BY <1>5, <2>1 DEF ContextTypes
    <3> QED BY <1>1, <1>2, <1>3, <1>5, <1>6, <2>1, <3>1
  <2>2. CASE j # k
    <3>1. deadline'[j] = deadline[j] /\ shared'[j] = shared[j] BY <1>5, <2>2 DEF ContextTypes
    <3>2. timers \subseteq timers' BY <1>5
    <3> QED BY <1>3, <3>1, <3>2 DEF Timed
  <2> QED BY <2>1, <2>2
<1> QED BY <1>4, <1>7, <1>8 DEF AgentPart

LEMMA DroppedKeeps ==
  ASSUME ContextAssumption, ContextInv, NEW k \in SharedKeys, Dropped(k), UNCHANGED now,
         UNCHANGED agentVars, timers' \subseteq timers,
         \A j \in SharedKeys, d \in Nat : j # k /\ <<j, d>> \in timers => <<j, d>> \in timers'
  PROVE  ContextInv'
<1> USE DEF ContextInv
<1>1. MaxTime \in Nat /\ now \in Nat /\ entries \in Nat
  BY ContextAssumption DEF ContextAssumption, ContextTypes
<1>2. AgentPart' BY <1>1, AgentPartKept DEF agentVars
<1>3. shared' = [shared EXCEPT ![k] = NoWrite] /\ deadline' = [deadline EXCEPT ![k] = Never]
  BY DEF Dropped
<1>4. ContextTypes' BY <1>1, <1>3 DEF ContextTypes, agentVars, NoWrite, Never
<1>5. Timed'
  <2> SUFFICES ASSUME NEW j \in SharedKeys, shared'[j] # NoWrite
               PROVE  /\ now' <= deadline'[j]
                      /\ deadline'[j] = Never \/ <<j, deadline'[j]>> \in timers'
    BY DEF Timed, Never
  <2>1. j # k /\ shared'[j] = shared[j] /\ deadline'[j] = deadline[j]
    BY <1>3 DEF ContextTypes
  <2>2. deadline[j] \in Nat BY DEF ContextTypes
  <2> QED BY <2>1, <2>2 DEF Timed
<1> QED BY <1>2, <1>4, <1>5 DEF AgentPart

LEMMA DeleteSharedKeeps ==
  ASSUME ContextAssumption, ContextInv, NEW k \in SharedKeys, DeleteShared(k) PROVE ContextInv'
BY DroppedKeeps DEF DeleteShared

LEMMA ExpireContextKeeps ==
  ASSUME ContextAssumption, ContextInv, NEW timer \in timers, ExpireContext(timer)
  PROVE  ContextInv'
<1>1. timer \in SharedKeys \X Nat BY DEF ContextInv, ContextTypes
<1>2. timer[1] \in SharedKeys BY <1>1
<1>3. \A j \in SharedKeys, d \in Nat : j # timer[1] /\ <<j, d>> \in timers => <<j, d>> \in timers'
  BY DEF ExpireContext
<1>4. timers' \subseteq timers /\ Dropped(timer[1]) /\ UNCHANGED now /\ UNCHANGED agentVars
  BY DEF ExpireContext
<1> QED BY <1>2, <1>3, <1>4, DroppedKeeps

(* Time stands still for a sleep that is over.                             *)
LEMMA TickKeeps ==
  ASSUME ContextAssumption, ContextInv, Tick PROVE ContextInv'
<1> USE DEF ContextInv
<1>1. MaxTime \in Nat /\ now \in Nat /\ now < MaxTime /\ now' = now + 1 /\ entries \in Nat
  BY ContextAssumption DEF ContextAssumption, ContextTypes, Tick
<1>2. AgentPart' BY <1>1, AgentPartKept DEF Tick, agentVars
<1>3. UNCHANGED <<shared, timers, deadline, metrics, ucfHistory, memory, learning, entries>>
  BY DEF Tick, sharedVars, agentVars
<1>4. ContextTypes' BY <1>1, <1>3 DEF ContextTypes
<1>5. Timed'
  <2> SUFFICES ASSUME NEW j \in SharedKeys, shared[j] # NoWrite
               PROVE  /\ now' <= deadline[j]
                      /\ deadline[j] = Never \/ <<j, deadline[j]>> \in timers
    BY <1>3 DEF Timed, Never
  <2>1. deadline[j] \in Nat BY DEF ContextTypes
  <2>2. CASE deadline[j] = Never BY <1>1, <2>2 DEF Never
  <2>3. CASE <<j, deadline[j]>> \in timers
    <3>1. <<j, deadline[j]>>[2] > now BY <2>3 DEF Tick
    <3> QED BY <1>1, <2>1, <2>3, <3>1
  <2> QED BY <2>2, <2>3 DEF Timed
<1> QED BY <1>2, <1>4, <1>5 DEF AgentPart

-----------------------------------------------------------------------------
(* The steps on what is kept of the agent.                                 *)
LEMMA SharedPartKept ==
  ASSUME ContextInv, UNCHANGED now, UNCHANGED sharedVars PROVE Timed'
BY DEF ContextInv, Timed, sharedVars, Never

LEMMA UpdateMetricsKeeps ==
  ASSUME ContextAssumption, ContextInv, UpdateMetrics PROVE ContextInv'
<1> USE DEF ContextInv
<1>1. now \in Nat /\ entries \in Nat /\ metrics \in Nat /\ ucfHistory \in Seq(Nat)
      /\ memory \in Seq(Dated) /\ learning \in Seq(Dated) /\ MaxHistoryPerAgent \in Nat
  BY ContextAssumption DEF ContextAssumption, ContextTypes
<1>2. entries' = entries + 1 /\ metrics' = entries + 1 /\ now' = now
      /\ memory' = memory /\ learning' = learning
  BY DEF UpdateMetrics, CreatesEntry
<1>3. Timed' BY SharedPartKept DEF UpdateMetrics
<1>4. InOrderOfAge(memory', entries', now') /\ InOrderOfAge(learning', entries', now')
  <2>1. entries + 1 \in Nat /\ entries <= entries + 1 /\ now <= now BY <1>1
  <2>2. InOrderOfAge(memory, entries + 1, now) BY <1>1, <2>1, StaysInOrder
  <2>3. InOrderOfAge(learning, entries + 1, now) BY <1>1, <2>1, StaysInOrder
  <2> QED BY <1>2, <2>2, <2>3
<1>5. /\ ucfHistory' \in Seq(Nat) /\ Increasing(ucfHistory') /\ Below(ucfHistory', entries + 1)
      /\ Len(ucfHistory') <= MaxHistoryPerAgent
  <2>1. CASE metrics = 0
    <3>1. ucfHistory' = <<>> BY <2>1 DEF UpdateMetrics, MetricsInOrder
    <3> QED BY <1>1, <3>1 DEF Increasing, Below
  <2>2. CASE metrics # 0
    <3> DEFINE l == Append(ucfHistory, metrics)
    <3>1. metrics < entries + 1 /\ entries + 1 \in Nat BY <1>1 DEF MetricsInOrder
    <3>2. l \in Seq(Nat) /\ Increasing(l) /\ Below(l, entries + 1)
      BY <1>1, <3>1, AppendOrdered DEF MetricsInOrder
    <3>3. ucfHistory' = LastOf(l, MaxHistoryPerAgent) BY <2>2 DEF UpdateMetrics
    <3> HIDE DEF l
    <3> QED BY <1>1, <3>1, <3>2, <3>3, LastOfOrdered
  <2> QED BY <2>1, <2>2
<1>6. ContextTypes'
  BY <1>1, <1>2, <1>5 DEF ContextTypes, UpdateMetrics, sharedVars
<1>7. MetricsInOrder' BY <1>1, <1>2, <1>5 DEF MetricsInOrder
<1>8. WithinLimits' BY <1>2, <1>5 DEF WithinLimits
<1> QED BY <1>3, <1>4, <1>6, <1>7, <1>8

LEMMA AddMemoryKeeps ==
  ASSUME ContextAssumption, ContextInv, AddMemory PROVE ContextInv'
<1> USE DEF ContextInv
<1>1. now \in Nat /\ entries \in Nat /\ metrics \in Nat /\ ucfHistory \in Seq(Nat)
      /\ memory \in Seq(Dated) /\ learning \in Seq(Dated) /\ MaxMemoryPerAgent \in Nat
  BY ContextAssumption DEF ContextAssumption, ContextTypes
<1>2. entries' = entries + 1 /\ now' = now /\ learning' = learning
      /\ metrics' = metrics /\ ucfHistory' = ucfHistory
      /\ memory' = LastOf(Append(memory, Entry), MaxMemoryPerAgent)
  BY DEF AddMemory, CreatesEntry
<1>3. Timed' BY SharedPartKept DEF AddMemory
<1>4. /\ memory' \in Seq(Dated) /\ Len(memory') <= MaxMemoryPerAgent
      /\ InOrderOfAge(memory', entries + 1, now)
  BY <1>1, <1>2, EntryAdded
<1>5. InOrderOfAge(learning, entries + 1, now)
  <2>1. entries + 1 \in Nat /\ entries <= entries + 1 /\ now <= now BY <1>1
  <2> QED BY <1>1, <2>1, StaysInOrder
<1>6. ContextTypes' BY <1>1, <1>2, <1>4 DEF ContextTypes, AddMemory, sharedVars
<1>7. MetricsInOrder' BY <1>1, <1>2 DEF MetricsInOrder
<1>8. WithinLimits' BY <1>2, <1>4 DEF WithinLimits
<1> QED BY <1>2, <1>3, <1>4, <1>5, <1>6, <1>7, <1>8

LEMMA ClearMemoryKeeps ==
  ASSUME ContextAssumption, ContextInv, ClearMemory PROVE ContextInv'
<1> USE DEF ContextInv
<1>1. now' = now /\ entries' = entries /\ learning' = learning /\ memory' = <<>>
      /\ metrics' = metrics /\ ucfHistory' = ucfHistory
  BY DEF ClearMemory
<1>2. Timed' BY SharedPartKept DEF ClearMemory
<1>3. InOrderOfAge(<<>>, entries, now) BY DEF InOrderOfAge
<1>4. ContextTypes' BY <1>1 DEF ContextTypes, ClearMemory, sharedVars
<1>5. MetricsInOrder' BY <1>1 DEF MetricsInOrder
<1>6. WithinLimits' BY <1>1, ContextAssumption DEF WithinLimits, ContextAssumption
<1> QED BY <1>1, <1>2, <1>3, <1>4, <1>5, <1>6

LEMMA AddLearningKeeps ==
  ASSUME ContextAssumption, ContextInv, AddLearning PROVE ContextInv'
<1> USE DEF ContextInv
<1>1. now \in Nat /\ entries \in Nat /\ metrics \in Nat /\ ucfHistory \in Seq(Nat)
      /\ memory \in Seq(Dated) /\ learning \in Seq(Dated)
  BY ContextAssumption DEF ContextAssumption, ContextTypes
<1>2. entries' = entries + 1 /\ now' = now /\ memory' = memory
      /\ metrics' = metrics /\ ucfHistory' = ucfHistory /\ learning' = Append(learning, Entry)
  BY DEF AddLearning, CreatesEntry
<1>3. Timed' BY SharedPartKept DEF AddLearning
<1>4. learning' \in Seq(Dated) /\ InOrderOfAge(learning', entries + 1, now)
  <2>1. 0 \in Nat OBVIOUS
  <2> QED BY <1>1, <1>2, <2>1, EntryAdded
<1>5. InOrderOfAge(memory, entries + 1, now)
  <2>1. entries + 1 \in Nat /\ entries <= entries + 1 /\ now <= now BY <1>1
  <2> QED BY <1>1, <2>1, StaysInOrder
<1>6. ContextTypes' BY <1>1, <1>2, <1>4 DEF ContextTypes, AddLearning, sharedVars
<1>7. MetricsInOrder' BY <1>1, <1>2 DEF MetricsInOrder
<1>8. WithinLimits' BY <1>2 DEF WithinLimits
<1> QED BY <1>2, <1>3, <1>4, <1>5, <1>6, <1>7, <1>8

LEMMA CleanupKeeps ==
  ASSUME ContextAssumption, ContextInv, Cleanup PROVE ContextInv'
<1> USE DEF ContextInv
<1>1. now \in Nat /\ memory \in Seq(Dated) /\ learning \in Seq(Dated)
      /\ MaxMemoryPerAgent \in Nat
  BY ContextAssumption DEF ContextAssumption, ContextTypes
<1>2. now' = now /\ entries' = entries /\ metrics' = metrics /\ ucfHistory' = ucfHistory
      /\ memory' = Young(memory) /\ learning' = Young(learning)
  BY DEF Cleanup
<1>3. /\ memory' \in Seq(Dated) /\ Len(memory') <= Len(memory)
      /\ InOrderOfAge(memory', entries, now)
  BY <1>1, <1>2, YoungFacts
<1>4. learning' \in Seq(Dated) /\ InOrderOfAge(learning', entries, now)
  BY <1>1, <1>2, YoungFacts
<1>5. Timed' BY SharedPartKept DEF Cleanup
<1>6. ContextTypes' BY <1>2, <1>3, <1>4 DEF ContextTypes, Cleanup, sharedVars
<1>7. MetricsInOrder' BY <1>2 DEF MetricsInOrder
<1>8. WithinLimits'
  <2>1. Len(memory) \in Nat /\ Len(memory') \in Nat BY <1>1, <1>3
  <2> QED BY <1>1, <1>2, <1>3, <2>1 DEF WithinLimits
<1> QED BY <1>2, <1>3, <1>4, <1>5, <1>6, <1>7, <1>8

(* The context manager keeps its invariant: for every value with a time to *)
(* live a timer sleeps until its deadline, whatever timers of earlier      *)
(* values wake before, and time waits for a timer that is due.             *)
THEOREM ContextInvariant == ContextSpec => []ContextInv
<1>1. ContextInit => ContextInv BY ContextInitInv, ContextAssumption
<1>2. ContextInv /\ [ContextNext]_contextVars => ContextInv'
  <2> SUFFICES ASSUME ContextInv, [ContextNext]_contextVars PROVE ContextInv' OBVIOUS
  <2>1. CASE UNCHANGED contextVars
    BY <2>1 DEF contextVars, ContextInv, ContextTypes, Timed, MetricsInOrder, WithinLimits,
                InOrderOfAge, Never
  <2>2. ASSUME NEW k \in SharedKeys,
               DeleteShared(k) \/ \E ttl \in TTLs : SetShared(k, ttl)
        PROVE  ContextInv'
    BY <2>2, DeleteSharedKeeps, SetSharedKeeps, ContextAssumption
  <2>3. ASSUME NEW timer \in timers, ExpireContext(timer) PROVE ContextInv'
    BY <2>3, ExpireContextKeeps, ContextAssumption
  <2>4. CASE Tick BY <2>4, TickKeeps, ContextAssumption
  <2>5. CASE UpdateMetrics BY <2>5, UpdateMetricsKeeps, ContextAssumption
  <2>6. CASE AddMemory BY <2>6, AddMemoryKeeps, ContextAssumption
  <2>7. CASE ClearMemory BY <2>7, ClearMemoryKeeps, ContextAssumption
  <2>8. CASE AddLearning BY <2>8, AddLearningKeeps, ContextAssumption
  <2>9. CASE Cleanup BY <2>9, CleanupKeeps, ContextAssumption
  <2> QED BY <2>1, <2>2, <2>3, <2>4, <2>5, <2>6, <2>7, <2>8, <2>9 DEF ContextNext
<1> QED BY <1>1, <1>2, PTL DEF ContextSpec

LEMMA IdsInOrder ==
  ASSUME NEW s \in Seq(Dated), InOrderOfAge(s, entries, now) PROVE Increasing(Ids(s))
<1>1. Len(Ids(s)) = Len(s) /\ \A i \in 1..Len(s) : Ids(s)[i] = s[i].id BY DEF Ids
<1> QED BY <1>1 DEF Increasing, InOrderOfAge

(* No shared value outlives its own time to live, and what is kept of an   *)
(* agent stays in order and within its limits, for any keys, times to live *)
(* and limits.                                                             *)
THEOREM ContextNeverStale == ContextSpec => []NothingStale
<1>1. ContextInv => NothingStale
  <2> SUFFICES ASSUME ContextInv PROVE NothingStale OBVIOUS
  <2> USE DEF ContextInv
  <2>1. ucfHistory \in Seq(Nat) /\ metrics \in Nat /\ memory \in Seq(Dated)
        /\ learning \in Seq(Dated)
    BY DEF ContextTypes
  <2>2. Increasing(Append(ucfHistory, IF metrics = 0 THEN 1 ELSE metrics))
    <3>1. CASE metrics = 0 BY <3>1 DEF MetricsInOrder, Increasing
    <3>2. CASE metrics # 0
      <4>1. metrics < metrics + 1 /\ metrics + 1 \in Nat BY <2>1
      <4> QED BY <2>1, <3>2, <4>1, AppendOrdered DEF MetricsInOrder
    <3> QED BY <3>1, <3>2
  <2>3. Increasing(Ids(memory)) BY <2>1, IdsInOrder
  <2>4. Increasing(Ids(learning)) BY <2>1, IdsInOrder
  <2> QED BY <2>2, <2>3, <2>4 DEF NothingStale, Timed, WithinLimits
<1> QED BY <1>1, ContextInvariant, PTL

-----------------------------------------------------------------------------
(* The gateway.                                                            *)
Phases == {"idle", "keying", "connecting", "getting", "calling", "setting", "tracking",
           "falling", "streaming", "gemini", "done"}

Requests == Asks \cup {NoAsk}
Names  == ToSet(Order) \cup {None, "google"} \cup {ask.provider : ask \in Asks}
Owners == {None, "platform"} \cup {ask.user : ask \in Asks}
Models == {None, "unknown"} \cup {DefaultModel[name] : name \in Listed}
            \cup {ask.model : ask \in Asks}

Answers == [name : Names, owner : Owners, model : Models, text : {ask.text : ask \in Requests},
            content : BOOLEAN, error : BOOLEAN, cached : BOOLEAN]

Coroutines ==
  [pc : Phases, ask : Requests, chat : BOOLEAN, name : Names, owner : Owners,
   model : Models, attempt : Nat, calls : Seq(Names \X Owners), tried : Nat,
   use : {None, "getting", "setting"}, out : Seq({"token", "answer", "empty"}),
   answer : Answers, raised : BOOLEAN, charged : Nat]

Registry(names) ==
  /\ names \in Seq(Keys)
  /\ \A i, j \in DOMAIN names : names[i] = names[j] => i = j

ProvidersInv == \/ providers = Unset /\ \A c \in Callers : st[c].pc = "idle"
                \/ Registry(providers)

(* Only an answer of the platform's key that says something is stored, as  *)
(* what it is.                                                             *)
Storable(r) == r.owner = "platform" /\ r.content /\ ~r.error /\ r.name \in Keys
CacheInv ==
  \A key \in DOMAIN cache :
    /\ cache[key] \in Answers /\ Storable(cache[key])
    /\ key = <<Label(cache[key].name), cache[key].model, cache[key].text>>

(* Where a request stands before its call, with its call, and once the     *)
(* platform's other providers are called in the place of its own.          *)
At(s, pc) == s.pc = pc \/ (s.pc = "connecting" /\ s.use = pc)
Uncalled(s) ==
  /\ s.calls = <<>> /\ s.tried = 0
  /\ s.pc = "keying" => s.name # None /\ s.ask.user # None
  /\ s.pc \in {"streaming", "gemini"} => ~s.chat
  /\ At(s, "getting") => Cacheable(s) /\ s.chat /\ s.name \in Keys /\ s.owner = "platform"

Called(s) ==
  /\ s.calls = <<<<s.name, s.owner>>>> /\ s.tried = 0 /\ s.name # None
  /\ s.ask.user = None => s.owner = "platform" /\ s.name \in Keys
  /\ At(s, "setting") => Cacheable(s)
  /\ s.pc = "tracking" => s.ask.user # None
  /\ s.pc # "calling" => \E content \in BOOLEAN :
                           /\ s.answer = Answer(s.name, s.owner, s.model, s.ask, content)
                           /\ s.chat
                           /\ At(s, "setting") => content

Eligible(s, names) ==
  {p \in DOMAIN names : names[p] # Label(s.name) /\ names[p] \in Listed}
Fallen(s, names) ==
  /\ s.chat /\ s.name # None
  /\ s.calls # <<>> /\ s.calls[1] = <<s.name, s.owner>>
  /\ \A i \in 2..Len(s.calls) :
       \E p \in Eligible(s, names) : p <= s.tried /\ s.calls[i] = <<names[p], "platform">>
  /\ \A p \in Eligible(s, names) :
       p <= s.tried => \E i \in 2..Len(s.calls) : s.calls[i] = <<names[p], "platform">>
  /\ \A i, j \in 2..Len(s.calls) : s.calls[i] = s.calls[j] => i = j

(* What the two properties say of one request.                             *)
Scoped(s) ==
  s.answer.cached =>
    /\ s.pc = "done" /\ Cacheable(s)
    /\ s.answer.text = s.ask.text /\ s.answer.model = s.model
    /\ s.answer.name \in Keys /\ s.name \in Keys
    /\ Label(s.answer.name) = Label(s.name)
Accounted(s, names) ==
  /\ s.answer.error =>
       /\ ~s.answer.content
       /\ IF s.answer.name = None
          THEN s.calls = <<>> /\ s.owner = None
          ELSE /\ s.calls # <<>>
               /\ \A p \in Eligible(s, names) :
                    \E i \in 1..Len(s.calls) : s.calls[i][1] = names[p]
  /\ s.calls # <<>> => s.calls[1] = <<s.name, s.owner>>
  /\ ~s.answer.error /\ ~s.answer.cached =>
       s.calls # <<>> /\ Last(s.calls) = <<s.answer.name, s.answer.owner>>
  /\ \A i \in 2..Len(s.calls) :
       \E p \in Eligible(s, names) : s.calls[i] = <<names[p], "platform">>
  /\ \A i, j \in 2..Len(s.calls) : s.calls[i] = s.calls[j] => i = j
  /\ s.charged > 0 => s.charged = 1 /\ Len(s.calls) = 1 /\ s.ask.user # None

Sound(s, names) ==
  /\ s \in Coroutines
  /\ Scoped(s)
  /\ s.pc # "done" => s.charged = 0
  /\ s.pc = "connecting" => s.use \in {"getting", "setting"}
  /\ s.pc \in {"idle", "keying", "streaming", "gemini"} \/ At(s, "getting") => Uncalled(s)
  /\ s.pc \in {"calling", "tracking"} \/ At(s, "setting") => Called(s)
  /\ s.pc = "falling" => Fallen(s, names) /\ Len(s.calls) > 1
  /\ s.pc = "done" /\ s.chat => Accounted(s, names)

GatewayInv ==
  /\ redis \in {"none", "on", "off"} /\ st \in [Callers -> Coroutines]
  /\ ProvidersInv
  /\ CacheInv
  /\ \A c \in Callers : Sound(st[c], providers)

LEMMA OrderNames ==
  ToSet(Order) = {"anthropic", "openai", "xai", "perplexity", "openrouter", "groq",
                  "mistral", "nvidia_nim", "minimax", "google_gemini", "cohere",
                  "local", "helix_native"}
<1> DEFINE all == {"anthropic", "openai", "xai", "perplexity", "openrouter", "groq",
                   "mistral", "nvidia_nim", "minimax", "google_gemini", "cohere",
                   "local", "helix_native"}
<1>1. DOMAIN Order = 1..13 BY DEF Order
<1>2. \A name : name \in ToSet(Order) <=> \E i \in 1..13 : name = Order[i] BY <1>1 DEF ToSet
<1>3. \A i \in 1..13 : Order[i] \in all BY DEF Order
<1>4. \A name \in all : \E i \in 1..13 : name = Order[i] BY DEF Order
<1> QED BY <1>2, <1>3, <1>4

LEMMA KeyFacts ==
  ASSUME NEW k \in Keys
  PROVE  k \in ToSet(Order) /\ k # None /\ Rank(k) \in Nat
<1>1. k \in ToSet(Order) BY GatewayAssumption
<1>2. PICK i \in DOMAIN Order : k = Order[i] BY <1>1 DEF ToSet
<1>3. Rank(k) \in DOMAIN Order BY <1>2 DEF Rank
<1>4. DOMAIN Order = 1..13 BY DEF Order
<1>5. k # None BY <1>1, OrderNames DEF None
<1> QED BY <1>1, <1>3, <1>4, <1>5

LEMMA KeysFinite == IsFiniteSet(Keys)
<1>1. 1 \in Int /\ 13 \in Int OBVIOUS
<1>2. IsFiniteSet(1..13) BY <1>1, FS_Interval
<1>3. DOMAIN Order = 1..13 /\ Order = [i \in 1..13 |-> Order[i]] BY DEF Order
<1>4. Order \in Surjection(1..13, ToSet(Order)) BY <1>3 DEF ToSet, Surjection
<1>5. IsFiniteSet(ToSet(Order)) BY <1>2, <1>4, FS_Surjection
<1> QED BY <1>5, GatewayAssumption, FS_Subset

(* _ensure_init registers every provider once.                             *)
LEMMA RegistriesFacts ==
  ASSUME NEW names \in Registries PROVE Registry(names)
<1>1. Cardinality(Keys) \in Nat BY KeysFinite, FS_CardinalityType
<1>2. PICK n \in 0..Cardinality(Keys) : names \in [1..n -> Keys] BY DEF Registries
<1>3. n \in Nat BY <1>1, <1>2
<1>4. \A i, j \in DOMAIN names : i < j => Rank(names[i]) < Rank(names[j]) BY DEF Registries
<1>5. DOMAIN names = 1..n /\ \A i \in 1..n : names[i] \in Keys BY <1>2
<1>6. names \in Seq(Keys) BY <1>2, <1>3
<1>7. ASSUME NEW i \in DOMAIN names, NEW j \in DOMAIN names, names[i] = names[j] PROVE i = j
  <2>1. Rank(names[i]) \in Nat /\ Rank(names[j]) \in Nat BY <1>5, KeyFacts
  <2>2. i \in Int /\ j \in Int BY <1>5, <1>3
  <2>3. ~(i < j) BY <2>1, <1>4, <1>7
  <2>4. ~(j < i) BY <2>1, <1>4, <1>7
  <2> QED BY <2>2, <2>3, <2>4
<1> QED BY <1>6, <1>7 DEF Registry

LEMMA RegistryFacts ==
  ASSUME NEW names, Registry(names)
  PROVE  names \in Seq(Names) /\ \A i \in DOMAIN names : names[i] # None
<1>1. names \in Seq(Keys) BY DEF Registry
<1>2. \A i \in 1..Len(names) : names[i] \in Keys BY <1>1
<1>3. \A i \in 1..Len(names) : names[i] \in Names /\ names[i] # None
  BY <1>2, KeyFacts DEF Names
<1>4. names = [i \in 1..Len(names) |-> names[i]] /\ Len(names) \in Nat BY <1>1
<1> QED BY <1>1, <1>3, <1>4

(* The names the gateway gives to providers and to models.                 *)
LEMMA DefaultFacts == ASSUME NEW name PROVE Default(name) \in Models
  BY DEF Default, Models

LEMMA InferFacts == ASSUME NEW model PROVE Infer(model) \in Names
<1>1. \A m \in DOMAIN Inferred :
        Inferred[m] \in {"anthropic", "openai", "xai", "perplexity", "mistral", "groq",
                         "minimax", "google", "local", "openrouter", "nvidia_nim", "cohere"}
  BY DEF Inferred
<1> QED BY <1>1, OrderNames DEF Infer, Names

LEMMA ModelFacts ==
  ASSUME NEW ask \in Requests, NEW name PROVE ModelFor(ask, name) \in Models
  BY DefaultFacts DEF ModelFor, Requests, Models, NoAsk, Request

LEMMA FirstFacts ==
  ASSUME NEW seq \in Seq(Names), NEW able \in SUBSET (DOMAIN seq)
  PROVE  FirstOf(seq, able) \in Names
<1>1. CASE able = {} BY <1>1 DEF FirstOf, Names
<1>2. CASE able # {}
  <2>1. able \subseteq Nat OBVIOUS
  <2>2. Min(able) \in able BY <1>2, <2>1, LeastNumber
  <2> QED BY <1>2, <2>2 DEF FirstOf
<1> QED BY <1>1, <1>2

LEMMA PreferenceNames == Preference \in Seq(Names) /\ StreamPreference \in Seq(Names)
<1>1. {"anthropic", "xai", "openai", "perplexity", "openrouter", "helix_native", "local"}
        \subseteq Names
  BY OrderNames DEF Names
<1>2. Preference \in Seq(Names) BY <1>1 DEF Preference
<1>3. StreamPreference \in Seq(Names) BY <1>1 DEF StreamPreference
<1> QED BY <1>2, <1>3

LEMMA TargetFacts ==
  ASSUME NEW ask \in Requests, Registry(providers)
  PROVE  Target(ask) \in Names /\ Selected(ask) \in Names
<1>1. providers \in Seq(Names) BY RegistryFacts
<1>2. ask.provider \in Names
  <2>1. CASE ask = NoAsk BY <2>1 DEF NoAsk, Names, Request
  <2>2. CASE ask \in Asks BY <2>2 DEF Names
  <2> QED BY <2>1, <2>2 DEF Requests
<1>3. <<ask.provider, Infer(ask.model)>> \in Seq(Names) BY <1>2, InferFacts
<1>4. <<ask.provider, Infer(ask.model)>> \o Preference \o providers \in Seq(Names)
  BY <1>1, <1>3, PreferenceNames
<1>5. <<ask.provider, Infer(ask.model)>> \o StreamPreference \o providers \in Seq(Names)
  BY <1>1, <1>3, PreferenceNames
<1>6. Target(ask) \in Names BY <1>4, FirstFacts DEF Target
<1>7. Selected(ask) \in Names BY <1>5, FirstFacts DEF Selected
<1> QED BY <1>6, <1>7

LEMMA PlatformKeyFacts ==
  ASSUME NEW name, Registry(providers)
  PROVE  PlatformKey(name) \in {None, "platform"} /\ (name = None => PlatformKey(name) = None)
<1>1. None \notin Configured BY RegistryFacts DEF Configured, ToSet
<1> QED BY <1>1 DEF PlatformKey

LEMMA AnswerFacts ==
  ASSUME NEW name \in Names, NEW owner \in Owners, NEW model \in Models, NEW ask \in Requests,
         NEW content \in BOOLEAN
  PROVE  LET a == Answer(name, owner, model, ask, content)
         IN  /\ a \in Answers /\ ~a.cached /\ ~a.error /\ a.content = content
             /\ a.name = name /\ a.owner = owner /\ a.model = model /\ a.text = ask.text
<1>1. ask.text \in {a.text : a \in Requests} OBVIOUS
<1> QED BY <1>1 DEF Answer, Answers

LEMMA FailureFacts ==
  ASSUME NEW name \in Names, NEW model \in Models, NEW ask \in Requests
  PROVE  LET a == Failure(name, model, ask)
         IN  a \in Answers /\ ~a.cached /\ ~a.content /\ a.error /\ a.name = name
<1>1. None \in Owners BY DEF Owners
<1>2. ask.text \in {a.text : a \in Requests} OBVIOUS
<1> QED BY <1>1, <1>2 DEF Failure, Answer, Answers

(* t is a later state of the same request, with the provider it has.      *)
Follows(t, s) ==
  /\ t \in Coroutines
  /\ t.ask = s.ask /\ t.chat = s.chat /\ t.name = s.name /\ t.owner = s.owner
  /\ t.model = s.model /\ t.charged = s.charged

LEMMA EndedFacts ==
  ASSUME NEW s \in Coroutines, NEW answer \in Answers
  PROVE  LET t == Ended(s, answer)
         IN  /\ Follows(t, s) /\ t.pc = "done" /\ t.answer = answer
             /\ t.calls = s.calls /\ t.tried = s.tried
<1> DEFINE said == IF s.ask.kind = "chat_stream" /\ answer.content
                   THEN Append(s.out, "answer") ELSE s.out
           raises == s.ask.kind = "structured"
           t == [s EXCEPT !.pc = "done", !.answer = answer, !.out = said, !.raised = raises]
<1>1. said \in Seq({"token", "answer", "empty"})
  <2>1. s.out \in Seq({"token", "answer", "empty"}) BY DEF Coroutines
  <2>2. Append(s.out, "answer") \in Seq({"token", "answer", "empty"}) BY <2>1
  <2> QED BY <2>1, <2>2
<1>2. raises \in BOOLEAN OBVIOUS
<1>3. Ended(s, answer) = t BY DEF Ended
<1>4. "done" \in Phases BY DEF Phases
<1> HIDE DEF said, raises
<1>5. t \in Coroutines BY <1>1, <1>2, <1>4 DEF Coroutines
<1>6. /\ t.pc = "done" /\ t.answer = answer /\ t.calls = s.calls /\ t.tried = s.tried
      /\ t.ask = s.ask /\ t.chat = s.chat /\ t.name = s.name /\ t.owner = s.owner
      /\ t.model = s.model /\ t.charged = s.charged
  BY DEF Coroutines
<1> QED BY <1>3, <1>5, <1>6 DEF Follows

LEMMA CallingFacts ==
  ASSUME NEW s \in Coroutines
  PROVE  LET t == Calling(s)
         IN  /\ Follows(t, s) /\ t.pc = "calling" /\ t.answer = s.answer
             /\ t.calls = Append(s.calls, <<s.name, s.owner>>) /\ t.tried = s.tried
<1>1. Append(s.calls, <<s.name, s.owner>>) \in Seq(Names \X Owners)
  <2>1. s.calls \in Seq(Names \X Owners) /\ <<s.name, s.owner>> \in Names \X Owners
    BY DEF Coroutines
  <2> QED BY <2>1
<1>2. "calling" \in Phases BY DEF Phases
<1> QED BY <1>1, <1>2 DEF Calling, Coroutines, Follows

(* A request that has called nobody yet.                                   *)
Ready(s) == s.calls = <<>> /\ s.tried = 0 /\ s.charged = 0 /\ ~s.answer.cached

LEMMA CallingSound ==
  ASSUME NEW s \in Coroutines, Ready(s), s.name # None, NEW names,
         s.ask.user = None => s.owner = "platform" /\ s.name \in Keys
  PROVE  Sound(Calling(s), names)
<1> DEFINE t == Calling(s)
<1>1. /\ Follows(t, s) /\ t.pc = "calling" /\ t.answer = s.answer
      /\ t.calls = Append(s.calls, <<s.name, s.owner>>) /\ t.tried = s.tried
  BY CallingFacts
<1> HIDE DEF t
<1>2. t.calls = <<<<s.name, s.owner>>>> BY <1>1 DEF Ready
<1>3. Called(t) BY <1>1, <1>2 DEF Called, Follows, Ready, At
<1>4. Sound(t, names) BY <1>1, <1>3 DEF Sound, Scoped, Follows, Ready, At
<1> QED BY <1>4 DEF t

LEMMA FailureSound ==
  ASSUME NEW s \in Coroutines, Ready(s), s.owner = None, NEW names
  PROVE  Sound(Ended(s, Failure(None, s.model, s.ask)), names)
<1> DEFINE a == Failure(None, s.model, s.ask)
           t == Ended(s, a)
<1>1. s.model \in Models /\ s.ask \in Requests BY DEF Coroutines
<1>2. a \in Answers /\ ~a.cached /\ ~a.content /\ a.error /\ a.name = None
  <2>1. None \in Names BY DEF Names
  <2> QED BY <1>1, <2>1, FailureFacts
<1> HIDE DEF a
<1>3. /\ Follows(t, s) /\ t.pc = "done" /\ t.answer = a
      /\ t.calls = s.calls /\ t.tried = s.tried
  BY <1>2, EndedFacts
<1> HIDE DEF t
<1>4. Accounted(t, names) BY <1>2, <1>3 DEF Accounted, Follows, Ready
<1>5. Sound(t, names) BY <1>2, <1>3, <1>4 DEF Sound, Scoped, Follows, Ready, At
<1> QED BY <1>5 DEF t, a

(* _get_redis before a look into the cache.                                *)
LEMMA GettingSound ==
  ASSUME NEW s \in Coroutines, Ready(s), s.name \in Keys, s.owner = "platform",
         Cacheable(s), s.chat, NEW names, redis \in {"none", "on", "off"}
  PROVE  Sound(ReachRedis(s, "getting", Calling(s)), names)
<1> DEFINE waits == [s EXCEPT !.pc = "connecting", !.use = "getting"]
           looks == [s EXCEPT !.pc = "getting"]
<1>1. "connecting" \in Phases /\ "getting" \in Phases BY DEF Phases
<1>2. /\ waits \in Coroutines /\ waits.pc = "connecting" /\ waits.use = "getting"
      /\ waits.calls = s.calls /\ waits.tried = s.tried /\ waits.ask = s.ask
      /\ waits.chat = s.chat /\ waits.name = s.name /\ waits.owner = s.owner
      /\ waits.charged = s.charged /\ waits.answer = s.answer
  BY <1>1 DEF Coroutines
<1>3. /\ looks \in Coroutines /\ looks.pc = "getting"
      /\ looks.calls = s.calls /\ looks.tried = s.tried /\ looks.ask = s.ask
      /\ looks.chat = s.chat /\ looks.name = s.name /\ looks.owner = s.owner
      /\ looks.charged = s.charged /\ looks.answer = s.answer
  BY <1>1 DEF Coroutines
<1> HIDE DEF waits, looks
<1>4. Uncalled(waits) /\ Uncalled(looks)
  BY <1>2, <1>3 DEF Uncalled, Ready, Cacheable, At
<1>5. Sound(waits, names) BY <1>2, <1>4 DEF Sound, Scoped, Ready, At
<1>6. Sound(looks, names) BY <1>3, <1>4 DEF Sound, Scoped, Ready, At
<1>7. Sound(Calling(s), names) BY KeyFacts, CallingSound
<1>8. ReachRedis(s, "getting", Calling(s)) \in {waits, looks, Calling(s)}
  BY DEF ReachRedis, waits, looks
<1> QED BY <1>5, <1>6, <1>7, <1>8

LEMMA ProvidedSound ==
  ASSUME NEW s \in Coroutines, Ready(s), NEW name \in Names, NEW owner \in Owners, NEW names,
         owner # None => name # None, redis \in {"none", "on", "off"},
         s.ask.user = None => owner = None \/ (owner = "platform" /\ name \in Keys)
  PROVE  Sound(Provided(s, name, owner), names)
<1> DEFINE t == [s EXCEPT !.name = name, !.owner = owner, !.model = ModelFor(s.ask, name)]
           streams == ~t.chat /\ t.ask.kind = "chat_stream"
           empty == [t EXCEPT !.pc = "done", !.out = <<"empty">>]
           flows == [t EXCEPT !.pc = "streaming"]
<1>1. s.ask \in Requests BY DEF Coroutines
<1>2. ModelFor(s.ask, name) \in Models BY <1>1, ModelFacts
<1>3. /\ t \in Coroutines /\ t.name = name /\ t.owner = owner
      /\ t.calls = s.calls /\ t.tried = s.tried /\ t.ask = s.ask
      /\ t.charged = s.charged /\ t.answer = s.answer
  BY <1>2 DEF Coroutines
<1>4. Provided(s, name, owner) =
        IF owner = None
        THEN IF streams THEN empty ELSE Ended(t, Failure(None, t.model, t.ask))
        ELSE IF streams THEN flows
        ELSE IF t.chat /\ Cacheable(t) THEN ReachRedis(t, "getting", Calling(t))
        ELSE Calling(t)
  BY DEF Provided
<1> HIDE DEF t
<1>5. Ready(t) BY <1>3 DEF Ready
<1>6. ASSUME streams PROVE Sound(empty, names)
  <2>1. "done" \in Phases /\ <<"empty">> \in Seq({"token", "answer", "empty"}) BY DEF Phases
  <2>2. /\ empty \in Coroutines /\ empty.pc = "done" /\ empty.answer = t.answer
        /\ empty.charged = t.charged /\ empty.chat = t.chat
    BY <1>3, <2>1 DEF Coroutines
  <2> HIDE DEF empty
  <2> QED BY <1>5, <1>6, <2>2 DEF Sound, Scoped, Ready, At
<1>7. ASSUME streams PROVE Sound(flows, names)
  <2>1. "streaming" \in Phases BY DEF Phases
  <2>2. /\ flows \in Coroutines /\ flows.pc = "streaming" /\ flows.answer = t.answer
        /\ flows.charged = t.charged /\ flows.chat = t.chat
        /\ flows.calls = t.calls /\ flows.tried = t.tried
    BY <1>3, <2>1 DEF Coroutines
  <2> HIDE DEF flows
  <2>3. Uncalled(flows) BY <1>5, <1>7, <2>2 DEF Uncalled, Ready, At
  <2> QED BY <1>5, <2>2, <2>3 DEF Sound, Scoped, Ready, At
<1> HIDE DEF empty, flows, streams
<1>8. ASSUME owner = None PROVE Sound(Ended(t, Failure(None, t.model, t.ask)), names)
  BY <1>3, <1>5, <1>8, FailureSound
<1>9. ASSUME owner # None, t.chat, Cacheable(t)
      PROVE  Sound(ReachRedis(t, "getting", Calling(t)), names)
  <2>1. t.name \in Keys /\ t.owner = "platform" BY <1>3, <1>9 DEF Cacheable
  <2> QED BY <1>3, <1>5, <1>9, <2>1, GettingSound
<1>10. ASSUME owner # None PROVE Sound(Calling(t), names)
  <2>1. t.name # None /\ (t.ask.user = None => t.owner = "platform" /\ t.name \in Keys)
    BY <1>3, <1>10
  <2> QED BY <1>3, <1>5, <2>1, CallingSound
<1> QED BY <1>4, <1>6, <1>7, <1>8, <1>9, <1>10

LEMMA ResolvingSound ==
  ASSUME NEW s \in Coroutines, Ready(s), Registry(providers), redis \in {"none", "on", "off"}
  PROVE  Sound(Resolving(s), providers)
<1> DEFINE name == Target(s.ask)
           asks == [s EXCEPT !.pc = "keying", !.name = name]
<1>1. s.ask \in Requests BY DEF Coroutines
<1>2. name \in Names BY <1>1, TargetFacts
<1> HIDE DEF name
<1>3. PlatformKey(name) \in {None, "platform"} /\ (name = None => PlatformKey(name) = None)
  BY PlatformKeyFacts
<1>4. PlatformKey(name) \in Owners BY <1>3 DEF Owners
<1>8. PlatformKey(name) # None => name \in Keys
  <2>1. \A i \in DOMAIN providers : providers[i] \in Keys BY DEF Registry
  <2> QED BY <2>1 DEF PlatformKey, Configured, ToSet
<1>5. Sound(Provided(s, name, PlatformKey(name)), providers)
  BY <1>2, <1>3, <1>4, <1>8, ProvidedSound
<1>6. ASSUME name # None, s.ask.user # None PROVE Sound(asks, providers)
  <2>1. "keying" \in Phases BY DEF Phases
  <2>2. /\ asks \in Coroutines /\ asks.pc = "keying" /\ asks.name = name
        /\ asks.calls = s.calls /\ asks.tried = s.tried /\ asks.ask = s.ask
        /\ asks.charged = s.charged /\ asks.answer = s.answer
    BY <1>2, <2>1 DEF Coroutines
  <2> HIDE DEF asks
  <2>3. Uncalled(asks) BY <1>6, <2>2 DEF Uncalled, Ready, At
  <2> QED BY <2>2, <2>3 DEF Sound, Scoped, Ready, At
<1>7. Resolving(s) = IF name # None /\ s.ask.user # None THEN asks
                     ELSE Provided(s, name, PlatformKey(name))
  BY DEF Resolving, name
<1> HIDE DEF asks
<1> QED BY <1>5, <1>6, <1>7

LEMMA FallBackSound ==
  ASSUME NEW s \in Coroutines, Fallen(s, providers), Registry(providers),
         s.charged = 0, ~s.answer.cached
  PROVE  Sound(FallBack(s), providers)
<1> DEFINE able == Fallbacks(s)
           last == Len(s.calls)
<1>1. /\ providers \in Seq(Names) /\ DOMAIN providers = 1..Len(providers)
      /\ Len(providers) \in Nat
  BY RegistryFacts
<1>2. s.calls \in Seq(Names \X Owners) /\ last \in Nat /\ last > 0 /\ s.tried \in Nat
      /\ s.ask \in Requests /\ s.name \in Names /\ s.model \in Models
  BY DEF Coroutines, Fallen
<1>3. able = {p \in Eligible(s, providers) : p > s.tried} BY DEF Fallbacks, Eligible
<1>4. able \subseteq DOMAIN providers BY DEF Fallbacks
<1>5. Eligible(s, providers) \subseteq DOMAIN providers BY DEF Eligible
<1>6. CASE able = {}
  <2> DEFINE a == Failure(s.name, s.model, s.ask)
             t == Ended(s, a)
  <2>1. a \in Answers /\ ~a.cached /\ ~a.content /\ a.error /\ a.name = s.name
    BY <1>2, FailureFacts
  <2> HIDE DEF a
  <2>2. /\ Follows(t, s) /\ t.pc = "done" /\ t.answer = a /\ t.calls = s.calls
    BY <2>1, EndedFacts
  <2>3. FallBack(s) = t BY <1>6 DEF FallBack, a
  <2> HIDE DEF t
  <2>4. \A p \in Eligible(s, providers) : p <= s.tried BY <1>1, <1>2, <1>3, <1>5, <1>6
  <2>5. \A p \in Eligible(s, providers) : \E i \in 2..last : s.calls[i] = <<providers[p], "platform">>
    BY <2>4 DEF Fallen
  <2>6. \A p \in Eligible(s, providers) : \E i \in 1..last : s.calls[i][1] = providers[p]
    BY <2>5, <1>2
  <2>7. /\ \A i \in 2..last :
            \E p \in Eligible(s, providers) : s.calls[i] = <<providers[p], "platform">>
        /\ s.calls # <<>> /\ s.calls[1] = <<s.name, s.owner>>
    BY DEF Fallen
  <2>8. \A i, j \in 2..last : s.calls[i] = s.calls[j] => i = j BY DEF Fallen
  <2>9. Eligible(t, providers) = Eligible(s, providers) BY <2>2 DEF Eligible, Follows
  <2>10. s.name # None BY DEF Fallen
  <2>11. Accounted(t, providers) BY <2>1, <2>2, <2>6, <2>7, <2>8, <2>9, <2>10 DEF Accounted, Follows
  <2>12. Sound(t, providers) BY <2>1, <2>2, <2>11 DEF Sound, Scoped, Follows, At
  <2> QED BY <2>3, <2>12
<1>7. CASE able # {}
  <2> DEFINE m == Min(able)
             call == <<providers[m], "platform">>
             calls == Append(s.calls, call)
             t == [s EXCEPT !.pc = "falling", !.tried = m, !.calls = calls]
  <2>1. able \subseteq Nat BY <1>1, <1>4
  <2>2. m \in able /\ \A p \in able : m <= p BY <1>7, <2>1, LeastNumber
  <2>3. m \in Nat /\ m \in DOMAIN providers /\ m > s.tried /\ m \in Eligible(s, providers)
    BY <1>3, <1>4, <2>1, <2>2
  <2>4. FallBack(s) = t BY <1>7 DEF FallBack
  <2> HIDE DEF m
  <2>5. call \in Names \X Owners
    <3>1. providers[m] \in Names BY <1>1, <2>3
    <3>2. "platform" \in Owners BY DEF Owners
    <3> QED BY <3>1, <3>2
  <2> HIDE DEF call
  <2>6. /\ calls \in Seq(Names \X Owners) /\ Len(calls) = last + 1 /\ calls[last + 1] = call
        /\ \A i \in 1..last : calls[i] = s.calls[i]
    BY <1>2, <2>5
  <2> HIDE DEF calls
  <2>7. "falling" \in Phases BY DEF Phases
  <2>8. /\ t \in Coroutines /\ t.pc = "falling" /\ t.tried = m /\ t.calls = calls
        /\ t.name = s.name /\ t.chat = s.chat /\ t.charged = s.charged /\ t.answer = s.answer
        /\ t.owner = s.owner
    BY <2>3, <2>6, <2>7 DEF Coroutines
  <2> HIDE DEF t
  <2>9. Eligible(t, providers) = Eligible(s, providers) BY <2>8 DEF Eligible
  <2>10. ASSUME NEW i \in 2..Len(calls)
         PROVE  \E p \in Eligible(s, providers) : p <= m /\ calls[i] = <<providers[p], "platform">>
    <3>1. CASE i = last + 1 BY <3>1, <2>3, <2>6 DEF call
    <3>2. CASE i # last + 1
      <4>1. i \in 2..last /\ calls[i] = s.calls[i] BY <3>2, <1>2, <2>6
      <4>2. PICK p \in Eligible(s, providers) :
              p <= s.tried /\ s.calls[i] = <<providers[p], "platform">>
        BY <4>1 DEF Fallen
      <4>3. p <= m BY <4>2, <1>1, <1>2, <1>5, <2>3
      <4> QED BY <4>1, <4>2, <4>3
    <3> QED BY <3>1, <3>2
  <2>11. ASSUME NEW p \in Eligible(s, providers), p <= m
         PROVE  \E i \in 2..Len(calls) : calls[i] = <<providers[p], "platform">>
    <3>1. CASE p <= s.tried
      <4>1. PICK i \in 2..last : s.calls[i] = <<providers[p], "platform">>
        BY <3>1 DEF Fallen
      <4>2. i \in 2..Len(calls) /\ i \in 1..last BY <1>2, <2>6
      <4>3. calls[i] = s.calls[i] BY <2>6, <4>2
      <4> QED BY <4>1, <4>2, <4>3
    <3>2. CASE ~(p <= s.tried)
      <4>1. p \in Nat BY <1>1, <1>5
      <4>2. p \in able BY <3>2, <4>1, <1>2, <1>3
      <4>3. p = m BY <2>2, <2>3, <2>11, <4>1, <4>2
      <4>4. last + 1 \in 2..Len(calls) BY <1>2, <2>6
      <4> QED BY <4>3, <4>4, <2>6 DEF call
    <3> QED BY <3>1, <3>2
  <2>12. \A i \in 2..last : calls[i] # call
    <3> SUFFICES ASSUME NEW i \in 2..last, calls[i] = call PROVE FALSE OBVIOUS
    <3>1. calls[i] = s.calls[i] BY <1>2, <2>6
    <3>2. PICK p \in Eligible(s, providers) :
            p <= s.tried /\ s.calls[i] = <<providers[p], "platform">>
      BY DEF Fallen
    <3>3. providers[p] = providers[m] BY <3>1, <3>2 DEF call
    <3>4. p = m BY <3>3, <1>5, <2>3 DEF Registry
    <3> QED BY <3>2, <3>4, <2>3, <1>2
  <2>13. ASSUME NEW i \in 2..Len(calls), NEW j \in 2..Len(calls), calls[i] = calls[j]
         PROVE  i = j
    <3>1. i \in 2..last \/ i = last + 1 BY <1>2, <2>6
    <3>2. j \in 2..last \/ j = last + 1 BY <1>2, <2>6
    <3>3. \A k, l \in 2..last : s.calls[k] = s.calls[l] => k = l BY DEF Fallen
    <3>4. \A k \in 2..last : calls[k] = s.calls[k] BY <1>2, <2>6
    <3> QED BY <3>1, <3>2, <3>3, <3>4, <2>6, <2>12, <2>13
  <2>14. calls # <<>> /\ Len(calls) > 1 BY <1>2, <2>6
  <2>15. s.chat /\ s.name # None /\ s.calls[1] = <<s.name, s.owner>> BY DEF Fallen
  <2>18. calls[1] = <<s.name, s.owner>>
    <3>1. 1 \in 1..last BY <1>2
    <3> QED BY <3>1, <2>6, <2>15
  <2>16. Fallen(t, providers)
    <3>1. \A i \in 2..Len(t.calls) :
            \E p \in Eligible(t, providers) :
              p <= t.tried /\ t.calls[i] = <<providers[p], "platform">>
      BY <2>8, <2>9, <2>10
    <3>2. \A p \in Eligible(t, providers) :
            p <= t.tried => \E i \in 2..Len(t.calls) : t.calls[i] = <<providers[p], "platform">>
      BY <2>8, <2>9, <2>11
    <3>3. \A i, j \in 2..Len(t.calls) : t.calls[i] = t.calls[j] => i = j BY <2>8, <2>13
    <3>4. t.chat /\ t.name # None /\ t.calls # <<>> BY <2>8, <2>14, <2>15
    <3>5. t.calls[1] = <<t.name, t.owner>> BY <2>8, <2>18
    <3> QED BY <3>1, <3>2, <3>3, <3>4, <3>5 DEF Fallen
  <2>17. Sound(t, providers) BY <2>8, <2>14, <2>16 DEF Sound, Scoped, At
  <2> QED BY <2>4, <2>17
<1> QED BY <1>6, <1>7

(* Only the request of one caller moves.                                   *)
LEMMA OneCaller ==
  ASSUME GatewayInv, NEW c \in Callers, NEW t, Becomes(c, t), Sound(t, providers),
         Registry(providers), UNCHANGED providers, CacheInv', redis' \in {"none", "on", "off"}
  PROVE  GatewayInv'
<1>1. t \in Coroutines BY DEF Sound
<1>2. st \in [Callers -> Coroutines] BY DEF GatewayInv
<1>3. st' \in [Callers -> Coroutines] BY <1>1, <1>2 DEF Becomes
<1>4. \A d \in Callers : st'[d] = IF d = c THEN t ELSE st[d] BY <1>2 DEF Becomes
<1>5. \A d \in Callers : Sound(st[d], providers) BY DEF GatewayInv
<1>6. \A d \in Callers : Sound(st'[d], providers) BY <1>4, <1>5
<1>7. \A d \in Callers : Sound(st'[d], providers') BY <1>6
<1>8. Registry(providers') OBVIOUS
<1> QED BY <1>3, <1>7, <1>8 DEF GatewayInv, ProvidersInv

LEMMA CallerFacts ==
  ASSUME GatewayInv, NEW c \in Callers
  PROVE  /\ st[c] \in Coroutines /\ Sound(st[c], providers)
         /\ st[c].pc # "idle" => Registry(providers)
         /\ CacheInv /\ redis \in {"none", "on", "off"}
         /\ st[c].pc # "done" => st[c].charged = 0 /\ ~st[c].answer.cached
  BY DEF GatewayInv, ProvidersInv, Sound, Scoped

LEMMA SameCache == ASSUME CacheInv, UNCHANGED cache PROVE CacheInv'
  BY DEF CacheInv

LEMMA GatewayInitInv == GatewayInit => GatewayInv
<1> SUFFICES ASSUME GatewayInit PROVE GatewayInv OBVIOUS
<1> USE DEF GatewayInit
<1>1. NoAsk \in Requests /\ None \in Names /\ None \in Owners /\ None \in Models
  BY DEF Requests, Names, Owners, Models
<1>2. NoAnswer \in Answers /\ ~NoAnswer.cached BY <1>1, FailureFacts DEF NoAnswer
<1>3. "idle" \in Phases BY DEF Phases
<1>4. Idle \in Coroutines BY <1>1, <1>2, <1>3 DEF Idle, Coroutines
<1>5. /\ Idle.pc = "idle" /\ Idle.answer = NoAnswer /\ Idle.calls = <<>> /\ Idle.tried = 0
      /\ Idle.charged = 0
  BY DEF Idle
<1>6. Uncalled(Idle) BY <1>5 DEF Uncalled, At
<1>7. Sound(Idle, providers) BY <1>2, <1>4, <1>5, <1>6 DEF Sound, Scoped, At
<1>8. CacheInv BY DEF CacheInv
<1>9. ProvidersInv BY <1>5 DEF ProvidersInv
<1>10. \A c \in Callers : Sound(st[c], providers) BY <1>7
<1>11. st \in [Callers -> Coroutines] /\ redis \in {"none", "on", "off"} BY <1>4
<1> QED BY <1>8, <1>9, <1>10, <1>11 DEF GatewayInv

LEMMA EnsureInitKeeps == ASSUME GatewayInv, EnsureInit PROVE GatewayInv'
<1>1. Registry(providers') BY RegistriesFacts DEF EnsureInit
<1>2. ~Registry(Unset) BY RegistryFacts DEF Unset
<1>3. \A c \in Callers : st[c].pc = "idle" BY <1>2 DEF GatewayInv, ProvidersInv, EnsureInit
<1>4. \A c \in Callers : Sound(st[c], providers) BY DEF GatewayInv
<1>5. \A c \in Callers : Sound(st[c], providers') BY <1>3, <1>4 DEF Sound
<1>6. st' = st /\ cache' = cache /\ redis' = redis BY DEF EnsureInit
<1>7. \A c \in Callers : Sound(st'[c], providers') BY <1>5, <1>6
<1>8. CacheInv' BY <1>6, SameCache DEF GatewayInv
<1>9. redis' \in {"none", "on", "off"} /\ st' \in [Callers -> Coroutines]
  BY <1>6 DEF GatewayInv
<1> QED BY <1>1, <1>7, <1>8, <1>9 DEF GatewayInv, ProvidersInv

LEMMA AskKeeps ==
  ASSUME GatewayInv, NEW c \in Callers, NEW ask \in Asks, Ask(c, ask) PROVE GatewayInv'
<1> DEFINE chats == ask.kind \in {"chat", "structured"}
           s == [st[c] EXCEPT !.ask = ask, !.chat = chats]
           sdk == [s EXCEPT !.pc = "gemini"]
           empty == [s EXCEPT !.pc = "done", !.out = <<"empty">>]
           flows == [s EXCEPT !.pc = "streaming", !.name = Selected(s.ask), !.owner = "platform"]
<1>1. /\ st[c] \in Coroutines /\ Sound(st[c], providers) /\ CacheInv
      /\ redis \in {"none", "on", "off"} /\ st[c].pc = "idle" /\ st[c].charged = 0
      /\ ~st[c].answer.cached
  BY CallerFacts DEF Ask
<1>2. Registry(providers) BY DEF GatewayInv, ProvidersInv, Ask
<1>3. Uncalled(st[c]) BY <1>1 DEF Sound
<1>4. ask \in Requests /\ chats \in BOOLEAN BY DEF Requests
<1>5. Becomes(c, CASE ask.kind = "gemini" -> sdk
                   [] ask.kind = "stream" -> Streaming(s)
                   [] OTHER -> Resolving(s))
  BY DEF Ask
<1>6. UNCHANGED <<providers, redis, cache>> BY DEF Ask
<1> HIDE DEF chats
<1>7. /\ s \in Coroutines /\ s.ask = ask /\ s.chat = chats /\ s.calls = st[c].calls
      /\ s.tried = st[c].tried /\ s.charged = 0 /\ s.answer = st[c].answer
  BY <1>1, <1>4 DEF Coroutines
<1> HIDE DEF s
<1>8. Ready(s) BY <1>1, <1>3, <1>7 DEF Ready, Uncalled
<1>9. ASSUME ask.kind = "gemini" PROVE Sound(sdk, providers)
  <2>1. "gemini" \in Phases BY DEF Phases
  <2>2. /\ sdk \in Coroutines /\ sdk.pc = "gemini" /\ sdk.chat = chats /\ sdk.calls = s.calls
        /\ sdk.tried = s.tried /\ sdk.charged = 0 /\ sdk.answer = s.answer
    BY <1>7, <2>1 DEF Coroutines
  <2>3. ~chats BY <1>9 DEF chats
  <2> HIDE DEF sdk
  <2>4. Uncalled(sdk) BY <1>8, <2>2, <2>3 DEF Uncalled, Ready, At
  <2> QED BY <1>8, <2>2, <2>4 DEF Sound, Scoped, Ready, At
<1>10. ASSUME ask.kind = "stream" PROVE Sound(Streaming(s), providers)
  <2>1. "streaming" \in Phases /\ "done" \in Phases /\ "platform" \in Owners
        /\ <<"empty">> \in Seq({"token", "answer", "empty"})
    BY DEF Phases, Owners
  <2>2. Selected(s.ask) \in Names BY <1>2, <1>4, <1>7, TargetFacts
  <2>3. ~chats BY <1>10 DEF chats
  <2>4. /\ empty \in Coroutines /\ empty.pc = "done" /\ empty.chat = chats
        /\ empty.charged = 0 /\ empty.answer = s.answer
    BY <1>7, <2>1 DEF Coroutines
  <2>5. /\ flows \in Coroutines /\ flows.pc = "streaming" /\ flows.chat = chats
        /\ flows.calls = s.calls /\ flows.tried = s.tried
        /\ flows.charged = 0 /\ flows.answer = s.answer
    BY <1>7, <2>1, <2>2 DEF Coroutines
  <2>6. Streaming(s) \in {empty, flows} BY DEF Streaming
  <2> HIDE DEF empty, flows
  <2>7. Sound(empty, providers) BY <1>8, <2>3, <2>4 DEF Sound, Scoped, Ready, At
  <2>8. Uncalled(flows) BY <1>8, <2>3, <2>5 DEF Uncalled, Ready, At
  <2>9. Sound(flows, providers) BY <1>8, <2>5, <2>8 DEF Sound, Scoped, Ready, At
  <2> QED BY <2>6, <2>7, <2>9
<1>11. Sound(Resolving(s), providers) BY <1>1, <1>2, <1>7, <1>8, ResolvingSound
<1> HIDE DEF sdk
<1> DEFINE t == CASE ask.kind = "gemini" -> sdk
                  [] ask.kind = "stream" -> Streaming(s)
                  [] OTHER -> Resolving(s)
<1>12. Sound(t, providers)
  <2>1. CASE ask.kind = "gemini" BY <2>1, <1>9
  <2>2. CASE ask.kind = "stream" BY <2>2, <1>10
  <2>3. CASE ask.kind # "gemini" /\ ask.kind # "stream" BY <2>3, <1>11
  <2> QED BY <2>1, <2>2, <2>3
<1>13. Becomes(c, t) BY <1>5
<1> HIDE DEF t
<1>14. CacheInv' BY <1>1, <1>6, SameCache
<1> QED BY <1>1, <1>2, <1>6, <1>12, <1>13, <1>14, OneCaller

LEMMA KeyFoundKeeps ==
  ASSUME GatewayInv, NEW c \in Callers, KeyFound(c) PROVE GatewayInv'
<1> DEFINE s == st[c]
<1>1. /\ s \in Coroutines /\ Sound(s, providers) /\ CacheInv /\ Registry(providers)
      /\ redis \in {"none", "on", "off"} /\ s.pc = "keying" /\ s.charged = 0
      /\ ~s.answer.cached
  BY CallerFacts DEF KeyFound
<1>2. Uncalled(s) BY <1>1 DEF Sound
<1>3. Ready(s) /\ s.name # None /\ s.ask.user # None BY <1>1, <1>2 DEF Ready, Uncalled
<1>4. PICK owner \in {PlatformKey(s.name)} \cup (IF s.name \in OneOff THEN {s.ask.user} ELSE {}) :
        Becomes(c, Provided(s, s.name, owner))
  BY DEF KeyFound
<1>5. UNCHANGED <<providers, redis, cache>> BY DEF KeyFound
<1> HIDE DEF s
<1>6. s.name \in Names /\ s.ask \in Requests BY <1>1 DEF Coroutines
<1>7. s.ask.user \in Owners
  <2>1. CASE s.ask = NoAsk BY <2>1 DEF NoAsk, Request, Owners
  <2>2. CASE s.ask \in Asks BY <2>2 DEF Owners
  <2> QED BY <1>6, <2>1, <2>2 DEF Requests
<1>8. PlatformKey(s.name) \in Owners BY <1>1, PlatformKeyFacts DEF Owners
<1>9. owner \in Owners BY <1>4, <1>7, <1>8
<1>10. Sound(Provided(s, s.name, owner), providers)
  BY <1>1, <1>3, <1>6, <1>9, ProvidedSound
<1>11. CacheInv' BY <1>1, <1>5, SameCache
<1> QED BY <1>1, <1>4, <1>5, <1>10, <1>11, OneCaller

(* The answer of the provider ends the request, stored or charged or not.  *)
LEMMA AnsweredSound ==
  ASSUME NEW s \in Coroutines, NEW names, NEW content \in BOOLEAN,
         s.calls = <<<<s.name, s.owner>>>>, s.charged = 0
  PROVE  LET t == Ended(s, Answer(s.name, s.owner, s.model, s.ask, content))
         IN  /\ Sound(t, names) /\ Follows(t, s) /\ t.pc = "done" /\ t.calls = s.calls
             /\ ~t.answer.error /\ ~t.answer.cached
<1> DEFINE a == Answer(s.name, s.owner, s.model, s.ask, content)
           t == Ended(s, a)
<1>1. s.name \in Names /\ s.owner \in Owners /\ s.model \in Models /\ s.ask \in Requests
  BY DEF Coroutines
<1>2. a \in Answers /\ ~a.cached /\ ~a.error /\ a.name = s.name /\ a.owner = s.owner
  BY <1>1, AnswerFacts
<1> HIDE DEF a
<1>3. Follows(t, s) /\ t.pc = "done" /\ t.answer = a /\ t.calls = s.calls BY <1>2, EndedFacts
<1> HIDE DEF t
<1>4. Len(t.calls) = 1 /\ t.calls # <<>> /\ t.calls[1] = <<s.name, s.owner>> BY <1>3
<1>5. Last(t.calls) = <<s.name, s.owner>> BY <1>4 DEF Last
<1>6. Accounted(t, names) BY <1>2, <1>3, <1>4, <1>5 DEF Accounted, Follows
<1>7. Sound(t, names) BY <1>2, <1>3, <1>6 DEF Sound, Scoped, Follows, At
<1>8. ~t.answer.error /\ ~t.answer.cached BY <1>2, <1>3
<1> QED BY <1>3, <1>7, <1>8 DEF t, a

(* _get_redis before an answer is stored.                                  *)
LEMMA SettingSound ==
  ASSUME NEW s \in Coroutines, Called(s), s.charged = 0, s.chat, Cacheable(s), NEW names,
         s.answer = Answer(s.name, s.owner, s.model, s.ask, TRUE),
         redis \in {"none", "on", "off"}
  PROVE  Sound(ReachRedis(s, "setting", Ended(s, s.answer)), names)
<1> DEFINE waits == [s EXCEPT !.pc = "connecting", !.use = "setting"]
           sets  == [s EXCEPT !.pc = "setting"]
<1>1. "connecting" \in Phases /\ "setting" \in Phases /\ TRUE \in BOOLEAN BY DEF Phases
<1>2. /\ waits \in Coroutines /\ waits.pc = "connecting" /\ waits.use = "setting"
      /\ waits.calls = s.calls /\ waits.tried = s.tried /\ waits.ask = s.ask
      /\ waits.chat = s.chat /\ waits.name = s.name /\ waits.owner = s.owner
      /\ waits.model = s.model /\ waits.charged = s.charged /\ waits.answer = s.answer
  BY <1>1 DEF Coroutines
<1>3. /\ sets \in Coroutines /\ sets.pc = "setting"
      /\ sets.calls = s.calls /\ sets.tried = s.tried /\ sets.ask = s.ask
      /\ sets.chat = s.chat /\ sets.name = s.name /\ sets.owner = s.owner
      /\ sets.model = s.model /\ sets.charged = s.charged /\ sets.answer = s.answer
  BY <1>1 DEF Coroutines
<1>4. ~s.answer.cached
  <2>1. s.name \in Names /\ s.owner \in Owners /\ s.model \in Models /\ s.ask \in Requests
    BY DEF Coroutines
  <2>2. TRUE \in BOOLEAN OBVIOUS
  <2>3. ~Answer(s.name, s.owner, s.model, s.ask, TRUE).cached BY <2>1, <2>2, AnswerFacts
  <2> QED BY <2>3
<1> HIDE DEF waits, sets
<1>5. Called(waits) BY <1>1, <1>2 DEF Called, Cacheable, At
<1>6. Called(sets) BY <1>1, <1>3 DEF Called, Cacheable, At
<1>7. Sound(waits, names) BY <1>2, <1>4, <1>5 DEF Sound, Scoped, At
<1>8. Sound(sets, names) BY <1>3, <1>4, <1>6 DEF Sound, Scoped, At
<1>9. Sound(Ended(s, s.answer), names) BY <1>1, AnsweredSound DEF Called
<1>10. ReachRedis(s, "setting", Ended(s, s.answer)) \in {waits, sets, Ended(s, s.answer)}
  BY DEF ReachRedis, waits, sets
<1> QED BY <1>7, <1>8, <1>9, <1>10

LEMMA ConnectedKeeps ==
  ASSUME GatewayInv, NEW c \in Callers, Connected(c) PROVE GatewayInv'
<1> DEFINE s == st[c]
           looks == [s EXCEPT !.pc = s.use]
<1>1. /\ s \in Coroutines /\ Sound(s, providers) /\ CacheInv /\ Registry(providers)
      /\ s.pc = "connecting" /\ s.charged = 0 /\ ~s.answer.cached
  BY CallerFacts DEF Connected
<1>2. s.use \in {"getting", "setting"} BY <1>1 DEF Sound
<1>3. /\ Becomes(c, IF redis' = "on" THEN looks
                    ELSE IF s.use = "getting" THEN Calling(s) ELSE Ended(s, s.answer))
      /\ redis' \in {"none", "on", "off"} /\ UNCHANGED <<providers, cache>>
  BY DEF Connected
<1>4. CacheInv' BY <1>1, <1>3, SameCache
<1> HIDE DEF s
<1>5. s.use \in Phases BY <1>2 DEF Phases
<1>6. /\ looks \in Coroutines /\ looks.pc = s.use /\ looks.use = s.use
      /\ looks.calls = s.calls /\ looks.tried = s.tried /\ looks.ask = s.ask
      /\ looks.chat = s.chat /\ looks.name = s.name /\ looks.owner = s.owner
      /\ looks.model = s.model /\ looks.charged = s.charged /\ looks.answer = s.answer
  BY <1>1, <1>5 DEF Coroutines
<1> HIDE DEF looks
<1>7. CASE s.use = "getting"
  <2>1. Uncalled(s) BY <1>1, <1>7 DEF Sound, At
  <2>2. Ready(s) /\ Cacheable(s) /\ s.chat /\ s.name \in Keys /\ s.owner = "platform"
    BY <1>1, <1>7, <2>1 DEF Ready, Uncalled, At
  <2>3. Uncalled(looks) BY <1>6, <1>7, <2>1, <2>2 DEF Uncalled, Cacheable, At
  <2>4. Sound(looks, providers) BY <1>1, <1>6, <1>7, <2>3 DEF Sound, Scoped, At
  <2>5. Sound(Calling(s), providers) BY <1>1, <2>2, KeyFacts, CallingSound
  <2> DEFINE t == IF redis' = "on" THEN looks ELSE Calling(s)
  <2>6. Sound(t, providers) /\ Becomes(c, t) BY <1>3, <1>7, <2>4, <2>5
  <2> HIDE DEF t
  <2> QED BY <1>1, <1>3, <1>4, <2>6, OneCaller
<1>8. CASE s.use = "setting"
  <2>1. Called(s) BY <1>1, <1>8 DEF Sound, At
  <2>2. /\ s.chat /\ s.answer = Answer(s.name, s.owner, s.model, s.ask, TRUE) /\ Cacheable(s)
    BY <1>1, <1>8, <2>1 DEF Called, At
  <2>3. Called(looks) BY <1>6, <1>8, <2>1, <2>2 DEF Called, Cacheable, At
  <2>4. Sound(looks, providers) BY <1>1, <1>6, <1>8, <2>3 DEF Sound, Scoped, At
  <2>5. Sound(Ended(s, s.answer), providers) BY <1>1, <2>1, <2>2, AnsweredSound DEF Called
  <2> DEFINE t == IF redis' = "on" THEN looks ELSE Ended(s, s.answer)
  <2>6. Sound(t, providers) /\ Becomes(c, t) BY <1>3, <1>8, <2>4, <2>5
  <2> HIDE DEF t
  <2> QED BY <1>1, <1>3, <1>4, <2>6, OneCaller
<1> QED BY <1>2, <1>7, <1>8

LEMMA CacheMissKeeps ==
  ASSUME GatewayInv, NEW c \in Callers, CacheMiss(c) PROVE GatewayInv'
<1> DEFINE s == st[c]
<1>1. /\ s \in Coroutines /\ Sound(s, providers) /\ CacheInv /\ Registry(providers)
      /\ redis \in {"none", "on", "off"}
      /\ s.pc = "getting" /\ s.charged = 0 /\ ~s.answer.cached
  BY CallerFacts DEF CacheMiss
<1>2. Becomes(c, Calling(s)) /\ UNCHANGED <<providers, redis, cache>> BY DEF CacheMiss
<1>3. CacheInv' BY <1>1, <1>2, SameCache
<1> HIDE DEF s
<1>4. Uncalled(s) BY <1>1 DEF Sound, At
<1>5. Ready(s) /\ s.name \in Keys /\ s.owner = "platform"
  BY <1>1, <1>4 DEF Ready, Uncalled, At
<1>6. Sound(Calling(s), providers) BY <1>1, <1>5, KeyFacts, CallingSound
<1> QED BY <1>1, <1>2, <1>3, <1>6, OneCaller

(* The key of an entry says whose answer it is.                            *)
LEMMA CacheHitKeeps ==
  ASSUME GatewayInv, NEW c \in Callers, CacheHit(c) PROVE GatewayInv'
<1> DEFINE s == st[c]
           r == cache[CacheKey(s)]
           a == [r EXCEPT !.cached = TRUE]
           t == Ended(s, a)
<1>1. /\ s \in Coroutines /\ Sound(s, providers) /\ CacheInv /\ Registry(providers)
      /\ redis \in {"none", "on", "off"}
      /\ s.pc = "getting" /\ s.charged = 0 /\ ~s.answer.cached
  BY CallerFacts DEF CacheHit
<1>2. /\ Becomes(c, t) /\ UNCHANGED <<providers, redis, cache>>
      /\ CacheKey(s) \in DOMAIN cache
  BY DEF CacheHit
<1>3. CacheInv' BY <1>1, <1>2, SameCache
<1>4. /\ r \in Answers /\ Storable(r)
      /\ <<Label(s.name), s.model, s.ask.text>> = <<Label(r.name), r.model, r.text>>
  BY <1>1, <1>2 DEF CacheInv, CacheKey
<1> HIDE DEF s, r
<1>5. /\ a \in Answers /\ a.cached /\ ~a.error
      /\ a.name = r.name /\ a.model = r.model /\ a.text = r.text
  BY <1>4 DEF Answers, Storable
<1> HIDE DEF a
<1>6. Follows(t, s) /\ t.pc = "done" /\ t.answer = a /\ t.calls = s.calls
  BY <1>1, <1>5, EndedFacts
<1> HIDE DEF t
<1>7. Uncalled(s) BY <1>1 DEF Sound, At
<1>8. s.calls = <<>> /\ Cacheable(s) /\ s.name \in Keys BY <1>1, <1>7 DEF Uncalled, At
<1>9. Label(r.name) = Label(s.name) /\ r.model = s.model /\ r.text = s.ask.text
      /\ r.name \in Keys
  BY <1>4 DEF Storable
<1>10. Label(t.answer.name) = Label(t.name) /\ t.answer.name \in Keys /\ t.name \in Keys
  <2>1. t.answer.name = r.name /\ t.name = s.name BY <1>5, <1>6 DEF Follows
  <2> QED BY <1>8, <1>9, <2>1
<1>11. Scoped(t) BY <1>5, <1>6, <1>8, <1>9, <1>10 DEF Scoped, Follows, Cacheable
<1>12. Accounted(t, providers) BY <1>1, <1>5, <1>6, <1>8 DEF Accounted, Follows
<1>13. Sound(t, providers) BY <1>6, <1>11, <1>12 DEF Sound, Follows, At
<1> QED BY <1>1, <1>2, <1>3, <1>13, OneCaller

LEMMA StoreFacts ==
  ASSUME NEW s \in Coroutines, CacheInv, s.answer \in Answers, Storable(s.answer),
         CacheKey(s) = <<Label(s.answer.name), s.answer.model, s.answer.text>>,
         cache' = Store(s)
  PROVE  CacheInv'
<1>1. DOMAIN cache' = DOMAIN cache \cup {CacheKey(s)} BY DEF Store
<1>2. \A key \in DOMAIN cache' : cache'[key] = IF key = CacheKey(s) THEN s.answer ELSE cache[key]
  BY DEF Store
<1>3. ASSUME NEW key \in DOMAIN cache'
      PROVE  /\ cache'[key] \in Answers /\ Storable(cache'[key])
             /\ key = <<Label(cache'[key].name), cache'[key].model, cache'[key].text>>
  <2>1. CASE key = CacheKey(s) BY <1>2, <2>1
  <2>2. CASE key # CacheKey(s)
    <3>1. key \in DOMAIN cache /\ cache'[key] = cache[key] BY <1>1, <1>2, <2>2
    <3> QED BY <3>1 DEF CacheInv
  <2> QED BY <2>1, <2>2
<1> QED BY <1>3 DEF CacheInv

LEMMA CacheSetKeeps ==
  ASSUME GatewayInv, NEW c \in Callers, CacheSet(c) PROVE GatewayInv'
<1> DEFINE s == st[c]
<1>1. /\ s \in Coroutines /\ Sound(s, providers) /\ CacheInv /\ Registry(providers)
      /\ redis \in {"none", "on", "off"}
      /\ s.pc = "setting" /\ s.charged = 0 /\ ~s.answer.cached
  BY CallerFacts DEF CacheSet
<1>2. /\ Becomes(c, Ended(s, s.answer)) /\ UNCHANGED <<providers, redis>>
      /\ cache' \in {cache, Store(s)}
  BY DEF CacheSet
<1> HIDE DEF s
<1>3. Called(s) BY <1>1 DEF Sound, At
<1>4. PICK content \in BOOLEAN : s.answer = Answer(s.name, s.owner, s.model, s.ask, content)
                                /\ content
  BY <1>1, <1>3 DEF Called, At
<1>5. Sound(Ended(s, s.answer), providers) BY <1>1, <1>3, <1>4, AnsweredSound DEF Called
<1>6. /\ s.answer \in Answers /\ Storable(s.answer) /\ s.answer.name = s.name
      /\ s.answer.model = s.model /\ s.answer.text = s.ask.text
  <2> DEFINE a == Answer(s.name, s.owner, s.model, s.ask, content)
  <2>1. s.name \in Names /\ s.owner \in Owners /\ s.model \in Models /\ s.ask \in Requests
    BY <1>1 DEF Coroutines
  <2>2. /\ a \in Answers /\ ~a.error /\ a.name = s.name /\ a.owner = s.owner
        /\ a.model = s.model /\ a.text = s.ask.text
    BY <2>1, AnswerFacts
  <2>3. a.content = content BY DEF Answer
  <2>4. s.owner = "platform" /\ s.name \in Keys BY <1>1, <1>3 DEF Called, At, Cacheable
  <2> HIDE DEF a
  <2>5. s.answer = a /\ content BY <1>4 DEF a
  <2> QED BY <2>2, <2>3, <2>4, <2>5 DEF Storable
<1>7. CacheInv'
  <2>1. CASE cache' = cache BY <2>1, <1>1, SameCache
  <2>2. CASE cache' = Store(s) BY <2>2, <1>1, <1>6, StoreFacts DEF CacheKey
  <2> QED BY <1>2, <2>1, <2>2
<1> QED BY <1>1, <1>2, <1>5, <1>7, OneCaller

LEMMA ExpireKeeps ==
  ASSUME GatewayInv, NEW key \in DOMAIN cache, Expire(key) PROVE GatewayInv'
<1>1. /\ DOMAIN cache' = DOMAIN cache \ {key}
      /\ \A k \in DOMAIN cache' : cache'[k] = cache[k]
  BY DEF Expire
<1>2. CacheInv' BY <1>1 DEF GatewayInv, CacheInv
<1> QED BY <1>2 DEF GatewayInv, ProvidersInv, Expire

LEMMA CallSucceedsKeeps ==
  ASSUME GatewayInv, NEW c \in Callers, NEW content \in BOOLEAN, CallSucceeds(c, content)
  PROVE  GatewayInv'
<1> DEFINE s == st[c]
           a == Answer(s.name, s.owner, s.model, s.ask, content)
           t == [s EXCEPT !.answer = a]
           charges == [t EXCEPT !.pc = "tracking"]
           next == CASE s.chat /\ Cacheable(s) /\ content -> ReachRedis(t, "setting", Ended(t, a))
                     [] s.chat /\ s.ask.user # None -> charges
                     [] OTHER -> Ended(t, a)
<1>1. /\ s \in Coroutines /\ Sound(s, providers) /\ CacheInv /\ Registry(providers)
      /\ redis \in {"none", "on", "off"}
      /\ s.pc = "calling" /\ s.charged = 0 /\ ~s.answer.cached
  BY CallerFacts DEF CallSucceeds
<1>2. Becomes(c, next) /\ UNCHANGED <<providers, redis, cache>> BY DEF CallSucceeds
<1>3. CacheInv' BY <1>1, <1>2, SameCache
<1> HIDE DEF s
<1>4. Called(s) BY <1>1 DEF Sound, At
<1>5. s.calls = <<<<s.name, s.owner>>>> BY <1>4 DEF Called
<1>7. s.name \in Names /\ s.owner \in Owners /\ s.model \in Models /\ s.ask \in Requests
  BY <1>1 DEF Coroutines
<1>8. a \in Answers /\ ~a.cached BY <1>7, AnswerFacts
<1> HIDE DEF a
<1>9. /\ t \in Coroutines /\ t.pc = s.pc /\ t.answer = a
      /\ t.calls = s.calls /\ t.tried = s.tried /\ t.ask = s.ask
      /\ t.chat = s.chat /\ t.name = s.name /\ t.owner = s.owner
      /\ t.model = s.model /\ t.charged = s.charged
  BY <1>1, <1>8 DEF Coroutines
<1> HIDE DEF t
<1>10. Sound(Ended(t, a), providers)
  <2>1. t.calls = <<<<t.name, t.owner>>>> /\ t.charged = 0 BY <1>1, <1>5, <1>9
  <2>2. a = Answer(t.name, t.owner, t.model, t.ask, content) BY <1>9 DEF a
  <2> QED BY <1>9, <2>1, <2>2, AnsweredSound
<1>11. ASSUME s.chat, Cacheable(s), content
       PROVE  Sound(ReachRedis(t, "setting", Ended(t, a)), providers)
  <2>1. Called(t) BY <1>1, <1>4, <1>9, <1>11 DEF Called, At
  <2>2. t.answer = Answer(t.name, t.owner, t.model, t.ask, TRUE)
    BY <1>9, <1>11 DEF a
  <2>3. Cacheable(t) /\ t.chat /\ t.charged = 0 BY <1>1, <1>9, <1>11 DEF Cacheable
  <2>4. Sound(ReachRedis(t, "setting", Ended(t, t.answer)), providers)
    BY <1>1, <1>9, <2>1, <2>2, <2>3, SettingSound
  <2> QED BY <1>9, <2>4
<1>12. ASSUME s.chat, s.ask.user # None PROVE Sound(charges, providers)
  <2>1. "tracking" \in Phases BY DEF Phases
  <2>2. /\ charges \in Coroutines /\ charges.pc = "tracking" /\ charges.answer = a
        /\ charges.calls = s.calls /\ charges.tried = s.tried /\ charges.ask = s.ask
        /\ charges.chat = s.chat /\ charges.name = s.name /\ charges.owner = s.owner
        /\ charges.model = s.model /\ charges.charged = s.charged
    BY <1>9, <2>1 DEF Coroutines
  <2>3. charges.answer = Answer(charges.name, charges.owner, charges.model, charges.ask, content)
    BY <2>2 DEF a
  <2> HIDE DEF charges
  <2>4. Called(charges) BY <1>4, <1>12, <2>2, <2>3 DEF Called, At
  <2> QED BY <1>1, <1>8, <2>2, <2>4 DEF Sound, Scoped, At
<1> HIDE DEF charges
<1>13. Sound(next, providers)
  <2>1. CASE s.chat /\ Cacheable(s) /\ content
    <3>1. s.ask.user = None BY <2>1 DEF Cacheable
    <3> QED BY <2>1, <3>1, <1>11
  <2>2. CASE s.chat /\ ~(Cacheable(s) /\ content) /\ s.ask.user # None BY <2>2, <1>12
  <2>3. CASE ~(s.chat /\ Cacheable(s) /\ content) /\ ~(s.chat /\ s.ask.user # None)
    BY <2>3, <1>10
  <2> QED BY <2>1, <2>2, <2>3
<1> HIDE DEF next
<1> QED BY <1>1, <1>2, <1>3, <1>13, OneCaller

LEMMA RetryKeeps == ASSUME GatewayInv, NEW c \in Callers, Retry(c) PROVE GatewayInv'
<1> DEFINE s == st[c]
           t == [s EXCEPT !.attempt = @ + 1]
<1>1. /\ s \in Coroutines /\ Sound(s, providers) /\ CacheInv /\ Registry(providers)
      /\ redis \in {"none", "on", "off"}
      /\ s.pc = "calling" /\ s.charged = 0 /\ ~s.answer.cached
  BY CallerFacts DEF Retry
<1>2. Becomes(c, t) /\ UNCHANGED <<providers, redis, cache>> BY DEF Retry
<1>3. CacheInv' BY <1>1, <1>2, SameCache
<1> HIDE DEF s
<1>4. /\ t \in Coroutines /\ t.pc = s.pc /\ t.answer = s.answer /\ t.calls = s.calls
      /\ t.tried = s.tried /\ t.ask = s.ask /\ t.chat = s.chat /\ t.name = s.name
      /\ t.owner = s.owner /\ t.model = s.model /\ t.charged = s.charged
  <2>1. s.attempt + 1 \in Nat BY <1>1 DEF Coroutines
  <2> QED BY <1>1, <2>1 DEF Coroutines
<1> HIDE DEF t
<1>5. Called(s) BY <1>1 DEF Sound, At
<1>6. Called(t) BY <1>1, <1>4, <1>5 DEF Called, At
<1>7. Sound(t, providers) BY <1>1, <1>4, <1>6 DEF Sound, Scoped, At
<1> QED BY <1>1, <1>2, <1>3, <1>7, OneCaller

(* Only a user whose own target has answered is charged.                   *)
LEMMA TrackKeeps == ASSUME GatewayInv, NEW c \in Callers, Track(c) PROVE GatewayInv'
<1> DEFINE s == st[c]
           e == Ended(s, s.answer)
<1>1. /\ s \in Coroutines /\ Sound(s, providers) /\ CacheInv /\ Registry(providers)
      /\ redis \in {"none", "on", "off"}
      /\ s.pc = "tracking" /\ s.charged = 0 /\ ~s.answer.cached
  BY CallerFacts DEF Track
<1>2. PICK charged \in {0, 1} : Becomes(c, [e EXCEPT !.charged = @ + charged]) BY DEF Track
<1>3. UNCHANGED <<providers, redis, cache>> BY DEF Track
<1>4. CacheInv' BY <1>1, <1>3, SameCache
<1> HIDE DEF s
<1>5. Called(s) BY <1>1 DEF Sound, At
<1>6. PICK content \in BOOLEAN : s.answer = Answer(s.name, s.owner, s.model, s.ask, content)
  BY <1>1, <1>5 DEF Called
<1>7. s.calls = <<<<s.name, s.owner>>>> /\ s.ask.user # None BY <1>1, <1>5 DEF Called
<1>8. /\ Sound(e, providers) /\ Follows(e, s) /\ e.pc = "done" /\ e.calls = s.calls
      /\ ~e.answer.error /\ ~e.answer.cached
  BY <1>1, <1>6, <1>7, AnsweredSound
<1>9. e \in Coroutines BY <1>8 DEF Sound
<1> DEFINE t == [e EXCEPT !.charged = @ + charged]
<1> HIDE DEF e
<1>10. e.charged = 0 /\ e.ask.user # None BY <1>1, <1>7, <1>8 DEF Follows
<1>11. charged \in Nat /\ e.charged + charged = charged BY <1>10
<1>12. /\ t \in Coroutines /\ t.pc = e.pc /\ t.answer = e.answer /\ t.calls = e.calls
       /\ t.tried = e.tried /\ t.ask = e.ask /\ t.chat = e.chat /\ t.name = e.name
       /\ t.owner = e.owner /\ t.model = e.model /\ t.charged = charged
  BY <1>9, <1>11 DEF Coroutines
<1>13. Becomes(c, t) BY <1>2
<1> HIDE DEF t
<1>14. Len(t.calls) = 1 BY <1>7, <1>8, <1>12
<1>15. Eligible(t, providers) = Eligible(e, providers) BY <1>12 DEF Eligible
<1>16. ASSUME t.chat PROVE Accounted(t, providers)
  <2>1. Accounted(e, providers) BY <1>8, <1>12, <1>16 DEF Sound
  <2>2. charged > 0 => charged = 1 OBVIOUS
  <2> QED BY <1>8, <1>10, <1>12, <1>14, <1>15, <2>1, <2>2 DEF Accounted
<1>17. Sound(t, providers) BY <1>8, <1>12, <1>16 DEF Sound, Scoped, At
<1> QED BY <1>1, <1>3, <1>4, <1>13, <1>17, OneCaller

(* Without fallbacks a failure of another kind of request just ends it.    *)
LEMMA UnchattedSound ==
  ASSUME NEW s \in Coroutines, NEW answer \in Answers, NEW names,
         ~s.chat, s.charged = 0, ~answer.cached
  PROVE  Sound(Ended(s, answer), names)
<1> DEFINE t == Ended(s, answer)
<1>1. Follows(t, s) /\ t.pc = "done" /\ t.answer = answer BY EndedFacts
<1> HIDE DEF t
<1>2. Sound(t, names) BY <1>1 DEF Sound, Scoped, Follows, At
<1> QED BY <1>2 DEF t

LEMMA CallFailsKeeps == ASSUME GatewayInv, NEW c \in Callers, CallFails(c) PROVE GatewayInv'
<1> DEFINE s == st[c]
           a == Failure(s.name, s.model, s.ask)
           t == IF s.chat THEN FallBack(s) ELSE Ended(s, a)
<1>1. /\ s \in Coroutines /\ Sound(s, providers) /\ CacheInv /\ Registry(providers)
      /\ redis \in {"none", "on", "off"}
      /\ s.pc = "calling" /\ s.charged = 0 /\ ~s.answer.cached
  BY CallerFacts DEF CallFails
<1>2. Becomes(c, t) /\ UNCHANGED <<providers, redis, cache>> BY DEF CallFails
<1>3. CacheInv' BY <1>1, <1>2, SameCache
<1> HIDE DEF s
<1>4. Called(s) BY <1>1 DEF Sound, At
<1>5. ASSUME s.chat PROVE Sound(FallBack(s), providers)
  <2>1. /\ Len(s.calls) = 1 /\ s.calls # <<>> /\ s.tried = 0 /\ s.name # None
        /\ s.calls[1] = <<s.name, s.owner>>
    BY <1>4 DEF Called
  <2>2. \A p \in Eligible(s, providers) : ~(p <= s.tried)
    <3>1. DOMAIN providers = 1..Len(providers) /\ Len(providers) \in Nat BY <1>1, RegistryFacts
    <3> QED BY <2>1, <3>1 DEF Eligible
  <2>3. Fallen(s, providers) BY <1>5, <2>1, <2>2 DEF Fallen
  <2> QED BY <1>1, <2>3, FallBackSound
<1>6. ASSUME ~s.chat PROVE Sound(Ended(s, a), providers)
  <2>1. s.name \in Names /\ s.model \in Models /\ s.ask \in Requests BY <1>1 DEF Coroutines
  <2>2. a \in Answers /\ ~a.cached BY <2>1, FailureFacts
  <2> QED BY <1>1, <1>6, <2>2, UnchattedSound
<1>7. Sound(t, providers) BY <1>5, <1>6
<1> HIDE DEF t
<1> QED BY <1>1, <1>2, <1>3, <1>7, OneCaller

LEMMA FallbackSucceedsKeeps ==
  ASSUME GatewayInv, NEW c \in Callers, NEW content \in BOOLEAN, FallbackSucceeds(c, content)
  PROVE  GatewayInv'
<1> DEFINE s == st[c]
           name == Last(s.calls)[1]
           a == Answer(name, "platform", Default(name), s.ask, content)
           t == Ended(s, a)
<1>1. /\ s \in Coroutines /\ Sound(s, providers) /\ CacheInv /\ Registry(providers)
      /\ redis \in {"none", "on", "off"}
      /\ s.pc = "falling" /\ s.charged = 0 /\ ~s.answer.cached
  BY CallerFacts DEF FallbackSucceeds
<1>2. Becomes(c, t) /\ UNCHANGED <<providers, redis, cache>> BY DEF FallbackSucceeds
<1>3. CacheInv' BY <1>1, <1>2, SameCache
<1> HIDE DEF s
<1>4. Fallen(s, providers) /\ Len(s.calls) > 1 BY <1>1 DEF Sound
<1>5. s.calls \in Seq(Names \X Owners) /\ Len(s.calls) \in Nat /\ s.ask \in Requests
  BY <1>1 DEF Coroutines
<1>6. Len(s.calls) \in 2..Len(s.calls) BY <1>4, <1>5
<1>7. PICK p \in Eligible(s, providers) : s.calls[Len(s.calls)] = <<providers[p], "platform">>
  BY <1>4, <1>6 DEF Fallen
<1>8. Last(s.calls) = <<name, "platform">> BY <1>7 DEF Last
<1>9. name \in Names
  <2>1. s.calls[Len(s.calls)] \in Names \X Owners BY <1>5, <1>6
  <2> QED BY <2>1 DEF Last
<1>10. Default(name) \in Models /\ "platform" \in Owners BY DefaultFacts DEF Owners
<1> HIDE DEF name
<1>11. a \in Answers /\ ~a.cached /\ ~a.error /\ a.name = name /\ a.owner = "platform"
  BY <1>5, <1>9, <1>10, AnswerFacts
<1> HIDE DEF a
<1>12. Follows(t, s) /\ t.pc = "done" /\ t.answer = a /\ t.calls = s.calls
  BY <1>1, <1>11, EndedFacts
<1> HIDE DEF t
<1>13. \A i \in 2..Len(s.calls) :
         \E q \in Eligible(s, providers) : s.calls[i] = <<providers[q], "platform">>
  BY <1>4 DEF Fallen
<1>14. \A i, j \in 2..Len(s.calls) : s.calls[i] = s.calls[j] => i = j BY <1>4 DEF Fallen
<1>15. s.calls # <<>> /\ s.calls[1] = <<s.name, s.owner>> BY <1>4 DEF Fallen
<1>18. Eligible(t, providers) = Eligible(s, providers) BY <1>12 DEF Eligible, Follows
<1>16. Accounted(t, providers)
  BY <1>1, <1>8, <1>11, <1>12, <1>13, <1>14, <1>15, <1>18 DEF Accounted, Follows
<1>17. Sound(t, providers) BY <1>1, <1>11, <1>12, <1>16 DEF Sound, Scoped, Follows, At
<1> QED BY <1>1, <1>2, <1>3, <1>17, OneCaller

LEMMA FallbackFailsKeeps ==
  ASSUME GatewayInv, NEW c \in Callers, FallbackFails(c) PROVE GatewayInv'
<1>1. /\ st[c] \in Coroutines /\ Sound(st[c], providers) /\ CacheInv /\ Registry(providers)
      /\ redis \in {"none", "on", "off"}
      /\ st[c].pc = "falling" /\ st[c].charged = 0 /\ ~st[c].answer.cached
  BY CallerFacts DEF FallbackFails
<1>2. Becomes(c, FallBack(st[c])) /\ UNCHANGED <<providers, redis, cache>> BY DEF FallbackFails
<1>3. CacheInv' BY <1>1, <1>2, SameCache
<1>4. Fallen(st[c], providers) BY <1>1 DEF Sound
<1>5. Sound(FallBack(st[c]), providers) BY <1>1, <1>4, FallBackSound
<1> QED BY <1>1, <1>2, <1>3, <1>5, OneCaller

(* The stream fails before any call, so the request is as good as new.     *)
LEMMA StreamStepsKeep ==
  ASSUME GatewayInv, NEW c \in Callers, Token(c) \/ StreamEnds(c) \/ StreamFails(c)
  PROVE  GatewayInv'
<1> DEFINE s == st[c]
           flows == [s EXCEPT !.out = <<"token">>]
           ends == [s EXCEPT !.pc = "done"]
           raises == [s EXCEPT !.pc = "done", !.raised = TRUE]
           asks == [s EXCEPT !.chat = TRUE]
<1>1. /\ s \in Coroutines /\ Sound(s, providers) /\ CacheInv /\ Registry(providers)
      /\ redis \in {"none", "on", "off"}
      /\ s.pc = "streaming" /\ s.charged = 0 /\ ~s.answer.cached
  BY CallerFacts DEF Token, StreamEnds, StreamFails
<1>2. UNCHANGED <<providers, redis, cache>> BY DEF Token, StreamEnds, StreamFails
<1>3. CacheInv' BY <1>1, <1>2, SameCache
<1>4. PICK t \in {flows, ends, raises, Resolving(asks)} : Becomes(c, t)
  BY DEF Token, StreamEnds, StreamFails
<1> HIDE DEF s
<1>5. Uncalled(s) BY <1>1 DEF Sound, At
<1>6. s.calls = <<>> /\ s.tried = 0 /\ ~s.chat BY <1>1, <1>5 DEF Uncalled
<1>7. Sound(flows, providers)
  <2>1. <<"token">> \in Seq({"token", "answer", "empty"}) OBVIOUS
  <2>2. /\ flows \in Coroutines /\ flows.pc = "streaming" /\ flows.answer = s.answer
        /\ flows.calls = s.calls /\ flows.tried = s.tried /\ flows.chat = s.chat
        /\ flows.charged = s.charged
    BY <1>1, <2>1 DEF Coroutines
  <2> HIDE DEF flows
  <2>3. Uncalled(flows) BY <1>6, <2>2 DEF Uncalled, At
  <2> QED BY <1>1, <2>2, <2>3 DEF Sound, Scoped, At
<1>8. Sound(ends, providers) /\ Sound(raises, providers)
  <2>1. "done" \in Phases /\ TRUE \in BOOLEAN BY DEF Phases
  <2>2. /\ ends \in Coroutines /\ ends.pc = "done" /\ ends.answer = s.answer
        /\ ends.chat = s.chat /\ ends.charged = s.charged
    BY <1>1, <2>1 DEF Coroutines
  <2>3. /\ raises \in Coroutines /\ raises.pc = "done" /\ raises.answer = s.answer
        /\ raises.chat = s.chat /\ raises.charged = s.charged
    BY <1>1, <2>1 DEF Coroutines
  <2> HIDE DEF ends, raises
  <2>4. Sound(ends, providers) BY <1>1, <1>6, <2>2 DEF Sound, Scoped, At
  <2>5. Sound(raises, providers) BY <1>1, <1>6, <2>3 DEF Sound, Scoped, At
  <2> QED BY <2>4, <2>5
<1>9. Sound(Resolving(asks), providers)
  <2>1. TRUE \in BOOLEAN OBVIOUS
  <2>2. /\ asks \in Coroutines /\ asks.calls = s.calls /\ asks.tried = s.tried
        /\ asks.charged = s.charged /\ asks.answer = s.answer
    BY <1>1, <2>1 DEF Coroutines
  <2> HIDE DEF asks
  <2>3. Ready(asks) BY <1>1, <1>6, <2>2 DEF Ready
  <2> QED BY <1>1, <2>2, <2>3, ResolvingSound
<1>10. Sound(t, providers) BY <1>4, <1>7, <1>8, <1>9
<1> QED BY <1>1, <1>2, <1>3, <1>4, <1>10, OneCaller

LEMMA GeminiAnswersKeeps ==
  ASSUME GatewayInv, NEW c \in Callers, GeminiAnswers(c) PROVE GatewayInv'
<1> DEFINE s == st[c]
           said == Answer("google", "platform", "gemini", s.ask, TRUE)
           failed == Failure("google", "gemini", s.ask)
<1>1. /\ s \in Coroutines /\ Sound(s, providers) /\ CacheInv /\ Registry(providers)
      /\ redis \in {"none", "on", "off"}
      /\ s.pc = "gemini" /\ s.charged = 0 /\ ~s.answer.cached
  BY CallerFacts DEF GeminiAnswers
<1>2. PICK answer \in {said, failed} : Becomes(c, Ended(s, answer)) BY DEF GeminiAnswers
<1>3. UNCHANGED <<providers, redis, cache>> BY DEF GeminiAnswers
<1>4. CacheInv' BY <1>1, <1>3, SameCache
<1> HIDE DEF s
<1>5. Uncalled(s) BY <1>1 DEF Sound, At
<1>6. ~s.chat BY <1>1, <1>5 DEF Uncalled
<1>7. s.ask \in Requests /\ TRUE \in BOOLEAN BY <1>1 DEF Coroutines
<1>8. "google" \in Names /\ "platform" \in Owners BY DEF Names, Owners
<1>9. "gemini" \in Models
  <2>1. "google" \in Listed /\ DefaultModel["google"] = "gemini" BY DEF Listed, DefaultModel
  <2> QED BY <2>1 DEF Models
<1>10. said \in Answers /\ ~said.cached BY <1>7, <1>8, <1>9, AnswerFacts
<1>11. failed \in Answers /\ ~failed.cached BY <1>7, <1>8, <1>9, FailureFacts
<1> HIDE DEF said, failed
<1>12. Sound(Ended(s, answer), providers)
  BY <1>1, <1>2, <1>6, <1>10, <1>11, UnchattedSound
<1> QED BY <1>1, <1>2, <1>3, <1>4, <1>12, OneCaller

(* The gateway keeps its invariant: what a request has called, and on      *)
(* whose key, is known at each of its awaits, and the cache holds only     *)
(* what requests without a user may share.                                 *)
THEOREM GatewayInvariant == GatewaySpec => []GatewayInv
<1>1. GatewayInit => GatewayInv BY GatewayInitInv
<1>2. GatewayInv /\ [GatewayNext]_gatewayVars => GatewayInv'
  <2> SUFFICES ASSUME GatewayInv, [GatewayNext]_gatewayVars PROVE GatewayInv' OBVIOUS
  <2>1. CASE UNCHANGED gatewayVars
    BY <2>1 DEF gatewayVars, GatewayInv, ProvidersInv, CacheInv
  <2>2. CASE EnsureInit BY <2>2, EnsureInitKeeps
  <2>3. ASSUME NEW key \in DOMAIN cache, Expire(key) PROVE GatewayInv' BY <2>3, ExpireKeeps
  <2>4. ASSUME NEW c \in Callers, Step(c) PROVE GatewayInv'
    <3>1. ASSUME NEW ask \in Asks, Ask(c, ask) PROVE GatewayInv' BY <3>1, AskKeeps
    <3>2. CASE KeyFound(c) BY <3>2, KeyFoundKeeps
    <3>3. CASE Connected(c) BY <3>3, ConnectedKeeps
    <3>4. CASE CacheHit(c) BY <3>4, CacheHitKeeps
    <3>5. CASE CacheMiss(c) BY <3>5, CacheMissKeeps
    <3>6. CASE CacheSet(c) BY <3>6, CacheSetKeeps
    <3>7. ASSUME NEW content \in BOOLEAN, CallSucceeds(c, content) PROVE GatewayInv'
      BY <3>7, CallSucceedsKeeps
    <3>8. ASSUME NEW content \in BOOLEAN, FallbackSucceeds(c, content) PROVE GatewayInv'
      BY <3>8, FallbackSucceedsKeeps
    <3>9. CASE Retry(c) BY <3>9, RetryKeeps
    <3>10. CASE Track(c) BY <3>10, TrackKeeps
    <3>11. CASE CallFails(c) BY <3>11, CallFailsKeeps
    <3>12. CASE FallbackFails(c) BY <3>12, FallbackFailsKeeps
    <3>13. CASE Token(c) \/ StreamEnds(c) \/ StreamFails(c) BY <3>13, StreamStepsKeep
    <3>14. CASE GeminiAnswers(c) BY <3>14, GeminiAnswersKeeps
    <3> QED BY <2>4, <3>1, <3>2, <3>3, <3>4, <3>5, <3>6, <3>7, <3>8, <3>9, <3>10, <3>11,
               <3>12, <3>13, <3>14 DEF Step
  <2> QED BY <2>1, <2>2, <2>3, <2>4 DEF GatewayNext
<1> QED BY <1>1, <1>2, PTL DEF GatewaySpec

(* Providers of the registry with the same label share entries.            *)
LEMMA LabelFacts ==
  ASSUME NEW m \in Keys, NEW n \in Keys, Label(m) = Label(n)
  PROVE  SharesEntries(m, n)
<1>1. m \in ToSet(Order) /\ n \in ToSet(Order) BY KeyFacts
<1> QED BY <1>1, OrderNames DEF Label, OpenAICompatible, SharesEntries

(* No request is answered from the cache unless it may be, and none is     *)
(* filed under a key that is not its own, for any requests, callers,       *)
(* registered providers and number of attempts.                            *)
THEOREM GatewayCacheIsScoped == GatewaySpec => []CacheIsScoped
<1>1. GatewayInv => CacheIsScoped
  <2> SUFFICES ASSUME GatewayInv PROVE CacheIsScoped OBVIOUS
  <2>1. \A key \in DOMAIN cache :
          LET r == cache[key]
          IN  /\ key[2] = r.model /\ key[3] = r.text
              /\ r.owner = "platform" /\ r.content /\ ~r.error
    <3> SUFFICES ASSUME NEW key \in DOMAIN cache
                 PROVE  LET r == cache[key]
                        IN  /\ key[2] = r.model /\ key[3] = r.text
                            /\ r.owner = "platform" /\ r.content /\ ~r.error
      OBVIOUS
    <3>1. /\ Storable(cache[key])
          /\ key = <<Label(cache[key].name), cache[key].model, cache[key].text>>
      BY DEF GatewayInv, CacheInv
    <3>2. key[2] = cache[key].model /\ key[3] = cache[key].text BY <3>1
    <3> QED BY <3>1, <3>2 DEF Storable
  <2>2. \A c \in Callers : Scoped(st[c]) BY DEF GatewayInv, Sound
  <2>3. \A c \in Callers : st[c].answer.cached => SharesEntries(st[c].answer.name, st[c].name)
    BY <2>2, LabelFacts DEF Scoped
  <2> QED BY <2>1, <2>2, <2>3 DEF CacheIsScoped, Scoped, Cacheable
<1> QED BY <1>1, GatewayInvariant, PTL

(* A fallback is never the target, nor one that goes by its label.         *)
LEMMA EligibleFacts ==
  ASSUME NEW s, NEW names, NEW p \in Eligible(s, names), s.name \notin TakenForOpenAI
  PROVE  names[p] # s.name
<1>1. names[p] # Label(s.name) /\ names[p] \in Listed BY DEF Eligible
<1>2. "helix_native" \notin Listed BY DEF Listed, DefaultModel
<1> QED BY <1>1, <1>2 DEF Label, TakenForOpenAI, OpenAICompatible

(* An error means that there was nobody to ask, or that the target and     *)
(* every listed provider was asked, none of them twice (for a target that  *)
(* is taken for openai: all but openai, and only the target twice); any    *)
(* other answer is that of the last call, fallbacks use the platform's     *)
(* key, and only a user whose own target answered is charged; for any      *)
(* requests, callers, registered providers and number of attempts.         *)
THEOREM GatewayAnswerIsAccounted == GatewaySpec => []AnswerIsAccounted
<1>1. GatewayInv => AnswerIsAccounted
  <2> SUFFICES ASSUME GatewayInv, NEW c \in Callers, Done(c), st[c].chat
               PROVE  LET s == st[c]
                          called == {s.calls[i][1] : i \in 1..Len(s.calls)}
                          skipped == IF s.name \in TakenForOpenAI THEN {"openai"} ELSE {}
                      IN /\ s.answer.error =>
                              /\ ~s.answer.content
                              /\ IF s.answer.name = None
                                 THEN s.calls = <<>> /\ s.owner = None
                                 ELSE {s.name} \cup ((Configured \cap Listed) \ skipped)
                                        \subseteq called
                         /\ ~s.answer.error /\ ~s.answer.cached =>
                              Last(s.calls) = <<s.answer.name, s.answer.owner>>
                         /\ \A i \in 2..Len(s.calls) : s.calls[i][2] = "platform"
                         /\ \A i, j \in 1..Len(s.calls) :
                              s.calls[i][1] = s.calls[j][1] /\ i < j =>
                                i = 1 /\ s.name \in TakenForOpenAI
                         /\ s.charged > 0 =>
                              s.charged = 1 /\ Len(s.calls) = 1 /\ s.ask.user # None
    BY DEF AnswerIsAccounted
  <2> DEFINE s == st[c]
             called == {s.calls[i][1] : i \in 1..Len(s.calls)}
             skipped == IF s.name \in TakenForOpenAI THEN {"openai"} ELSE {}
  <2>1. Accounted(s, providers) BY DEF GatewayInv, Sound, Done
  <2>2. s.calls \in Seq(Names \X Owners) /\ Len(s.calls) \in Nat
    BY DEF GatewayInv, Coroutines
  <2> HIDE DEF s
  <2>3. ASSUME s.answer.error, s.answer.name # None PROVE s.name \in called
    <3>1. s.calls # <<>> /\ s.calls[1] = <<s.name, s.owner>> BY <2>1, <2>3 DEF Accounted
    <3>2. 1 \in 1..Len(s.calls) /\ s.calls[1][1] = s.name BY <3>1, <2>2
    <3> QED BY <3>2
  <2>4. ASSUME s.answer.error, s.answer.name # None,
               NEW n \in (Configured \cap Listed) \ skipped
        PROVE  n \in called
    <3>1. PICK p \in DOMAIN providers : n = providers[p] BY DEF Configured, ToSet
    <3>2. CASE n = Label(s.name)
      <4>1. s.name \notin TakenForOpenAI
        BY <2>4, <3>2 DEF Label, TakenForOpenAI, OpenAICompatible
      <4>2. "unknown" \notin Listed BY DEF Listed, DefaultModel
      <4>3. n = s.name
        BY <2>4, <3>2, <4>1, <4>2 DEF Label, TakenForOpenAI, OpenAICompatible
      <4> QED BY <2>3, <2>4, <4>3
    <3>3. CASE n # Label(s.name)
      <4>1. p \in Eligible(s, providers) BY <2>4, <3>1, <3>3 DEF Eligible
      <4>2. PICK i \in 1..Len(s.calls) : s.calls[i][1] = n
        BY <2>1, <2>4, <3>1, <4>1 DEF Accounted
      <4> QED BY <4>2
    <3> QED BY <3>2, <3>3
  <2>5. ASSUME NEW i \in 2..Len(s.calls)
        PROVE  \E p \in Eligible(s, providers) :
                 s.calls[i] = <<providers[p], "platform">> /\ s.calls[i][1] = providers[p]
    BY <2>1 DEF Accounted
  <2>6. \A i \in 2..Len(s.calls) : s.calls[i][2] = "platform" BY <2>5
  <2>7. ASSUME NEW i \in 1..Len(s.calls), NEW j \in 1..Len(s.calls),
               s.calls[i][1] = s.calls[j][1], i < j
        PROVE  i = 1 /\ s.name \in TakenForOpenAI
    <3>1. i \in Nat /\ j \in Nat /\ j \in 2..Len(s.calls) BY <2>2, <2>7
    <3>2. PICK q \in Eligible(s, providers) :
            s.calls[j] = <<providers[q], "platform">> /\ s.calls[j][1] = providers[q]
      BY <3>1, <2>5
    <3>3. i = 1
      <4> SUFFICES ASSUME i # 1 PROVE FALSE OBVIOUS
      <4>1. i \in 2..Len(s.calls) BY <2>2, <3>1
      <4>2. PICK p \in Eligible(s, providers) :
              s.calls[i] = <<providers[p], "platform">> /\ s.calls[i][1] = providers[p]
        BY <4>1, <2>5
      <4>3. s.calls[i] = s.calls[j] BY <2>7, <3>2, <4>2
      <4>4. i = j BY <2>1, <3>1, <4>1, <4>3 DEF Accounted
      <4> QED BY <2>7, <3>1, <4>4
    <3>4. s.name \in TakenForOpenAI
      <4>1. s.calls # <<>> BY <2>2, <3>1
      <4>2. s.calls[1] = <<s.name, s.owner>> BY <2>1, <4>1 DEF Accounted
      <4>3. providers[q] = s.name BY <2>7, <3>2, <3>3, <4>2
      <4> QED BY <4>3, EligibleFacts
    <3> QED BY <3>3, <3>4
  <2>8. /\ s.answer.error =>
             ~s.answer.content /\ (s.answer.name = None => s.calls = <<>> /\ s.owner = None)
        /\ ~s.answer.error /\ ~s.answer.cached =>
             Last(s.calls) = <<s.answer.name, s.answer.owner>>
        /\ s.charged > 0 => s.charged = 1 /\ Len(s.calls) = 1 /\ s.ask.user # None
    BY <2>1 DEF Accounted
  <2> HIDE DEF called, skipped
  <2> QED BY <2>3, <2>4, <2>6, <2>7, <2>8 DEF s, called, skipped
<1> QED BY <1>1, GatewayInvariant, PTL
-----------------------------------------------------------------------------
(***************************************************************************)
(* The engine of thoughts.  What one turn of a call leaves alone, and what *)
(* a call that is alone on the engine has found out so far.                *)
(***************************************************************************)
PathKinds == {"exploration", "validation", "elimination", "convergence"}
SolutionPaths == [steps : {s \in Seq(PathKinds) : s # <<>>}, score : Int, valid : BOOLEAN]
Stages == {"new", "decomposing", "exploring", "gathering", "validating", "converging",
           "returned", "raised"}
PathRefs == Calls \X Nat
Lists == {refs \in SUBSET PathRefs : IsFiniteSet(refs)}
Engines == [parallel : BOOLEAN, paths : Lists, step : Nat]

Existing(refs, ps) == \A r \in refs : r[2] \in DOMAIN ps[r[1]]

ThoughtsTyped ==
  /\ engine \in Engines
  /\ stage \in [Calls -> Stages]
  /\ paths \in [Calls -> Seq(SolutionPaths)]
  /\ todo \in [Calls -> SUBSET Nat]
  /\ list \in [Calls -> Lists]
  /\ best \in [Calls -> PathRefs \cup {NoPath}]
  /\ result = [c \in Calls |-> result[c]]
  /\ overlapped \subseteq Calls

Rooted ==
  /\ Existing(engine.paths, paths)
  /\ \A c \in Calls :
       /\ Existing(list[c], paths)
       /\ todo[c] \subseteq DOMAIN paths[c]
       /\ stage[c] = "converging" => best[c] \in PathRefs /\ Existing({best[c]}, paths)
       /\ stage[c] = "validating" => list[c] # {}
       /\ stage[c] # "validating" => list[c] = {}
       /\ stage[c] \in {"new", "decomposing"} => paths[c] = <<>>

(* A call that is not among the overlapped is the only one while it runs,  *)
(* and no later call knows its paths.                                      *)
NoneOf(refs, c) == \A r \in refs : r[1] # c

Apart ==
  /\ \A c \in Active \ overlapped : Active = {c}
  /\ \A c \in Calls \ overlapped : stage[c] = "returned" /\ Active # {} =>
       /\ NoneOf(engine.paths, c)
       /\ \A d \in Active : /\ NoneOf(list[d], c)
                            /\ stage[d] = "converging" => best[d][1] # c

(* All paths of a call are in the list, and the counter counts their steps. *)
Counted(c, own, step) == step = 1 + Cardinality(Explorations(own))
Complete(c, refs, own, step) == refs = References(c, own) /\ Counted(c, own, step)

Valid(c, own) == {r \in References(c, own) : IsValid(own[r[2]])}
Judged(path) == IsValid(path) <=> Reaches(path.score)
Validated(path) == EndsWith(path, "validation") /\ Judged(path)
Sorted(own) ==
  \A i \in DOMAIN own : /\ EndsWith(own[i], "elimination") <=> ~IsValid(own[i])
                        /\ Judged(own[i])
IsBest(r, c, own) ==
  \E i \in DOMAIN own :
    /\ r = <<c, i>> /\ IsValid(own[i])
    /\ \A j \in DOMAIN own : /\ own[j].score <= own[i].score
                             /\ own[j].score = own[i].score => i <= j

FoundOut(c) ==
  /\ stage[c] = "decomposing" => engine.step = 1
  /\ stage[c] \in {"exploring", "gathering"} =>
       Complete(c, engine.paths, paths[c], engine.step)
  /\ stage[c] = "validating" =>
       /\ Complete(c, engine.paths, paths[c], engine.step)
       /\ list[c] \subseteq engine.paths
       /\ \A i \in DOMAIN paths[c] : <<c, i>> \notin list[c] => Validated(paths[c][i])
  /\ stage[c] = "converging" =>
       /\ Counted(c, paths[c], engine.step)
       /\ engine.paths = Valid(c, paths[c])
       /\ Sorted(paths[c]) /\ IsBest(best[c], c, paths[c])

ThoughtsInv ==
  /\ ThoughtsTyped /\ Rooted /\ Apart
  /\ \A c \in Active \ overlapped : FoundOut(c)
  /\ BestPathWins

LEMMA SequenceOf ==
  ASSUME NEW T, NEW n \in Nat, NEW f \in [1..n -> T]
  PROVE  f \in Seq(T) /\ Len(f) = n /\ DOMAIN f = 1..n
OBVIOUS

LEMMA LongerFacts ==
  ASSUME NEW path \in SolutionPaths, NEW kind \in PathKinds
  PROVE  /\ Longer(path, kind) \in SolutionPaths
         /\ Longer(path, kind).score = path.score /\ Longer(path, kind).valid = path.valid
         /\ Longer(path, kind).steps = Append(path.steps, kind)
         /\ EndsWith(Longer(path, kind), kind)
<1>1. path.steps \in Seq(PathKinds) BY DEF SolutionPaths
<1>2. /\ Append(path.steps, kind) \in Seq(PathKinds) /\ Append(path.steps, kind) # <<>>
      /\ Len(Append(path.steps, kind)) = Len(path.steps) + 1
      /\ Append(path.steps, kind)[Len(path.steps) + 1] = kind
  BY <1>1
<1>3. Longer(path, kind) = [path EXCEPT !.steps = Append(path.steps, kind)] BY DEF Longer
<1>4. Longer(path, kind).steps = Append(path.steps, kind) /\ Longer(path, kind).score = path.score /\ Longer(path, kind).valid = path.valid
  BY <1>3 DEF SolutionPaths
<1>5. Longer(path, kind) \in SolutionPaths BY <1>2, <1>3 DEF SolutionPaths
<1> QED BY <1>2, <1>4, <1>5 DEF EndsWith

LEMMA RatedFacts ==
  ASSUME NEW path \in SolutionPaths, NEW score \in Int
  PROVE  /\ Rated(path, score) \in SolutionPaths
         /\ Rated(path, score).steps = Append(path.steps, "validation")
         /\ Validated(Rated(path, score))
<1> DEFINE p == [path EXCEPT !.score = score, !.valid = Reaches(score)]
<1>0. Reaches(score) \in BOOLEAN BY DEF Reaches
<1>1. /\ p \in SolutionPaths /\ p.steps = path.steps
      /\ p.score = score /\ p.valid = Reaches(score)
  BY <1>0 DEF SolutionPaths
<1>2. "validation" \in PathKinds BY DEF PathKinds
<1>3. Rated(path, score) = Longer(p, "validation") BY DEF Rated
<1> HIDE DEF p
<1>4. /\ Longer(p, "validation") \in SolutionPaths
      /\ Longer(p, "validation").score = p.score /\ Longer(p, "validation").valid = p.valid
      /\ Longer(p, "validation").steps = Append(path.steps, "validation")
      /\ EndsWith(Longer(p, "validation"), "validation")
  BY <1>1, <1>2, LongerFacts
<1>5. Judged(Rated(path, score)) BY <1>1, <1>3, <1>4 DEF Judged, IsValid
<1> QED BY <1>3, <1>4, <1>5 DEF Validated

LEMMA MarkedFacts ==
  ASSUME NEW ps \in [Calls -> Seq(SolutionPaths)], NEW refs, NEW kind \in PathKinds
  PROVE  /\ Marked(ps, refs, kind) \in [Calls -> Seq(SolutionPaths)]
         /\ \A d \in Calls :
              /\ DOMAIN Marked(ps, refs, kind)[d] = DOMAIN ps[d]
              /\ \A i \in DOMAIN ps[d] :
                   /\ Marked(ps, refs, kind)[d][i].score = ps[d][i].score /\ Marked(ps, refs, kind)[d][i].valid = ps[d][i].valid
                   /\ <<d, i>> \in refs => Marked(ps, refs, kind)[d][i] = Longer(ps[d][i], kind)
                   /\ <<d, i>> \notin refs => Marked(ps, refs, kind)[d][i] = ps[d][i]
<1> DEFINE m == Marked(ps, refs, kind)
<1>1. ASSUME NEW d \in Calls
      PROVE  /\ m[d] \in Seq(SolutionPaths) /\ DOMAIN m[d] = DOMAIN ps[d]
             /\ \A i \in DOMAIN ps[d] :
                   /\ m[d][i].score = ps[d][i].score /\ m[d][i].valid = ps[d][i].valid
                   /\ <<d, i>> \in refs => m[d][i] = Longer(ps[d][i], kind)
                   /\ <<d, i>> \notin refs => m[d][i] = ps[d][i]
  <2>1. m[d] = [i \in DOMAIN ps[d] |->
                  IF <<d, i>> \in refs THEN Longer(ps[d][i], kind) ELSE ps[d][i]]
    BY DEF Marked
  <2>2. ps[d] \in Seq(SolutionPaths) OBVIOUS
  <2>3. DOMAIN ps[d] = 1..Len(ps[d]) /\ Len(ps[d]) \in Nat BY <2>2
  <2>4. \A i \in DOMAIN ps[d] : ps[d][i] \in SolutionPaths BY <2>2
  <2>5. \A i \in DOMAIN ps[d] : /\ Longer(ps[d][i], kind) \in SolutionPaths
                                /\ Longer(ps[d][i], kind).score = ps[d][i].score /\ Longer(ps[d][i], kind).valid = ps[d][i].valid
    BY <2>4, LongerFacts
  <2>6. m[d] \in [1..Len(ps[d]) -> SolutionPaths] BY <2>1, <2>3, <2>4, <2>5
  <2>7. m[d] \in Seq(SolutionPaths) BY <2>3, <2>6, SequenceOf
  <2>8. DOMAIN m[d] = DOMAIN ps[d] BY <2>1
  <2> HIDE DEF m
  <2> QED BY <2>1, <2>5, <2>7, <2>8
<1>2. m = [d \in Calls |-> m[d]] BY DEF Marked
<1> HIDE DEF m
<1>3. m \in [Calls -> Seq(SolutionPaths)] BY <1>1, <1>2
<1> QED BY <1>1, <1>3 DEF m

(* The explored steps, and what adds to them.                              *)
LEMMA ExplorationsAre ==
  ASSUME NEW own
  PROVE  \A p : p \in Explorations(own) <=>
           \E i \in DOMAIN own : \E n \in 2..Len(own[i].steps) :
             own[i].steps[n] = "exploration" /\ p = <<i, n>>
BY DEF Explorations

LEMMA UnionOfFinite ==
  ASSUME NEW n \in Nat, NEW S, NEW f, f = [i \in 1..n |-> f[i]],
         \A i \in 1..n : IsFiniteSet(f[i]),
         S = UNION {f[i] : i \in 1..n}
  PROVE  IsFiniteSet(S)
<1>1. IsFiniteSet(1..n) BY FS_Interval
<1>2. IsFiniteSet({f[i] : i \in 1..n})
  <2> DEFINE T == {f[i] : i \in 1..n}
  <2>1. f \in Surjection(1..n, T) BY DEF Surjection
  <2> HIDE DEF T
  <2>2. IsFiniteSet(T) BY <1>1, <2>1, FS_Surjection
  <2> QED BY <2>2 DEF T
<1>3. \A T \in {f[i] : i \in 1..n} : IsFiniteSet(T) OBVIOUS
<1> QED BY <1>2, <1>3, FS_UNION

LEMMA PairsFinite ==
  ASSUME NEW i, NEW N, IsFiniteSet(N)
  PROVE  IsFiniteSet({<<i, n>> : n \in N})
<1> DEFINE T == {<<i, n>> : n \in N}
           f == [n \in N |-> <<i, n>>]
<1>1. f \in Surjection(N, T) BY DEF Surjection
<1> HIDE DEF T, f
<1>2. IsFiniteSet(T) BY <1>1, FS_Surjection
<1> QED BY <1>2 DEF T

LEMMA ExplorationsFinite ==
  ASSUME NEW own \in Seq(SolutionPaths)
  PROVE  IsFiniteSet(Explorations(own)) /\ Cardinality(Explorations(own)) \in Nat
<1> DEFINE at(i) == {m \in 2..Len(own[i].steps) : own[i].steps[m] = "exploration"}
           f == [i \in DOMAIN own |-> {<<i, n>> : n \in at(i)}]
<1>1. DOMAIN own = 1..Len(own) /\ Len(own) \in Nat OBVIOUS
<1>2. ASSUME NEW i \in 1..Len(own) PROVE IsFiniteSet(f[i])
  <2>1. own[i] \in SolutionPaths BY <1>1
  <2>2. Len(own[i].steps) \in Nat BY <2>1 DEF SolutionPaths
  <2>3. IsFiniteSet(2..Len(own[i].steps))
    <3>1. Len(own[i].steps) \in Int /\ 2 \in Int BY <2>2
    <3> QED BY <3>1, FS_Interval
  <2>4. at(i) \subseteq 2..Len(own[i].steps) OBVIOUS
  <2>5. IsFiniteSet(at(i)) BY <2>3, <2>4, FS_Subset
  <2> HIDE DEF at
  <2>6. IsFiniteSet({<<i, n>> : n \in at(i)}) BY <2>5, PairsFinite
  <2> QED BY <1>1, <2>6
<1>3. Explorations(own) = UNION {f[i] : i \in 1..Len(own)} BY <1>1 DEF Explorations
<1>4. f = [i \in 1..Len(own) |-> f[i]] BY <1>1
<1> HIDE DEF f
<1>5. IsFiniteSet(Explorations(own)) BY <1>1, <1>2, <1>3, <1>4, UnionOfFinite
<1> QED BY <1>5, FS_CardinalityType

LEMMA MissingFinite ==
  ASSUME NEW own \in Seq(SolutionPaths)
  PROVE  IsFiniteSet(Missing(own)) /\ Cardinality(Missing(own)) \in Nat
<1> DEFINE f == [i \in DOMAIN own |-> {<<i, n>> : n \in (Len(own[i].steps) + 1)..MaxDepth}]
<1>1. DOMAIN own = 1..Len(own) /\ Len(own) \in Nat /\ MaxDepth \in Nat BY ThoughtsAssumption
<1>2. ASSUME NEW i \in 1..Len(own) PROVE IsFiniteSet(f[i])
  <2>1. own[i] \in SolutionPaths BY <1>1
  <2>2. Len(own[i].steps) \in Nat BY <2>1 DEF SolutionPaths
  <2>3. IsFiniteSet((Len(own[i].steps) + 1)..MaxDepth)
    <3>1. Len(own[i].steps) + 1 \in Int /\ MaxDepth \in Int BY <1>1, <2>2
    <3> QED BY <3>1, FS_Interval
  <2>4. IsFiniteSet({<<i, n>> : n \in (Len(own[i].steps) + 1)..MaxDepth}) BY <2>3, PairsFinite
  <2> QED BY <1>1, <2>4
<1>3. Missing(own) = UNION {f[i] : i \in 1..Len(own)} BY <1>1 DEF Missing
<1>4. f = [i \in 1..Len(own) |-> f[i]] BY <1>1
<1> HIDE DEF f
<1>5. IsFiniteSet(Missing(own)) BY <1>1, <1>2, <1>3, <1>4, UnionOfFinite
<1> QED BY <1>5, FS_CardinalityType

(* Steps of other kinds do not count. *)
LEMMA OtherStepsDontCount ==
  ASSUME NEW own \in Seq(SolutionPaths), NEW other \in Seq(SolutionPaths),
         DOMAIN other = DOMAIN own,
         \A i \in DOMAIN own : \/ other[i].steps = own[i].steps
                               \/ \E kind \in PathKinds \ {"exploration"} :
                                    other[i].steps = Append(own[i].steps, kind)
  PROVE  Explorations(other) = Explorations(own)
<1>1. ASSUME NEW i \in DOMAIN own
      PROVE  {n \in 2..Len(other[i].steps) : other[i].steps[n] = "exploration"}
               = {n \in 2..Len(own[i].steps) : own[i].steps[n] = "exploration"}
  <2>1. own[i] \in SolutionPaths OBVIOUS
  <2> DEFINE s == own[i].steps
             o == other[i].steps
  <2>2. s \in Seq(PathKinds) BY <2>1 DEF SolutionPaths
  <2>3. CASE o = s BY <2>3
  <2>4. ASSUME NEW kind \in PathKinds \ {"exploration"}, o = Append(s, kind)
        PROVE  {n \in 2..Len(o) : o[n] = "exploration"} = {n \in 2..Len(s) : s[n] = "exploration"}
    <3> HIDE DEF s, o
    <3>1. /\ Len(o) = Len(s) + 1 /\ Len(s) \in Nat /\ o[Len(s) + 1] # "exploration"
          /\ \A n \in 1..Len(s) : o[n] = s[n]
      BY <2>2, <2>4
    <3>2. \A n : n \in 2..Len(o) <=> n \in 2..Len(s) \/ (n = Len(s) + 1 /\ n >= 2) BY <3>1
    <3>3. \A n \in 2..Len(s) : n \in 1..Len(s) BY <3>1
    <3> QED BY <3>1, <3>2, <3>3
  <2> QED BY <2>3, <2>4
<1>2. \A p : p \in Explorations(other) <=> p \in Explorations(own)
  <2>1. ASSUME NEW i \in DOMAIN own, NEW n
        PROVE  (n \in 2..Len(other[i].steps) /\ other[i].steps[n] = "exploration")
                 <=> (n \in 2..Len(own[i].steps) /\ own[i].steps[n] = "exploration")
    BY <1>1
  <2> QED BY <2>1, ExplorationsAre
<1> QED BY <1>2

LEMMA ExplorationCounts ==
  ASSUME NEW own \in Seq(SolutionPaths), NEW i \in DOMAIN own
  PROVE  LET more == [own EXCEPT ![i] = Longer(@, "exploration")]
         IN  /\ more \in Seq(SolutionPaths) /\ DOMAIN more = DOMAIN own
             /\ Cardinality(Explorations(more)) = Cardinality(Explorations(own)) + 1
<1> DEFINE more == [own EXCEPT ![i] = Longer(@, "exploration")]
           s == own[i].steps
           o == more[i].steps
           new == <<i, Len(s) + 1>>
<1>1. own[i] \in SolutionPaths /\ "exploration" \in PathKinds BY DEF PathKinds
<1>2. Longer(own[i], "exploration") \in SolutionPaths
      /\ Longer(own[i], "exploration").steps = Append(s, "exploration")
  BY <1>1, LongerFacts
<1>3. s \in Seq(PathKinds) /\ s # <<>> BY <1>1 DEF SolutionPaths
<1>4. more[i] = Longer(own[i], "exploration") /\ DOMAIN more = DOMAIN own
      /\ \A j \in DOMAIN own : j # i => more[j] = own[j]
  OBVIOUS
<1>5. more \in Seq(SolutionPaths)
  <2>1. DOMAIN own = 1..Len(own) /\ Len(own) \in Nat OBVIOUS
  <2>2. more \in [1..Len(own) -> SolutionPaths] BY <1>2, <2>1
  <2> HIDE DEF more
  <2> QED BY <2>1, <2>2, SequenceOf
<1> HIDE DEF more
<1>6. o = Append(s, "exploration") BY <1>2, <1>4
<1> HIDE DEF o
<1>7. /\ Len(s) \in Nat /\ Len(s) >= 1
      /\ Len(o) = Len(s) + 1 /\ o[Len(s) + 1] = "exploration"
      /\ \A n \in 1..Len(s) : o[n] = s[n]
  BY <1>3, <1>6
<1>8. \A n : (n \in 2..Len(o) /\ o[n] = "exploration")
               <=> ((n \in 2..Len(s) /\ s[n] = "exploration") \/ n = Len(s) + 1)
  <2>1. \A n : n \in 2..Len(o) <=> n \in 2..Len(s) \/ n = Len(s) + 1 BY <1>7
  <2>2. \A n \in 2..Len(s) : n \in 1..Len(s) BY <1>7
  <2> QED BY <1>7, <2>1, <2>2
<1> HIDE DEF s
<1>9. Explorations(more) = Explorations(own) \cup {new}
  <2>1. ASSUME NEW p PROVE p \in Explorations(more) <=> p \in Explorations(own) \/ p = new
    <3>1. p \in Explorations(more) <=>
            \E j \in DOMAIN own : \E n \in 2..Len(more[j].steps) :
              more[j].steps[n] = "exploration" /\ p = <<j, n>>
      BY <1>4, ExplorationsAre
    <3>2. p \in Explorations(own) <=>
            \E j \in DOMAIN own : \E n \in 2..Len(own[j].steps) :
              own[j].steps[n] = "exploration" /\ p = <<j, n>>
      BY ExplorationsAre
    <3>3. ASSUME p \in Explorations(more) PROVE p \in Explorations(own) \/ p = new
      <4>0. PICK j \in DOMAIN own : \E n \in 2..Len(more[j].steps) :
                more[j].steps[n] = "exploration" /\ p = <<j, n>>
        BY <3>1, <3>3
      <4>1. PICK n \in 2..Len(more[j].steps) : more[j].steps[n] = "exploration" /\ p = <<j, n>>
        BY <4>0
      <4>2. CASE j # i BY <1>4, <3>2, <4>1, <4>2
      <4>3. CASE j = i
        <5>1. (n \in 2..Len(s) /\ s[n] = "exploration") \/ n = Len(s) + 1
          BY <1>8, <4>1, <4>3 DEF o
        <5> QED BY <3>2, <4>1, <4>3, <5>1 DEF s
      <4> QED BY <4>2, <4>3
    <3>4. ASSUME p = new PROVE p \in Explorations(more)
      <4>1. Len(s) + 1 \in 2..Len(o) /\ o[Len(s) + 1] = "exploration" BY <1>8
      <4> QED BY <3>1, <3>4, <4>1 DEF o
    <3>5. ASSUME p \in Explorations(own) PROVE p \in Explorations(more)
      <4>0. PICK j \in DOMAIN own : \E n \in 2..Len(own[j].steps) :
                own[j].steps[n] = "exploration" /\ p = <<j, n>>
        BY <3>2, <3>5
      <4>1. PICK n \in 2..Len(own[j].steps) : own[j].steps[n] = "exploration" /\ p = <<j, n>>
        BY <4>0
      <4>2. CASE j # i BY <1>4, <3>1, <4>1, <4>2
      <4>3. CASE j = i
        <5>1. n \in 2..Len(o) /\ o[n] = "exploration" BY <1>8, <4>1, <4>3 DEF s
        <5> QED BY <3>1, <4>1, <4>3, <5>1 DEF o
      <4> QED BY <4>2, <4>3
    <3> QED BY <3>3, <3>4, <3>5
  <2> QED BY <2>1
<1>10. new \notin Explorations(own)
  <2>1. SUFFICES ASSUME NEW j \in DOMAIN own, NEW n \in 2..Len(own[j].steps), new = <<j, n>>
                 PROVE  FALSE
    BY ExplorationsAre
  <2>2. j = i /\ n = Len(s) + 1 BY <2>1
  <2> QED BY <1>7, <2>2 DEF s
<1>11. Cardinality(Explorations(more)) = Cardinality(Explorations(own)) + 1
  BY <1>9, <1>10, ExplorationsFinite, FS_AddElement
<1> QED BY <1>4, <1>5, <1>11 DEF more

LEMMA FilledFacts ==
  ASSUME NEW own \in Seq(SolutionPaths)
  PROVE  /\ Filled(own) \in Seq(SolutionPaths) /\ DOMAIN Filled(own) = DOMAIN own
         /\ Cardinality(Explorations(Filled(own)))
              = Cardinality(Explorations(own)) + Cardinality(Missing(own))
         /\ \A i \in DOMAIN own : Filled(own)[i].score = own[i].score
<1> DEFINE full == Filled(own)
           rest(i) == [n \in 1..(MaxDepth - Len(own[i].steps)) |-> "exploration"]
<1>0. MaxDepth \in Nat BY ThoughtsAssumption
<1>1. ASSUME NEW i \in DOMAIN own
      PROVE  /\ full[i] \in SolutionPaths /\ full[i].score = own[i].score
             /\ Len(own[i].steps) \in Nat /\ Len(own[i].steps) >= 1
             /\ \A n : (n \in 2..Len(full[i].steps) /\ full[i].steps[n] = "exploration")
                         <=> \/ n \in 2..Len(own[i].steps) /\ own[i].steps[n] = "exploration"
                             \/ n \in (Len(own[i].steps) + 1)..MaxDepth
  <2>1. own[i] \in SolutionPaths OBVIOUS
  <2> DEFINE s == own[i].steps
             k == IF MaxDepth > Len(s) THEN MaxDepth - Len(s) ELSE 0
  <2>2. s \in Seq(PathKinds) /\ s # <<>> BY <2>1 DEF SolutionPaths
  <2>3. Len(s) \in Nat /\ Len(s) >= 1 /\ k \in Nat BY <1>0, <2>2
  <2>4. 1..(MaxDepth - Len(s)) = 1..k BY <1>0, <2>3
  <2>5. rest(i) \in [1..k -> PathKinds] BY <2>4 DEF PathKinds
  <2>6. rest(i) \in Seq(PathKinds) /\ Len(rest(i)) = k
    <3> DEFINE f == rest(i)
    <3>1. f \in [1..k -> PathKinds] /\ k \in Nat BY <2>3, <2>5
    <3> HIDE DEF f, k
    <3>2. f \in Seq(PathKinds) /\ Len(f) = k BY <3>1, SequenceOf
    <3> QED BY <3>2 DEF f
  <2>7. full[i] = [own[i] EXCEPT !.steps = s \o rest(i)] BY DEF Filled
  <2>8. \A n \in 1..k : rest(i)[n] = "exploration" BY <2>4
  <2> DEFINE o == s \o rest(i)
             r == rest(i)
  <2> HIDE DEF s, k, rest, full
  <2>9. /\ o \in Seq(PathKinds) /\ o # <<>> /\ Len(o) = Len(s) + k
        /\ \A n \in 1..Len(s) : o[n] = s[n]
        /\ \A n \in 1..k : o[Len(s) + n] = "exploration"
    <3>1. /\ s \o r \in Seq(PathKinds) /\ Len(s \o r) = Len(s) + Len(r)
          /\ \A n \in 1..Len(s) : (s \o r)[n] = s[n]
          /\ \A n \in 1..Len(r) : (s \o r)[Len(s) + n] = r[n]
      <4> HIDE DEF r
      <4>1. r \in Seq(PathKinds) BY <2>6 DEF r
      <4> QED BY <2>2, <4>1, JoinFacts
    <3>2. Len(o) # 0 BY <2>3, <2>6, <3>1
    <3>3. o # <<>> BY <3>2
    <3> QED BY <2>6, <2>8, <3>1, <3>3
  <2>10. full[i].steps = o /\ full[i].score = own[i].score /\ full[i] \in SolutionPaths
    BY <2>1, <2>7, <2>9 DEF SolutionPaths
  <2> HIDE DEF o
  <2>11. ASSUME NEW n
         PROVE  (n \in 2..Len(o) /\ o[n] = "exploration")
                  <=> \/ n \in 2..Len(s) /\ s[n] = "exploration"
                      \/ n \in (Len(s) + 1)..MaxDepth
    <3>1. ASSUME n \in 2..Len(s) PROVE n \in 1..Len(s) /\ n \in 2..Len(o) /\ o[n] = s[n]
      BY <2>3, <2>9, <3>1
    <3>2. ASSUME n \in (Len(s) + 1)..MaxDepth
          PROVE  n \in 2..Len(o) /\ o[n] = "exploration"
      <4>1. n \in Nat /\ n > Len(s) /\ n <= MaxDepth BY <1>0, <2>3, <3>2
      <4>2. k = MaxDepth - Len(s) BY <1>0, <2>3, <4>1 DEF k
      <4>3. n - Len(s) \in 1..k /\ Len(s) + (n - Len(s)) = n BY <1>0, <2>3, <4>1, <4>2
      <4>4. o[Len(s) + (n - Len(s))] = "exploration" BY <2>9, <4>3
      <4>5. n \in 2..Len(o) BY <1>0, <2>3, <2>9, <4>1, <4>2
      <4> QED BY <4>3, <4>4, <4>5
    <3>3. ASSUME n \in 2..Len(o), n \notin 2..Len(s)
          PROVE  n \in (Len(s) + 1)..MaxDepth
      <4>1. n \in Nat /\ n > Len(s) /\ n <= Len(s) + k BY <2>3, <2>9, <3>3
      <4>2. k > 0 BY <2>3, <4>1
      <4>3. k = MaxDepth - Len(s) BY <4>2 DEF k
      <4> QED BY <1>0, <2>3, <4>1, <4>3
    <3> QED BY <3>1, <3>2, <3>3
  <2> QED BY <2>3, <2>10, <2>11 DEF s
<1>2. DOMAIN full = DOMAIN own BY DEF Filled
<1> HIDE DEF full
<1>3. full \in Seq(SolutionPaths)
  <2>1. DOMAIN own = 1..Len(own) /\ Len(own) \in Nat OBVIOUS
  <2>2. full = [i \in 1..Len(own) |-> full[i]] BY <1>2, <2>1 DEF full, Filled
  <2>3. full \in [1..Len(own) -> SolutionPaths] BY <1>1, <2>1, <2>2
  <2> QED BY <2>1, <2>3, SequenceOf
<1>4. ASSUME NEW p
      PROVE  p \in Explorations(full) <=> p \in Explorations(own) \/ p \in Missing(own)
  <2>1. p \in Explorations(full) <=>
          \E i \in DOMAIN own : \E n \in 2..Len(full[i].steps) :
            full[i].steps[n] = "exploration" /\ p = <<i, n>>
    BY <1>2, ExplorationsAre
  <2>2. p \in Explorations(own) <=>
          \E i \in DOMAIN own : \E n \in 2..Len(own[i].steps) :
            own[i].steps[n] = "exploration" /\ p = <<i, n>>
    BY ExplorationsAre
  <2>3. p \in Missing(own) <=>
          \E i \in DOMAIN own : \E n \in (Len(own[i].steps) + 1)..MaxDepth : p = <<i, n>>
    BY DEF Missing
  <2> QED BY <1>1, <2>1, <2>2, <2>3
<1>5. Explorations(own) \cap Missing(own) = {}
  <2> SUFFICES ASSUME NEW p \in Explorations(own), p \in Missing(own) PROVE FALSE
    OBVIOUS
  <2>1. PICK i \in DOMAIN own : \E n \in 2..Len(own[i].steps) : p = <<i, n>> BY ExplorationsAre
  <2>2. PICK n \in 2..Len(own[i].steps) : p = <<i, n>> BY <2>1
  <2>3. PICK j \in DOMAIN own : \E m \in (Len(own[j].steps) + 1)..MaxDepth : p = <<j, m>>
    BY DEF Missing
  <2>4. PICK m \in (Len(own[j].steps) + 1)..MaxDepth : p = <<j, m>> BY <2>3
  <2>5. i = j /\ n = m BY <2>2, <2>4
  <2>6. n <= Len(own[i].steps) /\ n > Len(own[i].steps) BY <1>0, <1>1, <2>2, <2>4, <2>5
  <2> QED BY <1>1, <2>6
<1>6. Explorations(full) = Explorations(own) \cup Missing(own) BY <1>4
<1>7. Cardinality(Explorations(full)) = Cardinality(Explorations(own)) + Cardinality(Missing(own))
  <2>1. IsFiniteSet(Explorations(own)) /\ IsFiniteSet(Missing(own))
        /\ Cardinality(Explorations(own)) \in Nat /\ Cardinality(Missing(own)) \in Nat
    BY ExplorationsFinite, MissingFinite
  <2>2. Cardinality(Explorations(own) \cup Missing(own))
          = Cardinality(Explorations(own)) + Cardinality(Missing(own)) - Cardinality({})
    BY <1>5, <2>1, FS_Union
  <2>3. Cardinality({}) = 0 BY FS_EmptySet
  <2> QED BY <1>6, <2>1, <2>2, <2>3
<1> QED BY <1>1, <1>2, <1>3, <1>7 DEF full

LEMMA InitialFacts ==
  ASSUME NEW parts \in Nat
  PROVE  /\ InitialPaths(parts) \in Seq(SolutionPaths)
         /\ Cardinality(Explorations(InitialPaths(parts))) = 0
         /\ parts > 0 => InitialPaths(parts) # <<>>
<1> DEFINE n == IF parts < MaxPaths THEN parts ELSE MaxPaths
           path == [steps |-> <<"exploration">>, score |-> 8, valid |-> TRUE]
           made == InitialPaths(parts)
<1>1. n \in Nat /\ (parts > 0 => n > 0) BY ThoughtsAssumption
<1>2. path \in SolutionPaths BY DEF SolutionPaths, PathKinds
<1>3. made = [i \in 1..n |-> path] BY DEF InitialPaths
<1> HIDE DEF n, path, made
<1>4. made \in [1..n -> SolutionPaths] BY <1>2, <1>3
<1>5. made \in Seq(SolutionPaths) /\ Len(made) = n /\ DOMAIN made = 1..n BY <1>1, <1>4, SequenceOf
<1>6. Explorations(made) = {}
  <2> SUFFICES ASSUME NEW p \in Explorations(made) PROVE FALSE
    OBVIOUS
  <2>1. PICK i \in DOMAIN made : \E m \in 2..Len(made[i].steps) : p = <<i, m>> BY ExplorationsAre
  <2>2. made[i].steps = <<"exploration">> BY <1>3, <1>5 DEF path
  <2>3. Len(made[i].steps) = 1 BY <2>2
  <2> QED BY <2>1, <2>3
<1> QED BY <1>1, <1>5, <1>6, FS_EmptySet DEF made

(* The first of a list, and the best. *)
LEMMA FirstIs ==
  ASSUME NEW refs \in SUBSET PathRefs, refs # {}
  PROVE  First(refs) \in refs /\ \A q \in refs : First(refs)[2] <= q[2]
<1> DEFINE S == {r[2] : r \in refs}
<1>1. S \in SUBSET Nat /\ S # {} BY DEF PathRefs
<1>2. Min(S) \in S /\ \A n \in S : Min(S) <= n BY <1>1, LeastNumber
<1>3. \E r \in refs : \A q \in refs : r[2] <= q[2] BY <1>2
<1> QED BY <1>3 DEF First

LEMMA GreatestExists ==
  ASSUME NEW S, IsFiniteSet(S), S # {}, NEW f \in [S -> Int]
  PROVE  \E r \in S : \A q \in S : f[r] >= f[q]
<1> DEFINE above(r) == {q \in S : f[q] > f[r]}
           ranks == {Cardinality(above(r)) : r \in S}
<1>1. \A r \in S : IsFiniteSet(above(r)) /\ Cardinality(above(r)) \in Nat
  <2>1. \A r \in S : above(r) \subseteq S OBVIOUS
  <2> HIDE DEF above
  <2> QED BY <2>1, FS_Subset, FS_CardinalityType
<1>2. ranks \in SUBSET Nat /\ ranks # {} BY <1>1
<1>3. Min(ranks) \in ranks /\ \A n \in ranks : Min(ranks) <= n
  <2> HIDE DEF ranks
  <2> QED BY <1>2, LeastNumber
<1>4. PICK r \in S : Min(ranks) = Cardinality(above(r)) BY <1>3
<1>5. ASSUME NEW q \in S, f[q] > f[r] PROVE FALSE
  <2>1. above(q) \subseteq above(r) BY <1>5
  <2>2. q \in above(r) /\ q \notin above(q) BY <1>5
  <2>3. Cardinality(above(q)) >= Cardinality(above(r)) BY <1>3, <1>4
  <2> DEFINE A == above(q)
             B == above(r)
  <2>4. IsFiniteSet(B) /\ Cardinality(A) \in Nat /\ Cardinality(B) \in Nat BY <1>1
  <2> HIDE DEF A, B, above
  <2>5. A \subseteq B /\ A # B BY <2>1, <2>2 DEF A, B
  <2>6. Cardinality(A) < Cardinality(B) BY <2>4, <2>5, FS_Subset
  <2> QED BY <2>3, <2>4, <2>6 DEF A, B
<1> QED BY <1>5

LEMMA BestFacts ==
  ASSUME NEW ps \in [Calls -> Seq(SolutionPaths)], NEW refs \in Lists, refs # {},
         Existing(refs, ps)
  PROVE  /\ Best(ps, refs) \in refs
         /\ \A q \in refs :
              /\ PathAt(ps, q).score <= PathAt(ps, Best(ps, refs)).score
              /\ PathAt(ps, q).score = PathAt(ps, Best(ps, refs)).score => Best(ps, refs)[2] <= q[2]
<1> DEFINE score == [r \in refs |-> PathAt(ps, r).score]
           top == {r \in refs : \A q \in refs : PathAt(ps, r).score >= PathAt(ps, q).score}
<1>1. ASSUME NEW r \in refs PROVE PathAt(ps, r) \in SolutionPaths
  <2>1. r[1] \in Calls /\ r[2] \in DOMAIN ps[r[1]] BY DEF Lists, PathRefs, Existing
  <2>2. ps[r[1]] \in Seq(SolutionPaths) BY <2>1
  <2> QED BY <2>1, <2>2 DEF PathAt
<1>2. score \in [refs -> Int] BY <1>1 DEF SolutionPaths
<1>3. \E r \in refs : \A q \in refs : score[r] >= score[q]
  <2> HIDE DEF score
  <2>1. IsFiniteSet(refs) BY DEF Lists
  <2> QED BY <1>2, <2>1, GreatestExists
<1>4. top # {} /\ top \in SUBSET PathRefs BY <1>3 DEF Lists
<1>5. Best(ps, refs) = First(top) BY DEF Best
<1>6. First(top) \in top /\ \A q \in top : First(top)[2] <= q[2]
  <2> HIDE DEF top
  <2> QED BY <1>4, FirstIs
<1>7. \A q \in refs : PathAt(ps, q).score \in Int BY <1>1 DEF SolutionPaths
<1> DEFINE b == First(top)
<1>8. b \in refs /\ \A q \in refs : PathAt(ps, b).score >= PathAt(ps, q).score BY <1>6
<1>9. ASSUME NEW q \in refs, PathAt(ps, q).score = PathAt(ps, b).score PROVE b[2] <= q[2]
  <2>1. q \in top BY <1>8, <1>9
  <2> QED BY <1>6, <2>1
<1>10. \A q \in refs : PathAt(ps, q).score <= PathAt(ps, b).score BY <1>7, <1>8
<1> HIDE DEF b
<1> QED BY <1>5, <1>8, <1>9, <1>10 DEF b

LEMMA SurvivorsFacts ==
  ASSUME NEW ps, NEW refs \in Lists
  PROVE  Survivors(ps, refs) \subseteq refs /\ Survivors(ps, refs) \in Lists
<1>1. Survivors(ps, refs) \subseteq refs BY DEF Survivors
<1>2. IsFiniteSet(Survivors(ps, refs)) BY <1>1, FS_Subset DEF Lists
<1> QED BY <1>1, <1>2 DEF Lists

LEMMA ReferencesFacts ==
  ASSUME NEW c \in Calls, NEW own \in Seq(SolutionPaths)
  PROVE  /\ References(c, own) \in Lists
         /\ \A r : r \in References(c, own) <=> \E i \in DOMAIN own : r = <<c, i>>
         /\ \A i \in DOMAIN own : i \in Nat
<1>1. DOMAIN own = 1..Len(own) /\ Len(own) \in Nat OBVIOUS
<1>2. IsFiniteSet(DOMAIN own) BY <1>1, FS_Interval
<1>3. References(c, own) = {<<c, i>> : i \in DOMAIN own} BY DEF References
<1>4. IsFiniteSet({<<c, i>> : i \in DOMAIN own})
  <2> DEFINE N == DOMAIN own
  <2>1. IsFiniteSet(N) BY <1>2
  <2> HIDE DEF N
  <2>2. IsFiniteSet({<<c, i>> : i \in N}) BY <2>1, PairsFinite
  <2> QED BY <2>2 DEF N
<1>5. References(c, own) \subseteq PathRefs BY <1>1, <1>3 DEF PathRefs
<1>6. References(c, own) \in Lists BY <1>3, <1>4, <1>5 DEF Lists
<1> QED BY <1>1, <1>3, <1>6

LEMMA SameNumber ==
  ASSUME NEW c \in Calls, NEW own \in Seq(SolutionPaths)
  PROVE  Cardinality(Valid(c, own)) = Cardinality({i \in DOMAIN own : IsValid(own[i])})
<1> DEFINE V == {i \in DOMAIN own : IsValid(own[i])}
           f == [i \in V |-> <<c, i>>]
<1>1. ASSUME NEW r PROVE r \in Valid(c, own) <=> \E i \in V : r = <<c, i>>
  BY ReferencesFacts DEF Valid
<1>2. \A i \in V : f[i] \in Valid(c, own) BY <1>1
<1>3. f \in [V -> Valid(c, own)] BY <1>2
<1>4. \A i, j \in V : f[i] = f[j] => i = j OBVIOUS
<1>5. \A r \in Valid(c, own) : \E i \in V : f[i] = r BY <1>1
<1> DEFINE T == Valid(c, own)
<1>6. IsFiniteSet(V)
  <2>1. DOMAIN own = 1..Len(own) /\ Len(own) \in Nat OBVIOUS
  <2>2. IsFiniteSet(DOMAIN own) BY <2>1, FS_Interval
  <2>3. V \subseteq DOMAIN own OBVIOUS
  <2> HIDE DEF V
  <2> QED BY <2>2, <2>3, FS_Subset
<1> HIDE DEF V, f, T
<1>7. f \in Bijection(V, T)
  <2>1. DOMAIN f = V BY <1>3
  <2>2. IsInjective(f) BY <1>4, <2>1 DEF IsInjective
  <2> QED BY <1>3, <1>5, <2>2 DEF Bijection, Injection, Surjection, T
<1>8. ExistsBijection(V, T) BY <1>7 DEF ExistsBijection
<1>9. Cardinality(V) = Cardinality(T) BY <1>6, <1>8, FS_Bijection
<1> QED BY <1>9 DEF V, T

(* What elimination makes of the paths of a call that were all validated.  *)
LEMMA EliminationSorts ==
  ASSUME NEW c \in Calls, NEW ps \in [Calls -> Seq(SolutionPaths)],
         \A i \in DOMAIN ps[c] : Validated(ps[c][i])
  PROVE  LET kept == Survivors(ps, References(c, ps[c]))
             qs   == Marked(ps, References(c, ps[c]) \ kept, "elimination")
         IN  /\ kept = Valid(c, ps[c]) /\ kept = Valid(c, qs[c])
             /\ qs \in [Calls -> Seq(SolutionPaths)] /\ DOMAIN qs[c] = DOMAIN ps[c]
             /\ Sorted(qs[c])
             /\ Explorations(qs[c]) = Explorations(ps[c])
             /\ \A i \in DOMAIN ps[c] : qs[c][i].score = ps[c][i].score /\ qs[c][i].valid = ps[c][i].valid
<1> DEFINE kept == Survivors(ps, References(c, ps[c]))
           qs   == Marked(ps, References(c, ps[c]) \ kept, "elimination")
<1>1. "elimination" \in PathKinds \ {"exploration"} BY DEF PathKinds
<1>2. /\ qs \in [Calls -> Seq(SolutionPaths)]
      /\ DOMAIN qs[c] = DOMAIN ps[c]
      /\ \A i \in DOMAIN ps[c] :
           /\ qs[c][i].score = ps[c][i].score /\ qs[c][i].valid = ps[c][i].valid
           /\ <<c, i>> \in References(c, ps[c]) \ kept => qs[c][i] = Longer(ps[c][i], "elimination")
           /\ <<c, i>> \notin References(c, ps[c]) \ kept => qs[c][i] = ps[c][i]
  <2> DEFINE refs == References(c, ps[c]) \ kept
  <2> HIDE DEF kept, refs
  <2>1. /\ Marked(ps, refs, "elimination") \in [Calls -> Seq(SolutionPaths)]
        /\ DOMAIN Marked(ps, refs, "elimination")[c] = DOMAIN ps[c]
        /\ \A i \in DOMAIN ps[c] :
             /\ Marked(ps, refs, "elimination")[c][i].score = ps[c][i].score /\ Marked(ps, refs, "elimination")[c][i].valid = ps[c][i].valid
             /\ <<c, i>> \in refs => Marked(ps, refs, "elimination")[c][i] = Longer(ps[c][i], "elimination")
             /\ <<c, i>> \notin refs => Marked(ps, refs, "elimination")[c][i] = ps[c][i]
    BY <1>1, MarkedFacts
  <2> QED BY <2>1 DEF refs
<1>3. ps[c] \in Seq(SolutionPaths) /\ qs[c] \in Seq(SolutionPaths)
  <2> HIDE DEF qs
  <2> QED BY <1>2
<1> HIDE DEF qs
<1>4. \A r \in References(c, ps[c]) : PathAt(ps, r) = ps[c][r[2]]
  BY <1>3, ReferencesFacts DEF PathAt
<1>5. kept = Valid(c, ps[c]) BY <1>4 DEF Survivors, Valid
<1>6. \A i \in DOMAIN ps[c] : IsValid(qs[c][i]) <=> IsValid(ps[c][i]) BY <1>2 DEF IsValid
<1>7. References(c, qs[c]) = References(c, ps[c]) BY <1>2 DEF References
<1>8. Valid(c, qs[c]) = Valid(c, ps[c])
  <2>1. \A r \in References(c, ps[c]) : r[2] \in DOMAIN ps[c] BY <1>3, ReferencesFacts
  <2> QED BY <1>6, <1>7, <2>1 DEF Valid
<1> HIDE DEF kept
<1>9. ASSUME NEW i \in DOMAIN ps[c]
      PROVE  /\ <<c, i>> \in References(c, ps[c])
             /\ <<c, i>> \in kept <=> IsValid(ps[c][i])
  BY <1>3, <1>5, ReferencesFacts DEF Valid
<1>10. ASSUME NEW i \in DOMAIN qs[c]
       PROVE  EndsWith(qs[c][i], "elimination") <=> ~IsValid(qs[c][i])
  <2>1. i \in DOMAIN ps[c] /\ ps[c][i] \in SolutionPaths BY <1>2, <1>3
  <2>2. CASE IsValid(ps[c][i])
    <3>1. qs[c][i] = ps[c][i] BY <1>2, <1>9, <2>1, <2>2
    <3>2. EndsWith(ps[c][i], "validation") BY <2>1 DEF Validated
    <3>3. ~EndsWith(ps[c][i], "elimination") BY <3>2 DEF EndsWith
    <3> QED BY <2>2, <3>1, <3>3
  <2>3. CASE ~IsValid(ps[c][i])
    <3>1. qs[c][i] = Longer(ps[c][i], "elimination") BY <1>2, <1>9, <2>1, <2>3
    <3>2. EndsWith(qs[c][i], "elimination") BY <1>1, <2>1, <3>1, LongerFacts
    <3> QED BY <1>6, <2>1, <2>3, <3>2
  <2> QED BY <2>2, <2>3
<1>11. Explorations(qs[c]) = Explorations(ps[c])
  <2>1. ASSUME NEW i \in DOMAIN ps[c]
        PROVE  \/ qs[c][i].steps = ps[c][i].steps
               \/ \E kind \in PathKinds \ {"exploration"} :
                    qs[c][i].steps = Append(ps[c][i].steps, kind)
    <3>1. ps[c][i] \in SolutionPaths BY <1>3
    <3>2. Longer(ps[c][i], "elimination").steps = Append(ps[c][i].steps, "elimination")
      BY <1>1, <3>1, LongerFacts
    <3> QED BY <1>1, <1>2, <3>2
  <2> QED BY <1>2, <1>3, <2>1, OtherStepsDontCount
<1>12. Sorted(qs[c])
  <2>1. \A i \in DOMAIN ps[c] : Judged(qs[c][i]) BY <1>2, <1>6 DEF Validated, Judged
  <2> QED BY <1>2, <1>10, <2>1 DEF Sorted
<1> QED BY <1>2, <1>5, <1>8, <1>11, <1>12 DEF kept, qs

(* A convergence on a valid path changes none of that. *)
LEMMA ConvergenceKeeps ==
  ASSUME NEW c \in Calls, NEW ps \in [Calls -> Seq(SolutionPaths)], NEW b,
         Sorted(ps[c]), IsBest(b, c, ps[c])
  PROVE  LET qs == Marked(ps, {b}, "convergence")
         IN  /\ qs \in [Calls -> Seq(SolutionPaths)] /\ DOMAIN qs[c] = DOMAIN ps[c]
             /\ Sorted(qs[c]) /\ Explorations(qs[c]) = Explorations(ps[c])
             /\ \A i \in DOMAIN ps[c] : qs[c][i].score = ps[c][i].score /\ qs[c][i].valid = ps[c][i].valid
<1> DEFINE qs == Marked(ps, {b}, "convergence")
<1>1. "convergence" \in PathKinds \ {"exploration"} BY DEF PathKinds
<1>2. /\ qs \in [Calls -> Seq(SolutionPaths)]
      /\ DOMAIN qs[c] = DOMAIN ps[c]
      /\ \A i \in DOMAIN ps[c] :
           /\ qs[c][i].score = ps[c][i].score /\ qs[c][i].valid = ps[c][i].valid
           /\ <<c, i>> \in {b} => qs[c][i] = Longer(ps[c][i], "convergence")
           /\ <<c, i>> \notin {b} => qs[c][i] = ps[c][i]
  <2> DEFINE refs == {b}
  <2> HIDE DEF refs
  <2>1. /\ Marked(ps, refs, "convergence") \in [Calls -> Seq(SolutionPaths)]
        /\ DOMAIN Marked(ps, refs, "convergence")[c] = DOMAIN ps[c]
        /\ \A i \in DOMAIN ps[c] :
             /\ Marked(ps, refs, "convergence")[c][i].score = ps[c][i].score /\ Marked(ps, refs, "convergence")[c][i].valid = ps[c][i].valid
             /\ <<c, i>> \in refs => Marked(ps, refs, "convergence")[c][i] = Longer(ps[c][i], "convergence")
             /\ <<c, i>> \notin refs => Marked(ps, refs, "convergence")[c][i] = ps[c][i]
    BY <1>1, MarkedFacts
  <2> QED BY <2>1 DEF refs
<1> HIDE DEF qs
<1>3. ps[c] \in Seq(SolutionPaths) /\ qs[c] \in Seq(SolutionPaths) BY <1>2
<1>4. \A i \in DOMAIN ps[c] : IsValid(qs[c][i]) <=> IsValid(ps[c][i]) BY <1>2 DEF IsValid
<1>5. ASSUME NEW i \in DOMAIN qs[c]
      PROVE  EndsWith(qs[c][i], "elimination") <=> ~IsValid(qs[c][i])
  <2>1. i \in DOMAIN ps[c] /\ ps[c][i] \in SolutionPaths BY <1>2, <1>3
  <2>2. CASE <<c, i>> = b
    <3>1. IsValid(ps[c][i]) BY <2>2 DEF IsBest
    <3>2. qs[c][i] = Longer(ps[c][i], "convergence") BY <1>2, <2>1, <2>2
    <3>3. EndsWith(qs[c][i], "convergence") BY <1>1, <2>1, <3>2, LongerFacts
    <3>4. ~EndsWith(qs[c][i], "elimination") BY <3>3 DEF EndsWith
    <3> QED BY <1>4, <2>1, <3>1, <3>4
  <2>3. CASE <<c, i>> # b
    <3>1. qs[c][i] = ps[c][i] BY <1>2, <2>1, <2>3
    <3> QED BY <2>1, <3>1 DEF Sorted
  <2> QED BY <2>2, <2>3
<1>6. Explorations(qs[c]) = Explorations(ps[c])
  <2>1. ASSUME NEW i \in DOMAIN ps[c]
        PROVE  \/ qs[c][i].steps = ps[c][i].steps
               \/ \E kind \in PathKinds \ {"exploration"} :
                    qs[c][i].steps = Append(ps[c][i].steps, kind)
    <3>1. ps[c][i] \in SolutionPaths BY <1>3
    <3>2. Longer(ps[c][i], "convergence").steps = Append(ps[c][i].steps, "convergence")
      BY <1>1, <3>1, LongerFacts
    <3> QED BY <1>1, <1>2, <3>2
  <2> QED BY <1>2, <1>3, <2>1, OtherStepsDontCount
<1>7. Sorted(qs[c])
  <2>1. \A i \in DOMAIN ps[c] : Judged(qs[c][i]) BY <1>2, <1>4 DEF Sorted, Judged
  <2> QED BY <1>2, <1>5, <2>1 DEF Sorted
<1> QED BY <1>2, <1>6, <1>7 DEF qs

(* Best among the valid paths of a call. *)
LEMMA BestOfValid ==
  ASSUME NEW c \in Calls, NEW ps \in [Calls -> Seq(SolutionPaths)], Valid(c, ps[c]) # {},
         \A i \in DOMAIN ps[c] : Judged(ps[c][i])
  PROVE  /\ IsBest(Best(ps, Valid(c, ps[c])), c, ps[c])
         /\ Best(ps, Valid(c, ps[c])) \in Valid(c, ps[c])
<1> DEFINE own == ps[c]
           V == Valid(c, own)
           b == Best(ps, V)
<1>0. own \in Seq(SolutionPaths) OBVIOUS
<1>1. /\ References(c, own) \in Lists
      /\ \A r : r \in References(c, own) <=> \E i \in DOMAIN own : r = <<c, i>>
  BY <1>0, ReferencesFacts
<1>2. V \subseteq References(c, own) BY DEF Valid
<1>3. V \in Lists BY <1>1, <1>2, FS_Subset DEF Lists
<1>4. Existing(V, ps) /\ \A r \in V : PathAt(ps, r) = own[r[2]]
  BY <1>1, <1>2 DEF Existing, PathAt
<1>5. V # {} OBVIOUS
<1> HIDE DEF V
<1>6. /\ b \in V
      /\ \A q \in V : /\ PathAt(ps, q).score <= PathAt(ps, b).score
                      /\ PathAt(ps, q).score = PathAt(ps, b).score => b[2] <= q[2]
  BY <1>3, <1>4, <1>5, BestFacts
<1> HIDE DEF b
<1>7. PICK i \in DOMAIN own : b = <<c, i>> BY <1>1, <1>2, <1>6
<1>8. IsValid(own[i]) BY <1>6, <1>7 DEF V, Valid
<1>9. \A j \in DOMAIN own : own[j] \in SolutionPaths BY <1>0
<1>10. ASSUME NEW j \in DOMAIN own
       PROVE  own[j].score <= own[i].score /\ (own[j].score = own[i].score => i <= j)
  <2>1. own[j].score \in Int /\ own[i].score \in Int /\ Threshold \in Int
    BY <1>9, ThoughtsAssumption DEF SolutionPaths
  <2>2. CASE IsValid(own[j])
    <3>1. <<c, j>> \in V BY <1>1, <2>2 DEF V, Valid
    <3>2. PathAt(ps, <<c, j>>) = own[j] /\ PathAt(ps, b) = own[i] BY <1>4, <1>6, <1>7, <3>1
    <3> QED BY <1>6, <1>7, <3>1, <3>2
  <2>3. CASE ~IsValid(own[j])
    <3>1. own[j].score < own[i].score BY <1>8, <2>1, <2>3 DEF Judged, Reaches
    <3> QED BY <2>1, <3>1
  <2> QED BY <2>2, <2>3
<1>11. IsBest(b, c, own) BY <1>7, <1>8, <1>10 DEF IsBest
<1> QED BY <1>6, <1>11 DEF b, V

(* What a call returns, read from its paths after the last step. *)
LEMMA WinsFacts ==
  ASSUME NEW c, c \in Calls, NEW own \in Seq(SolutionPaths), NEW answer, Sorted(own),
         answer.steps = 1 + Cardinality(Explorations(own)),
         \/ Valid(c, own) = {} /\ answer.best = NoPath /\ answer.valid = 0
         \/ \E i \in DOMAIN own :
              /\ IsBest(<<c, i>>, c, own) /\ answer.best = <<c, i>>
              /\ answer.confidence = own[i].score
              /\ answer.valid = Cardinality(Valid(c, own))
  PROVE  Justified(c, own, answer)
<1> DEFINE valid == {i \in DOMAIN own : Reaches(own[i].score)}
           top == {i \in valid : \A j \in DOMAIN own : own[i].score >= own[j].score}
<1>0. \A i \in DOMAIN own : IsValid(own[i]) <=> Reaches(own[i].score) BY DEF Sorted, Judged
<1>1. Cardinality(Valid(c, own)) = Cardinality(valid)
  <2>1. valid = {i \in DOMAIN own : IsValid(own[i])} BY <1>0
  <2> HIDE DEF valid
  <2> QED BY <2>1, SameNumber
<1>2. \A i \in DOMAIN own : <<c, i>> \in Valid(c, own) <=> i \in valid
  BY <1>0, ReferencesFacts DEF Valid
<1>3. \A i \in DOMAIN own : own[i] \in SolutionPaths OBVIOUS
<1>4. \A i \in DOMAIN own : own[i].score \in Int /\ i \in Nat BY <1>3 DEF SolutionPaths
<1>5. CASE Valid(c, own) = {} /\ answer.best = NoPath /\ answer.valid = 0
  <2>1. valid = {} BY <1>2, <1>5
  <2>2. answer.valid = Cardinality(valid) BY <1>5, <2>1, FS_EmptySet
  <2>3. top = {} BY <2>1
  <2>4. \A i \in DOMAIN own : EndsWith(own[i], "elimination") <=> i \notin valid BY <1>0 DEF Sorted
  <2> QED BY <1>5, <2>2, <2>3, <2>4 DEF Justified
<1>6. ASSUME NEW i \in DOMAIN own,
             IsBest(<<c, i>>, c, own), answer.best = <<c, i>>,
             answer.confidence = own[i].score,
             answer.valid = Cardinality(Valid(c, own))
      PROVE  Justified(c, own, answer)
  <2>1. /\ IsValid(own[i])
        /\ \A j \in DOMAIN own : /\ own[j].score <= own[i].score
                                 /\ own[j].score = own[i].score => i <= j
    BY <1>6 DEF IsBest
  <2>2. i \in top BY <1>0, <1>4, <2>1
  <2>3. ASSUME NEW j \in top PROVE i <= j
    <3>1. j \in DOMAIN own /\ own[j].score >= own[i].score OBVIOUS
    <3> QED BY <1>4, <2>1, <3>1
  <2>4. \A j \in DOMAIN own : EndsWith(own[j], "elimination") <=> j \notin valid BY <1>0 DEF Sorted
  <2>5. top # {} BY <2>2
  <2> QED BY <1>1, <1>6, <2>2, <2>3, <2>4, <2>5 DEF Justified
<1> QED BY <1>5, <1>6

LEMMA SameSequence ==
  ASSUME NEW T, NEW s \in Seq(T), NEW t \in Seq(T), DOMAIN s = DOMAIN t,
         \A i \in DOMAIN s : s[i] = t[i]
  PROVE  s = t
<1>1. s = [i \in DOMAIN s |-> s[i]] /\ t = [i \in DOMAIN t |-> t[i]] OBVIOUS
<1> QED BY <1>1

LEMMA MarkedElsewhere ==
  ASSUME NEW ps \in [Calls -> Seq(SolutionPaths)], NEW refs, NEW kind \in PathKinds
  PROVE  /\ Marked(ps, refs, kind) \in [Calls -> Seq(SolutionPaths)]
         /\ \A d \in Calls : /\ DOMAIN Marked(ps, refs, kind)[d] = DOMAIN ps[d]
                             /\ NoneOf(refs, d) => Marked(ps, refs, kind)[d] = ps[d]
<1> SUFFICES ASSUME NEW d \in Calls, NoneOf(refs, d)
             PROVE  Marked(ps, refs, kind)[d] = ps[d]
  BY MarkedFacts
<1> DEFINE m == Marked(ps, refs, kind)
<1>1. m \in [Calls -> Seq(SolutionPaths)] /\ DOMAIN m[d] = DOMAIN ps[d]
      /\ \A i \in DOMAIN ps[d] : <<d, i>> \notin refs => m[d][i] = ps[d][i]
  BY MarkedFacts
<1>2. \A i : <<d, i>> \notin refs
  <2> SUFFICES ASSUME NEW i, <<d, i>> \in refs PROVE FALSE
    OBVIOUS
  <2>1. <<d, i>>[1] # d BY DEF NoneOf
  <2> QED BY <2>1
<1> HIDE DEF m
<1>3. m[d] \in Seq(SolutionPaths) /\ ps[d] \in Seq(SolutionPaths) BY <1>1
<1>4. m[d] = ps[d] BY <1>1, <1>2, <1>3, SameSequence
<1> QED BY <1>4 DEF m

LEMMA SimplyRatedFacts ==
  ASSUME NEW ps \in [Calls -> Seq(SolutionPaths)], NEW refs
  PROVE  /\ SimplyRated(ps, refs) \in [Calls -> Seq(SolutionPaths)]
         /\ \A d \in Calls :
              /\ DOMAIN SimplyRated(ps, refs)[d] = DOMAIN ps[d]
              /\ NoneOf(refs, d) => SimplyRated(ps, refs)[d] = ps[d]
              /\ \A i \in DOMAIN ps[d] : <<d, i>> \in refs =>
                   /\ SimplyRated(ps, refs)[d][i].steps = Append(ps[d][i].steps, "validation")
                   /\ Validated(SimplyRated(ps, refs)[d][i])
<1> DEFINE m == SimplyRated(ps, refs)
<1>1. ASSUME NEW d \in Calls
      PROVE  /\ m[d] \in Seq(SolutionPaths) /\ DOMAIN m[d] = DOMAIN ps[d]
             /\ NoneOf(refs, d) => m[d] = ps[d]
             /\ \A i \in DOMAIN ps[d] : <<d, i>> \in refs =>
                   /\ m[d][i].steps = Append(ps[d][i].steps, "validation")
                   /\ Validated(m[d][i])
  <2>1. m[d] = [i \in DOMAIN ps[d] |->
                  IF <<d, i>> \in refs THEN Rated(ps[d][i], SimpleScore(ps[d][i])) ELSE ps[d][i]]
    BY DEF SimplyRated
  <2>2. ps[d] \in Seq(SolutionPaths) OBVIOUS
  <2>3. DOMAIN ps[d] = 1..Len(ps[d]) /\ Len(ps[d]) \in Nat BY <2>2
  <2>4. ASSUME NEW i \in DOMAIN ps[d] PROVE ps[d][i] \in SolutionPaths /\ SimpleScore(ps[d][i]) \in Int
    <3>1. ps[d][i] \in SolutionPaths BY <2>2
    <3>2. Len(ps[d][i].steps) \in Nat BY <3>1 DEF SolutionPaths
    <3>3. MaxDepth \in Nat /\ MaxDepth > 0 BY ThoughtsAssumption
    <3> DEFINE n == Len(ps[d][i].steps)
    <3>4. (10 * n) \div MaxDepth \in Int
      <4> HIDE DEF n
      <4>1. 10 * n \in Int BY <3>2 DEF n
      <4> QED BY <3>3, <4>1
    <3> QED BY <3>1, <3>4 DEF SimpleScore
  <2>5. \A i \in DOMAIN ps[d] :
          LET p == Rated(ps[d][i], SimpleScore(ps[d][i]))
          IN  /\ p \in SolutionPaths /\ p.steps = Append(ps[d][i].steps, "validation")
              /\ Validated(p)
    BY <2>4, RatedFacts
  <2>6. m[d] \in [1..Len(ps[d]) -> SolutionPaths] BY <2>1, <2>3, <2>4, <2>5
  <2>7. m[d] \in Seq(SolutionPaths) BY <2>3, <2>6, SequenceOf
  <2>8. DOMAIN m[d] = DOMAIN ps[d] BY <2>1
  <2> HIDE DEF m
  <2>9. ASSUME NoneOf(refs, d) PROVE m[d] = ps[d]
    <3>1. \A i : <<d, i>> \notin refs
      <4> SUFFICES ASSUME NEW i, <<d, i>> \in refs PROVE FALSE
        OBVIOUS
      <4>1. <<d, i>>[1] # d BY <2>9 DEF NoneOf
      <4> QED BY <4>1
    <3>2. \A i \in DOMAIN ps[d] : m[d][i] = ps[d][i] BY <2>1, <3>1
    <3> QED BY <2>2, <2>7, <2>8, <3>2, SameSequence
  <2> QED BY <2>1, <2>5, <2>7, <2>8, <2>9
<1>2. m = [d \in Calls |-> m[d]] BY DEF SimplyRated
<1> HIDE DEF m
<1>3. m \in [Calls -> Seq(SolutionPaths)] BY <1>1, <1>2
<1> QED BY <1>1, <1>3 DEF m

(* What a turn of c may change. *)
Touches(c, d) ==
  \/ ~NoneOf(engine.paths, d) \/ ~NoneOf(list[c], d)
  \/ stage[c] = "converging" /\ best[c][1] = d

TurnOf(c) ==
  /\ stage[c] \notin {"returned", "raised"}
  /\ stage' = [stage EXCEPT ![c] = stage'[c]] /\ stage'[c] \in Stages \ {"new"}
  /\ todo' = [todo EXCEPT ![c] = todo'[c]] /\ todo'[c] \subseteq DOMAIN paths'[c]
  /\ list' = [list EXCEPT ![c] = list'[c]] /\ list'[c] \in Lists
  /\ best' = [best EXCEPT ![c] = best'[c]] /\ best'[c] \in PathRefs \cup {NoPath}
  /\ result' = [result EXCEPT ![c] = result'[c]]
  /\ paths' \in [Calls -> Seq(SolutionPaths)]
  /\ engine' \in Engines
  /\ overlapped' = IF stage[c] = "new" /\ Active # {} THEN overlapped \cup Active \cup {c}
                                                      ELSE overlapped

Bounded(c) ==
  /\ \A d \in Calls \ {c} : /\ DOMAIN paths'[d] = DOMAIN paths[d]
                            /\ Touches(c, d) \/ paths'[d] = paths[d]
  /\ paths[c] = <<>> \/ DOMAIN paths'[c] = DOMAIN paths[c]
  /\ engine'.paths \subseteq engine.paths \cup References(c, paths'[c])
  /\ list'[c] \subseteq list[c] \cup engine.paths \cup References(c, paths'[c])
  /\ stage'[c] = "validating" <=> list'[c] # {}
  /\ stage'[c] = "converging" => best'[c] \in engine.paths \cup References(c, paths'[c])
  /\ stage'[c] = "decomposing" => paths'[c] = <<>>
  /\ stage[c] = "new" => /\ engine'.paths \subseteq References(c, paths'[c])
                         /\ stage'[c] \notin {"validating", "converging"}
                         /\ \A d \in Calls \ {c} : paths'[d] = paths[d]

LEMMA TurnKeepsTypes ==
  ASSUME NEW c \in Calls, ThoughtsTyped, TurnOf(c)
  PROVE  ThoughtsTyped'
<1>1. engine' \in Engines BY DEF TurnOf
<1>2. stage' \in [Calls -> Stages] BY DEF TurnOf, ThoughtsTyped
<1>3. paths' \in [Calls -> Seq(SolutionPaths)] BY DEF TurnOf
<1>4. todo' \in [Calls -> SUBSET Nat]
  <2>1. paths'[c] \in Seq(SolutionPaths) BY <1>3
  <2>2. DOMAIN paths'[c] = 1..Len(paths'[c]) /\ Len(paths'[c]) \in Nat BY <2>1
  <2>3. todo'[c] \in SUBSET Nat BY <2>2 DEF TurnOf
  <2> QED BY <2>3 DEF TurnOf, ThoughtsTyped
<1>5. list' \in [Calls -> Lists] BY DEF TurnOf, ThoughtsTyped
<1>6. best' \in [Calls -> PathRefs \cup {NoPath}] BY DEF TurnOf, ThoughtsTyped
<1>7. result' = [d \in Calls |-> result'[d]] BY DEF TurnOf, ThoughtsTyped
<1>8. overlapped' \subseteq Calls BY DEF TurnOf, ThoughtsTyped, Active
<1> QED BY <1>1, <1>2, <1>3, <1>4, <1>5, <1>6, <1>7, <1>8 DEF ThoughtsTyped

LEMMA TurnKeepsRoots ==
  ASSUME NEW c \in Calls, ThoughtsTyped, Rooted, TurnOf(c), Bounded(c)
  PROVE  Rooted'
<1>0. ThoughtsTyped' BY TurnKeepsTypes
<1>1. ASSUME NEW r \in PathRefs, r[2] \in DOMAIN paths[r[1]] PROVE r[2] \in DOMAIN paths'[r[1]]
  <2>1. r[1] \in Calls BY DEF PathRefs
  <2>2. CASE r[1] # c BY <1>1, <2>1, <2>2 DEF Bounded
  <2>3. CASE r[1] = c
    <3>1. DOMAIN paths[c] # {} BY <1>1, <2>3
    <3>2. paths[c] # <<>> BY <3>1
    <3> QED BY <1>1, <2>3, <3>2 DEF Bounded
  <2> QED BY <2>2, <2>3
<1>2. \A r \in References(c, paths'[c]) : r[2] \in DOMAIN paths'[r[1]] BY DEF References
<1>3. \A r \in engine.paths : r \in PathRefs /\ r[2] \in DOMAIN paths'[r[1]]
  <2>1. engine.paths \in Lists BY DEF ThoughtsTyped, Engines
  <2> QED BY <1>1, <2>1 DEF Lists, Rooted, Existing
<1>4. \A d \in Calls : \A r \in list[d] : r \in PathRefs /\ r[2] \in DOMAIN paths'[r[1]]
  <2>1. \A d \in Calls : list[d] \in Lists BY DEF ThoughtsTyped
  <2> QED BY <1>1, <2>1 DEF Lists, Rooted, Existing
<1>5. Existing(engine.paths, paths)' BY <1>2, <1>3 DEF Existing, Bounded
<1>6. ASSUME NEW d \in Calls
      PROVE  /\ Existing(list[d], paths)'
             /\ todo'[d] \subseteq DOMAIN paths'[d]
             /\ stage'[d] = "converging" => best'[d] \in PathRefs /\ Existing({best[d]}, paths)'
             /\ stage'[d] = "validating" => list'[d] # {}
             /\ stage'[d] # "validating" => list'[d] = {}
             /\ stage'[d] \in {"new", "decomposing"} => paths'[d] = <<>>
  <2>1. CASE d = c
    <3>1. Existing(list[c], paths)' BY <1>2, <1>3, <1>4 DEF Existing, Bounded
    <3>2. ASSUME stage'[c] = "converging"
          PROVE  best'[c] \in PathRefs /\ Existing({best[c]}, paths)'
      <4>1. paths'[c] \in Seq(SolutionPaths) BY DEF TurnOf
      <4>2. References(c, paths'[c]) \in Lists BY <4>1, ReferencesFacts
      <4>3. best'[c] \in engine.paths \cup References(c, paths'[c]) BY <3>2 DEF Bounded
      <4> QED BY <1>2, <1>3, <4>2, <4>3 DEF Existing, Lists
    <3> QED BY <2>1, <3>1, <3>2 DEF TurnOf, Bounded
  <2>2. CASE d # c
    <3>1. /\ stage'[d] = stage[d] /\ todo'[d] = todo[d] /\ list'[d] = list[d] /\ best'[d] = best[d]
          /\ DOMAIN paths'[d] = DOMAIN paths[d]
      BY <2>2 DEF TurnOf, Bounded, ThoughtsTyped
    <3>2. Existing(list[d], paths)' BY <1>4, <3>1 DEF Existing
    <3>3. stage[d] = "converging" => best[d] \in PathRefs /\ Existing({best[d]}, paths)'
      BY <1>1, <3>1 DEF Rooted, Existing
    <3>4. ASSUME paths[d] = <<>> PROVE paths'[d] = <<>>
      <4>1. paths'[d] \in Seq(SolutionPaths) BY DEF TurnOf
      <4>2. DOMAIN paths'[d] = {} /\ DOMAIN paths[d] = {} BY <3>1, <3>4
      <4>3. paths[d] \in Seq(SolutionPaths) BY DEF ThoughtsTyped
      <4>4. paths'[d] = paths[d] BY <4>1, <4>2, <4>3, SameSequence
      <4> QED BY <3>4, <4>4
    <3> QED BY <3>1, <3>2, <3>3, <3>4 DEF Rooted
  <2> QED BY <2>1, <2>2
<1> QED BY <1>5, <1>6 DEF Rooted

(* The other calls: who is active, and who is alone. *)
LEMMA ActiveAfter ==
  ASSUME NEW c \in Calls, ThoughtsTyped, TurnOf(c)
  PROVE  /\ \A d \in Calls \ {c} : stage'[d] = stage[d] /\ (d \in Active' <=> d \in Active)
         /\ c \in Active \/ stage[c] = "new"
         /\ stage'[c] \in {"returned", "raised"} <=> c \notin Active'
         /\ Active \subseteq Calls /\ Active' \subseteq Calls
         /\ overlapped \subseteq overlapped'
<1>1. \A d \in Calls \ {c} : stage'[d] = stage[d] BY DEF TurnOf, ThoughtsTyped
<1> QED BY <1>1 DEF TurnOf, ThoughtsTyped, Active, Stages

LEMMA AloneAfter ==
  ASSUME NEW c \in Calls, ThoughtsTyped, Apart, TurnOf(c)
  PROVE  /\ c \notin overlapped' => /\ c \notin overlapped
                                    /\ IF stage[c] = "new" THEN Active = {} ELSE Active = {c}
         /\ \A d \in Active' \ overlapped' : d = c /\ Active' = {c}
<1>1. c \notin overlapped' => /\ c \notin overlapped
                              /\ IF stage[c] = "new" THEN Active = {} ELSE Active = {c}
  BY ActiveAfter DEF TurnOf, Apart
<1>2. ASSUME NEW d \in Active' \ overlapped' PROVE d = c /\ Active' = {c}
  <2>1. CASE d # c
    <3>1. d \in Active /\ d \notin overlapped BY <1>2, <2>1, ActiveAfter
    <3>2. Active = {d} BY <3>1 DEF Apart
    <3>3. stage[c] = "new" BY <2>1, <3>2, ActiveAfter
    <3>4. d \in overlapped' BY <3>1, <3>3 DEF TurnOf
    <3> QED BY <1>2, <3>4
  <2>2. CASE d = c
    <3>1. Active \subseteq {c} BY <1>1, <1>2, <2>2
    <3> QED BY <1>2, <2>2, <3>1, ActiveAfter
  <2> QED BY <2>1, <2>2
<1> QED BY <1>1, <1>2

LEMMA OthersStayUntouched ==
  ASSUME NEW c \in Calls, ThoughtsTyped, Rooted, Apart, TurnOf(c), Bounded(c),
         NEW d \in Calls \ {c}, d \notin overlapped', stage'[d] = "returned"
  PROVE  /\ stage[d] = "returned" /\ d \notin overlapped
         /\ paths'[d] = paths[d] /\ result'[d] = result[d]
         /\ NoneOf(engine'.paths, d)
         /\ \A e \in Active' : NoneOf(list'[e], d) /\ (stage'[e] = "converging" => best'[e][1] # d)
<1>1. stage[d] = "returned" /\ d \notin overlapped BY ActiveAfter
<1>2. result'[d] = result[d] BY DEF TurnOf, ThoughtsTyped
<1>3. NoneOf(References(c, paths'[c]), d) BY DEF NoneOf, References
<1>4. CASE c \in Active
  <2>1. /\ NoneOf(engine.paths, d)
        /\ \A e \in Active : NoneOf(list[e], d) /\ (stage[e] = "converging" => best[e][1] # d)
    BY <1>1, <1>4 DEF Apart
  <2>2. paths'[d] = paths[d] BY <1>4, <2>1 DEF Bounded, Touches
  <2>3. NoneOf(engine'.paths, d) BY <1>3, <2>1 DEF Bounded, NoneOf
  <2>4. ASSUME NEW e \in Active'
        PROVE  NoneOf(list'[e], d) /\ (stage'[e] = "converging" => best'[e][1] # d)
    <3>1. CASE e = c
      <4>1. NoneOf(list[c], d) BY <1>4, <2>1
      <4>2. NoneOf(list'[c], d) BY <1>3, <2>1, <4>1 DEF Bounded, NoneOf
      <4>3. stage'[c] = "converging" => best'[c][1] # d BY <1>3, <2>1 DEF Bounded, NoneOf
      <4> QED BY <3>1, <4>2, <4>3
    <3>2. CASE e # c
      <4>1. e \in Active /\ e \in Calls /\ stage'[e] = stage[e] BY <2>4, <3>2, ActiveAfter
      <4>2. list'[e] = list[e] /\ best'[e] = best[e] BY <3>2, <4>1 DEF TurnOf, ThoughtsTyped
      <4> QED BY <2>1, <4>1, <4>2
    <3> QED BY <3>1, <3>2
  <2> QED BY <1>1, <1>2, <2>2, <2>3, <2>4
<1>5. CASE stage[c] = "new"
  <2>1. paths'[d] = paths[d] BY <1>5 DEF Bounded
  <2>2. NoneOf(engine'.paths, d) BY <1>3, <1>5 DEF Bounded, NoneOf
  <2>3. ASSUME NEW e \in Active'
        PROVE  NoneOf(list'[e], d) /\ (stage'[e] = "converging" => best'[e][1] # d)
    <3>1. CASE e = c
      <4>1. list'[c] = {} /\ stage'[c] # "converging" BY <1>5 DEF Bounded
      <4> QED BY <3>1, <4>1 DEF NoneOf
    <3>2. CASE e # c
      <4>1. e \in Active /\ e \in Calls /\ stage'[e] = stage[e] BY <2>3, <3>2, ActiveAfter
      <4>2. list'[e] = list[e] /\ best'[e] = best[e] BY <3>2, <4>1 DEF TurnOf, ThoughtsTyped
      <4>3. NoneOf(list[e], d) /\ (stage[e] = "converging" => best[e][1] # d)
        BY <1>1, <4>1 DEF Apart
      <4> QED BY <4>1, <4>2, <4>3
    <3> QED BY <3>1, <3>2
  <2> QED BY <1>1, <1>2, <2>1, <2>2, <2>3
<1> QED BY <1>4, <1>5, ActiveAfter

LEMMA TurnKeeps ==
  ASSUME NEW c \in Calls, ThoughtsInv, TurnOf(c), Bounded(c),
         c \notin overlapped' /\ c \in Active' => FoundOut(c)',
         c \notin overlapped' /\ stage'[c] = "returned" => Justified(c, paths'[c], result'[c])
  PROVE  ThoughtsInv'
<1>0. ThoughtsTyped /\ Rooted /\ Apart BY DEF ThoughtsInv
<1>1. ThoughtsTyped' BY <1>0, TurnKeepsTypes
<1>2. Rooted' BY <1>0, TurnKeepsRoots
<1>3. Apart'
  <2>1. \A d \in (Active \ overlapped)' : (Active = {d})' BY <1>0, AloneAfter
  <2>2. ASSUME NEW d \in Calls, d \notin overlapped', stage'[d] = "returned", Active' # {}
        PROVE  /\ NoneOf(engine'.paths, d)
               /\ \A e \in Active' : /\ NoneOf(list'[e], d)
                                     /\ stage'[e] = "converging" => best'[e][1] # d
    <3>1. CASE d # c BY <1>0, <2>2, <3>1, OthersStayUntouched
    <3>2. CASE d = c
      <4>1. Active \subseteq {c} BY <1>0, <2>2, <3>2, AloneAfter
      <4>2. Active' = {} BY <1>0, <2>2, <3>2, <4>1, ActiveAfter
      <4> QED BY <2>2, <4>2
    <3> QED BY <3>1, <3>2
  <2> QED BY <2>1, <2>2 DEF Apart
<1>4. \A d \in (Active \ overlapped)' : FoundOut(d)' BY <1>0, AloneAfter
<1>5. BestPathWins'
  <2> SUFFICES ASSUME NEW d \in Calls, stage'[d] = "returned", d \notin overlapped'
               PROVE  Justified(d, paths'[d], result'[d])
    BY DEF BestPathWins
  <2>1. CASE d = c BY <2>1
  <2>2. CASE d # c
    <3>1. stage[d] = "returned" /\ d \notin overlapped /\ paths'[d] = paths[d] /\ result'[d] = result[d]
      BY <1>0, <2>2, OthersStayUntouched
    <3>2. Justified(d, paths[d], result[d]) BY <3>1 DEF ThoughtsInv, BestPathWins
    <3> QED BY <3>1, <3>2
  <2> QED BY <2>1, <2>2
<1> QED BY <1>1, <1>2, <1>3, <1>4, <1>5 DEF ThoughtsInv

LEMMA ThoughtsInitInv ==
  ASSUME ThoughtsInit
  PROVE  ThoughtsInv
<1>1. engine.paths = {} /\ engine.step = 0 /\ engine.parallel \in BOOLEAN
      /\ engine = [parallel |-> engine.parallel, paths |-> {}, step |-> 0]
  BY DEF ThoughtsInit
<1>2. {} \in Lists BY FS_EmptySet DEF Lists
<1>3. engine \in Engines BY <1>1, <1>2 DEF Engines
<1>4. ThoughtsTyped
  <2>1. <<>> \in Seq(SolutionPaths) OBVIOUS
  <2> QED BY <1>2, <1>3, <2>1 DEF ThoughtsTyped, ThoughtsInit, Stages
<1>5. Rooted BY <1>1 DEF Rooted, ThoughtsInit, Existing
<1>6. Active = {} BY DEF Active, ThoughtsInit
<1>7. Apart BY <1>6 DEF Apart
<1>8. BestPathWins BY DEF BestPathWins, ThoughtsInit
<1> QED BY <1>4, <1>5, <1>6, <1>7, <1>8 DEF ThoughtsInv

(* What follows when a turn of c has made the paths ps and the engine e.   *)
Followed(c, ps, e) ==
  /\ stage' = [stage EXCEPT ![c] = stage'[c]]
  /\ stage'[c] \in {"validating", "converging", "returned"}
  /\ list' = [list EXCEPT ![c] = list'[c]] /\ list'[c] \in Lists /\ list'[c] \subseteq e.paths
  /\ stage'[c] = "validating" <=> list'[c] # {}
  /\ best' = [best EXCEPT ![c] = best'[c]] /\ best'[c] \in PathRefs \cup {NoPath}
  /\ stage'[c] = "converging" => best'[c] \in e.paths
  /\ result' = [result EXCEPT ![c] = result'[c]]
  /\ paths' \in [Calls -> Seq(SolutionPaths)]
  /\ \A d \in Calls : /\ DOMAIN paths'[d] = DOMAIN ps[d]
                      /\ NoneOf(e.paths, d) => paths'[d] = ps[d]
  /\ engine' \in Engines /\ engine'.paths \subseteq e.paths

LEMMA SettlesFacts ==
  ASSUME NEW c \in Calls, NEW ps \in [Calls -> Seq(SolutionPaths)], NEW e \in Engines,
         Existing(e.paths, ps), ThoughtsTyped, Settles(c, ps, e)
  PROVE  Followed(c, ps, e)
<1> DEFINE kept == Survivors(ps, e.paths)
           out == e.paths \ kept
<1>1. e.paths \in Lists /\ e.parallel \in BOOLEAN /\ e.step \in Nat
      /\ DOMAIN e = {"parallel", "paths", "step"}
  BY DEF Engines
<1>2. kept \subseteq e.paths /\ kept \in Lists BY <1>1, SurvivorsFacts
<1>3. {} \in Lists BY FS_EmptySet DEF Lists
<1>4. "elimination" \in PathKinds BY DEF PathKinds
<1>5. /\ paths' = Marked(ps, out, "elimination")
      /\ engine' = [e EXCEPT !.paths = kept]
      /\ list' = [list EXCEPT ![c] = {}]
      /\ \/ /\ stage' = [stage EXCEPT ![c] = "returned"]
            /\ result' = [result EXCEPT ![c] = Unsolved(e.step)]
            /\ best' = best
         \/ /\ kept # {}
            /\ stage' = [stage EXCEPT ![c] = "converging"]
            /\ best' = [best EXCEPT ![c] = Best(ps, kept)]
            /\ result' = result
  BY DEF Settles
<1> HIDE DEF kept
<1>6. engine' \in Engines /\ engine'.paths = kept
  <2>1. engine' = [parallel |-> e.parallel, paths |-> kept, step |-> e.step]
    BY <1>1, <1>5 DEF Engines
  <2> QED BY <1>1, <1>2, <2>1 DEF Engines
<1>7. kept # {} => Best(ps, kept) \in kept
  <2> SUFFICES ASSUME kept # {} PROVE Best(ps, kept) \in kept
    OBVIOUS
  <2>1. Existing(kept, ps) BY <1>2 DEF Existing
  <2> QED BY <1>2, <2>1, BestFacts
<1>8. kept \subseteq PathRefs BY <1>2 DEF Lists
<1>9. /\ paths' \in [Calls -> Seq(SolutionPaths)]
      /\ \A d \in Calls : DOMAIN paths'[d] = DOMAIN ps[d]
  <2> HIDE DEF out
  <2> QED BY <1>4, <1>5, MarkedFacts
<1>10. ASSUME NEW d \in Calls, NoneOf(e.paths, d) PROVE paths'[d] = ps[d]
  <2>1. NoneOf(out, d) BY <1>10 DEF NoneOf
  <2> HIDE DEF out
  <2>2. Marked(ps, out, "elimination")[d] = ps[d] BY <1>4, <2>1, MarkedElsewhere
  <2> QED BY <1>5, <2>2
<1>11. stage' = [stage EXCEPT ![c] = stage'[c]] /\ stage'[c] \in {"returned", "converging"}
  BY <1>5 DEF ThoughtsTyped
<1>12. list' = [list EXCEPT ![c] = list'[c]] /\ list'[c] = {} BY <1>5 DEF ThoughtsTyped
<1>13. /\ best' = [best EXCEPT ![c] = best'[c]] /\ best'[c] \in PathRefs \cup {NoPath}
       /\ stage'[c] = "converging" => best'[c] \in e.paths
  BY <1>2, <1>5, <1>7, <1>8 DEF ThoughtsTyped
<1>14. result' = [result EXCEPT ![c] = result'[c]] BY <1>5 DEF ThoughtsTyped
<1>15. engine'.paths \subseteq e.paths BY <1>2, <1>6
<1> QED BY <1>3, <1>6, <1>9, <1>10, <1>11, <1>12, <1>13, <1>14, <1>15 DEF Followed

LEMMA SettlesAlone ==
  ASSUME NEW c \in Calls, NEW ps \in [Calls -> Seq(SolutionPaths)], NEW e \in Engines,
         ThoughtsTyped, Settles(c, ps, e),
         Complete(c, e.paths, ps[c], e.step),
         \A i \in DOMAIN ps[c] : Validated(ps[c][i])
  PROVE  /\ stage'[c] = "converging" => FoundOut(c)'
         /\ stage'[c] = "returned" => Justified(c, paths'[c], result'[c])
<1> DEFINE kept == Survivors(ps, e.paths)
<1>1. e.paths = References(c, ps[c]) /\ e.step = 1 + Cardinality(Explorations(ps[c]))
  BY DEF Complete, Counted
<1>2. paths' = Marked(ps, e.paths \ kept, "elimination") BY DEF Settles
<1>3. /\ kept = Valid(c, ps[c]) /\ kept = Valid(c, paths'[c])
      /\ paths' \in [Calls -> Seq(SolutionPaths)] /\ DOMAIN paths'[c] = DOMAIN ps[c]
      /\ Sorted(paths'[c])
      /\ Explorations(paths'[c]) = Explorations(ps[c])
      /\ \A i \in DOMAIN ps[c] : paths'[c][i].score = ps[c][i].score /\ paths'[c][i].valid = ps[c][i].valid
  <2> DEFINE k == Survivors(ps, References(c, ps[c]))
             q == Marked(ps, References(c, ps[c]) \ k, "elimination")
  <2>1. k = kept /\ q = paths' BY <1>1, <1>2
  <2>2. /\ k = Valid(c, ps[c]) /\ k = Valid(c, q[c])
        /\ q \in [Calls -> Seq(SolutionPaths)] /\ DOMAIN q[c] = DOMAIN ps[c]
        /\ Sorted(q[c])
        /\ Explorations(q[c]) = Explorations(ps[c])
        /\ \A i \in DOMAIN ps[c] : q[c][i].score = ps[c][i].score /\ q[c][i].valid = ps[c][i].valid
    BY EliminationSorts
  <2> HIDE DEF k, q, kept
  <2> QED BY <2>1, <2>2
<1>4. paths'[c] \in Seq(SolutionPaths) BY <1>3
<1>5. /\ engine'.paths = kept /\ engine'.step = e.step
      /\ \/ /\ kept = {}
            /\ stage' = [stage EXCEPT ![c] = "returned"]
            /\ result' = [result EXCEPT ![c] = Unsolved(e.step)]
         \/ /\ kept # {}
            /\ stage' = [stage EXCEPT ![c] = "converging"]
            /\ best' = [best EXCEPT ![c] = Best(ps, kept)]
  BY DEF Settles, Engines
<1> HIDE DEF kept
<1>6. CASE kept = {}
  <2>1. stage'[c] = "returned" /\ result'[c] = Unsolved(e.step) BY <1>5, <1>6 DEF ThoughtsTyped
  <2>2. result'[c].best = NoPath /\ result'[c].valid = 0 /\ result'[c].steps = e.step
    BY <2>1 DEF Unsolved, NoResult
  <2>3. Valid(c, paths'[c]) = {} BY <1>3, <1>6
  <2>4. result'[c].steps = 1 + Cardinality(Explorations(paths'[c])) BY <1>1, <1>3, <2>2
  <2> DEFINE own == paths'[c]
             answer == result'[c]
  <2>5. /\ own \in Seq(SolutionPaths) /\ Sorted(own)
        /\ answer.steps = 1 + Cardinality(Explorations(own))
        /\ Valid(c, own) = {} /\ answer.best = NoPath /\ answer.valid = 0
    BY <1>3, <1>4, <2>2, <2>3, <2>4
  <2>6. Justified(c, own, answer)
    <3> HIDE DEF own, answer
    <3> QED BY <2>5, WinsFacts
  <2> QED BY <2>1, <2>6
<1>7. CASE kept # {}
  <2>1. stage'[c] = "converging" /\ best'[c] = Best(ps, kept) BY <1>5, <1>7 DEF ThoughtsTyped
  <2>2. IsBest(Best(ps, kept), c, ps[c])
    <3>1. \A i \in DOMAIN ps[c] : Judged(ps[c][i]) BY DEF Validated
    <3> QED BY <1>3, <1>7, <3>1, BestOfValid
  <2>3. IsBest(best'[c], c, paths'[c])
    <3>1. \A i \in DOMAIN ps[c] : IsValid(paths'[c][i]) <=> IsValid(ps[c][i]) BY <1>3 DEF IsValid
    <3> QED BY <1>3, <2>1, <2>2, <3>1 DEF IsBest
  <2>4. Counted(c, paths'[c], engine'.step) BY <1>1, <1>3, <1>5 DEF Counted
  <2>5. FoundOut(c)' BY <1>3, <1>5, <2>1, <2>3, <2>4 DEF FoundOut
  <2> QED BY <2>1, <2>5
<1> QED BY <1>6, <1>7

LEMMA StartsValidationFacts ==
  ASSUME NEW c \in Calls, NEW ps \in [Calls -> Seq(SolutionPaths)], NEW e \in Engines,
         Existing(e.paths, ps), ThoughtsTyped, StartsValidation(c, ps, e)
  PROVE  Followed(c, ps, e)
<1>1. CASE e.paths = {} /\ Settles(c, ps, e) BY <1>1, SettlesFacts
<1>2. CASE e.paths # {} /\ ~Settles(c, ps, e)
  <2>1. /\ stage' = [stage EXCEPT ![c] = "validating"]
        /\ list' = [list EXCEPT ![c] = e.paths]
        /\ paths' = ps /\ engine' = e /\ best' = best /\ result' = result
    BY <1>2 DEF StartsValidation
  <2>2. e.paths \in Lists BY DEF Engines
  <2>3. stage' = [stage EXCEPT ![c] = stage'[c]] /\ stage'[c] = "validating"
    BY <2>1 DEF ThoughtsTyped
  <2>4. list' = [list EXCEPT ![c] = list'[c]] /\ list'[c] = e.paths BY <2>1 DEF ThoughtsTyped
  <2>5. best' = [best EXCEPT ![c] = best'[c]] /\ best'[c] \in PathRefs \cup {NoPath}
    BY <2>1 DEF ThoughtsTyped
  <2>6. result' = [result EXCEPT ![c] = result'[c]] BY <2>1 DEF ThoughtsTyped
  <2> QED BY <1>2, <2>1, <2>2, <2>3, <2>4, <2>5, <2>6 DEF Followed
<1>3. CASE e.paths # {} /\ Settles(c, ps, e) BY <1>3, SettlesFacts
<1> QED BY <1>1, <1>2, <1>3 DEF StartsValidation

LEMMA StartsValidationAlone ==
  ASSUME NEW c \in Calls, NEW ps \in [Calls -> Seq(SolutionPaths)], NEW e \in Engines,
         ThoughtsTyped, StartsValidation(c, ps, e),
         Complete(c, e.paths, ps[c], e.step)
  PROVE  /\ stage'[c] \in {"validating", "converging"} => FoundOut(c)'
         /\ stage'[c] = "returned" => Justified(c, paths'[c], result'[c])
<1>1. CASE e.paths = {} /\ Settles(c, ps, e)
  <2>1. ps[c] \in Seq(SolutionPaths) OBVIOUS
  <2>2. ASSUME NEW i \in DOMAIN ps[c] PROVE FALSE
    <3>1. <<c, i>> \in References(c, ps[c]) BY <2>1, ReferencesFacts
    <3> QED BY <1>1, <3>1 DEF Complete
  <2>3. stage'[c] # "validating" BY <1>1 DEF Settles, ThoughtsTyped
  <2> QED BY <1>1, <2>2, <2>3, SettlesAlone
<1>2. CASE ~(e.paths = {} /\ Settles(c, ps, e))
  <2>1. stage'[c] = "validating" /\ list'[c] = e.paths /\ paths' = ps /\ engine' = e
    BY <1>2 DEF StartsValidation, ThoughtsTyped
  <2>2. ps[c] \in Seq(SolutionPaths) OBVIOUS
  <2>3. \A i \in DOMAIN ps[c] : <<c, i>> \in e.paths BY <2>2, ReferencesFacts DEF Complete
  <2>4. FoundOut(c)' BY <2>1, <2>3 DEF FoundOut
  <2> QED BY <2>1, <2>4
<1> QED BY <1>1, <1>2

LEMMA EndsFacts ==
  ASSUME NEW ps \in [Calls -> Seq(SolutionPaths)], NEW refs \in Lists, Existing(refs, ps)
  PROVE  LET kept  == Survivors(ps, refs)
             ended == Marked(ps, refs \ kept, "elimination")
             final == Marked(ended, {Best(ps, kept)}, "convergence")
         IN  /\ kept \subseteq refs /\ kept \in Lists
             /\ ended \in [Calls -> Seq(SolutionPaths)]
             /\ \A d \in Calls : /\ DOMAIN ended[d] = DOMAIN ps[d]
                                 /\ NoneOf(refs, d) => ended[d] = ps[d]
             /\ kept # {} =>
                  /\ final \in [Calls -> Seq(SolutionPaths)]
                  /\ \A d \in Calls : /\ DOMAIN final[d] = DOMAIN ps[d]
                                      /\ NoneOf(refs, d) => final[d] = ps[d]
<1> DEFINE kept  == Survivors(ps, refs)
           out   == refs \ kept
           ended == Marked(ps, out, "elimination")
           one   == {Best(ps, kept)}
           final == Marked(ended, one, "convergence")
<1>1. kept \subseteq refs /\ kept \in Lists BY SurvivorsFacts
<1>2. "elimination" \in PathKinds /\ "convergence" \in PathKinds BY DEF PathKinds
<1>3. \A d \in Calls : NoneOf(refs, d) => NoneOf(out, d) BY DEF NoneOf
<1>4. ASSUME kept # {} PROVE \A d \in Calls : NoneOf(refs, d) => NoneOf(one, d)
  <2>1. Existing(kept, ps) BY <1>1 DEF Existing
  <2> HIDE DEF kept
  <2>2. Best(ps, kept) \in kept BY <1>1, <1>4, <2>1, BestFacts
  <2> QED BY <1>1, <2>2 DEF NoneOf
<1> HIDE DEF kept, out, one
<1>5. /\ ended \in [Calls -> Seq(SolutionPaths)]
      /\ \A d \in Calls : /\ DOMAIN ended[d] = DOMAIN ps[d]
                          /\ NoneOf(out, d) => ended[d] = ps[d]
  BY <1>2, MarkedElsewhere
<1> HIDE DEF ended
<1>6. /\ final \in [Calls -> Seq(SolutionPaths)]
      /\ \A d \in Calls : /\ DOMAIN final[d] = DOMAIN ended[d]
                          /\ NoneOf(one, d) => final[d] = ended[d]
  BY <1>2, <1>5, MarkedElsewhere
<1> HIDE DEF final
<1>7. /\ \A d \in Calls : /\ DOMAIN ended[d] = DOMAIN ps[d]
                          /\ NoneOf(refs, d) => ended[d] = ps[d]
      /\ kept # {} => \A d \in Calls : /\ DOMAIN final[d] = DOMAIN ps[d]
                                       /\ NoneOf(refs, d) => final[d] = ps[d]
  BY <1>3, <1>4, <1>5, <1>6
<1> QED BY <1>1, <1>5, <1>6, <1>7 DEF kept, out, ended, one, final

LEMMA ConcludesFacts ==
  ASSUME NEW c \in Calls, NEW ps \in [Calls -> Seq(SolutionPaths)], NEW e \in Engines,
         Existing(e.paths, ps), ThoughtsTyped, Concludes(c, ps, e),
         list[c] = {}, UNCHANGED <<list, best>>
  PROVE  Followed(c, ps, e) /\ stage'[c] = "returned"
<1> DEFINE rated == SimplyRated(ps, e.paths)
           kept  == Survivors(rated, e.paths)
           ended == Marked(rated, e.paths \ kept, "elimination")
           final == Marked(ended, {Best(rated, kept)}, "convergence")
<1>1. e.paths \in Lists /\ e.parallel \in BOOLEAN /\ e.step \in Nat
      /\ DOMAIN e = {"parallel", "paths", "step"}
  BY DEF Engines
<1>2. /\ stage' = [stage EXCEPT ![c] = "returned"]
      /\ engine' = [e EXCEPT !.paths = kept]
      /\ \/ paths' = ended /\ result' = [result EXCEPT ![c] = Unsolved(e.step)]
         \/ /\ kept # {} /\ paths' = final
            /\ result' = [result EXCEPT ![c] = Solved(ended, kept, Best(rated, kept), e.step)]
  BY DEF Concludes
<1>3. /\ rated \in [Calls -> Seq(SolutionPaths)]
      /\ \A d \in Calls : /\ DOMAIN rated[d] = DOMAIN ps[d]
                          /\ NoneOf(e.paths, d) => rated[d] = ps[d]
  BY SimplyRatedFacts
<1> HIDE DEF rated
<1>4. Existing(e.paths, rated)
  <2>1. \A q \in e.paths : q[1] \in Calls BY <1>1 DEF Lists, PathRefs
  <2> QED BY <1>3, <2>1 DEF Existing
<1>5. /\ kept \subseteq e.paths /\ kept \in Lists
      /\ ended \in [Calls -> Seq(SolutionPaths)]
      /\ \A d \in Calls : /\ DOMAIN ended[d] = DOMAIN rated[d]
                          /\ NoneOf(e.paths, d) => ended[d] = rated[d]
      /\ kept # {} =>
           /\ final \in [Calls -> Seq(SolutionPaths)]
           /\ \A d \in Calls : /\ DOMAIN final[d] = DOMAIN rated[d]
                               /\ NoneOf(e.paths, d) => final[d] = rated[d]
  BY <1>1, <1>3, <1>4, EndsFacts
<1> HIDE DEF kept, ended, final
<1>6. /\ paths' \in [Calls -> Seq(SolutionPaths)]
      /\ \A d \in Calls : /\ DOMAIN paths'[d] = DOMAIN ps[d]
                          /\ NoneOf(e.paths, d) => paths'[d] = ps[d]
  <2>1. CASE paths' = ended BY <1>3, <1>5, <2>1
  <2>2. CASE kept # {} /\ paths' = final BY <1>3, <1>5, <2>2
  <2> QED BY <1>2, <2>1, <2>2
<1>7. engine' \in Engines /\ engine'.paths = kept
  <2>1. engine' = [parallel |-> e.parallel, paths |-> kept, step |-> e.step]
    BY <1>1, <1>2 DEF Engines
  <2> QED BY <1>1, <1>5, <2>1 DEF Engines
<1>8. stage' = [stage EXCEPT ![c] = stage'[c]] /\ stage'[c] = "returned"
  BY <1>2 DEF ThoughtsTyped
<1>9. list' = [list EXCEPT ![c] = list'[c]] /\ list'[c] = {} /\ list'[c] \in Lists
  BY FS_EmptySet DEF ThoughtsTyped
<1>10. best' = [best EXCEPT ![c] = best'[c]] /\ best'[c] \in PathRefs \cup {NoPath}
  BY DEF ThoughtsTyped
<1>11. result' = [result EXCEPT ![c] = result'[c]] BY <1>2 DEF ThoughtsTyped
<1> QED BY <1>5, <1>6, <1>7, <1>8, <1>9, <1>10, <1>11 DEF Followed

(* What the answer says of the path that won. *)
LEMMA AnswerJustified ==
  ASSUME NEW c \in Calls, NEW ps \in [Calls -> Seq(SolutionPaths)], NEW r, NEW step,
         Sorted(ps[c]), IsBest(r, c, ps[c]), Counted(c, ps[c], step)
  PROVE  Justified(c, Marked(ps, {r}, "convergence")[c], Solved(ps, Valid(c, ps[c]), r, step))
<1> DEFINE final  == Marked(ps, {r}, "convergence")
           own    == final[c]
           kept   == Valid(c, ps[c])
           answer == Solved(ps, kept, r, step)
<1>1. /\ final \in [Calls -> Seq(SolutionPaths)] /\ DOMAIN own = DOMAIN ps[c]
      /\ Sorted(own) /\ Explorations(own) = Explorations(ps[c])
      /\ \A i \in DOMAIN ps[c] : own[i].score = ps[c][i].score /\ own[i].valid = ps[c][i].valid
  BY ConvergenceKeeps
<1>2. own \in Seq(SolutionPaths) BY <1>1
<1>3. PICK i \in DOMAIN ps[c] : r = <<c, i>> BY DEF IsBest
<1>4. Survivors(ps, kept) = kept
  <2>1. ps[c] \in Seq(SolutionPaths) OBVIOUS
  <2>2. \A q \in kept : q[1] = c /\ IsValid(ps[c][q[2]]) BY <2>1, ReferencesFacts DEF Valid
  <2> QED BY <2>2 DEF Survivors, PathAt
<1>5. /\ answer.best = r /\ answer.confidence = ps[c][i].score
      /\ answer.valid = Cardinality(kept) /\ answer.steps = step
  <2>1. PathAt(ps, r) = ps[c][i] BY <1>3 DEF PathAt
  <2> HIDE DEF kept
  <2> QED BY <1>4, <2>1 DEF Solved
<1> HIDE DEF final, own, answer
<1>6. \A j \in DOMAIN ps[c] : IsValid(own[j]) <=> IsValid(ps[c][j]) BY <1>1 DEF IsValid
<1>7. IsBest(r, c, own) BY <1>1, <1>6 DEF IsBest
<1>8. Valid(c, own) = kept
  <2>1. References(c, own) = References(c, ps[c]) BY <1>1 DEF References
  <2>2. ps[c] \in Seq(SolutionPaths) OBVIOUS
  <2>3. \A q \in References(c, ps[c]) : q[2] \in DOMAIN ps[c] BY <2>2, ReferencesFacts
  <2> QED BY <1>6, <2>1, <2>3 DEF Valid
<1> HIDE DEF kept
<1>9. /\ i \in DOMAIN own /\ IsBest(<<c, i>>, c, own) /\ answer.best = <<c, i>>
      /\ answer.confidence = own[i].score /\ answer.valid = Cardinality(Valid(c, own))
      /\ answer.steps = 1 + Cardinality(Explorations(own))
  BY <1>1, <1>3, <1>5, <1>7, <1>8 DEF Counted
<1>10. Justified(c, own, answer) BY <1>1, <1>2, <1>9, WinsFacts
<1> QED BY <1>10 DEF own, final, answer, kept

LEMMA ConcludesAlone ==
  ASSUME NEW c \in Calls, NEW ps \in [Calls -> Seq(SolutionPaths)], NEW e \in Engines,
         ThoughtsTyped, Concludes(c, ps, e), Complete(c, e.paths, ps[c], e.step)
  PROVE  Justified(c, paths'[c], result'[c])
<1> DEFINE rated == SimplyRated(ps, e.paths)
           refs  == References(c, rated[c])
           kept  == Survivors(rated, refs)
           ended == Marked(rated, refs \ kept, "elimination")
           r     == Best(rated, kept)
           final == Marked(ended, {r}, "convergence")
<1>0. e.paths = References(c, ps[c]) /\ e.step = 1 + Cardinality(Explorations(ps[c]))
  BY DEF Complete, Counted
<1>1. /\ rated \in [Calls -> Seq(SolutionPaths)] /\ DOMAIN rated[c] = DOMAIN ps[c]
      /\ \A i \in DOMAIN ps[c] : <<c, i>> \in e.paths =>
           /\ rated[c][i].steps = Append(ps[c][i].steps, "validation")
           /\ Validated(rated[c][i])
  BY SimplyRatedFacts
<1>2. refs = e.paths BY <1>0, <1>1 DEF References
<1>3. /\ \/ /\ kept = {} /\ paths' = ended
            /\ result' = [result EXCEPT ![c] = Unsolved(e.step)]
         \/ /\ kept # {} /\ paths' = final
            /\ result' = [result EXCEPT ![c] = Solved(ended, kept, r, e.step)]
  BY <1>2 DEF Concludes
<1> HIDE DEF rated
<1>4. ps[c] \in Seq(SolutionPaths) /\ rated[c] \in Seq(SolutionPaths) BY <1>1
<1>5. \A i \in DOMAIN ps[c] : <<c, i>> \in e.paths BY <1>0, <1>4, ReferencesFacts
<1>6. Explorations(rated[c]) = Explorations(ps[c])
  <2>1. "validation" \in PathKinds \ {"exploration"} BY DEF PathKinds
  <2> QED BY <1>1, <1>4, <1>5, <2>1, OtherStepsDontCount
<1>7. /\ kept = Valid(c, rated[c]) /\ kept = Valid(c, ended[c])
      /\ ended \in [Calls -> Seq(SolutionPaths)] /\ DOMAIN ended[c] = DOMAIN rated[c]
      /\ Sorted(ended[c])
      /\ Explorations(ended[c]) = Explorations(rated[c])
      /\ \A i \in DOMAIN rated[c] : ended[c][i].score = rated[c][i].score /\ ended[c][i].valid = rated[c][i].valid
  BY <1>1, <1>5, EliminationSorts
<1> HIDE DEF refs, kept, ended
<1>8. ended[c] \in Seq(SolutionPaths) BY <1>7
<1>9. CASE kept = {}
  <2> DEFINE own == paths'[c]
             answer == result'[c]
  <2>1. paths' = ended /\ answer = Unsolved(e.step) BY <1>3, <1>9 DEF ThoughtsTyped
  <2>2. answer.best = NoPath /\ answer.valid = 0 /\ answer.steps = e.step
    <3> HIDE DEF answer
    <3> QED BY <2>1 DEF Unsolved, NoResult
  <2>3. /\ own \in Seq(SolutionPaths) /\ Sorted(own) /\ Valid(c, own) = {}
        /\ answer.steps = 1 + Cardinality(Explorations(own))
    BY <1>0, <1>6, <1>7, <1>8, <1>9, <2>1, <2>2
  <2> HIDE DEF own, answer
  <2>4. Justified(c, own, answer) BY <2>2, <2>3, WinsFacts
  <2> QED BY <2>4 DEF own, answer
<1>10. CASE kept # {}
  <2>1. IsBest(r, c, rated[c]) /\ r \in kept
    <3>1. \A i \in DOMAIN rated[c] : Judged(rated[c][i]) BY <1>1, <1>5 DEF Validated
    <3> QED BY <1>1, <1>7, <1>10, <3>1, BestOfValid
  <2>2. paths' = final /\ result'[c] = Solved(ended, kept, r, e.step) BY <1>3, <1>10 DEF ThoughtsTyped
  <2> HIDE DEF r
  <2>3. \A i \in DOMAIN rated[c] : IsValid(ended[c][i]) <=> IsValid(rated[c][i])
    BY <1>7 DEF IsValid
  <2>4. IsBest(r, c, ended[c]) BY <1>7, <2>1, <2>3 DEF IsBest
  <2>5. Counted(c, ended[c], e.step) BY <1>0, <1>6, <1>7 DEF Counted
  <2>6. Justified(c, Marked(ended, {r}, "convergence")[c], Solved(ended, Valid(c, ended[c]), r, e.step))
    BY <1>7, <2>4, <2>5, AnswerJustified
  <2> QED BY <1>7, <2>2, <2>6
<1> QED BY <1>9, <1>10

LEMMA FollowedTurn ==
  ASSUME NEW c \in Calls, NEW ps \in [Calls -> Seq(SolutionPaths)], NEW e \in Engines,
         Followed(c, ps, e), ThoughtsTyped,
         stage[c] \notin {"returned", "raised"},
         todo' = [todo EXCEPT ![c] = todo'[c]], todo'[c] \subseteq DOMAIN ps[c],
         overlapped' = IF stage[c] = "new" /\ Active # {} THEN overlapped \cup Active \cup {c}
                                                          ELSE overlapped,
         \A d \in Calls \ {c} : /\ DOMAIN ps[d] = DOMAIN paths[d]
                                /\ Touches(c, d) \/ ps[d] = paths[d],
         paths[c] = <<>> \/ DOMAIN ps[c] = DOMAIN paths[c],
         e.paths \subseteq engine.paths \cup References(c, ps[c]),
         stage[c] = "new" => /\ e.paths \subseteq References(c, ps[c]) /\ stage'[c] = "returned"
                             /\ \A d \in Calls \ {c} : ps[d] = paths[d]
  PROVE  TurnOf(c) /\ Bounded(c)
<1>1. DOMAIN paths'[c] = DOMAIN ps[c] BY DEF Followed
<1>2. References(c, paths'[c]) = References(c, ps[c]) BY <1>1 DEF References
<1>3. TurnOf(c) BY <1>1 DEF Followed, TurnOf, Stages
<1>4. ASSUME NEW d \in Calls \ {c}
      PROVE  DOMAIN paths'[d] = DOMAIN paths[d] /\ (Touches(c, d) \/ paths'[d] = paths[d])
  <2>1. DOMAIN paths'[d] = DOMAIN paths[d] BY DEF Followed
  <2>2. CASE NoneOf(e.paths, d) BY <2>1, <2>2 DEF Followed
  <2>3. CASE ~NoneOf(e.paths, d)
    <3>1. PICK q \in e.paths : q[1] = d BY <2>3 DEF NoneOf
    <3>2. q \notin References(c, ps[c]) BY <3>1 DEF References
    <3>3. q \in engine.paths BY <3>2
    <3> QED BY <2>1, <3>1, <3>3 DEF Touches, NoneOf
  <2> QED BY <2>2, <2>3
<1>5. ASSUME stage[c] = "new", NEW d \in Calls \ {c} PROVE paths'[d] = paths[d]
  <2>1. NoneOf(e.paths, d) BY <1>5 DEF NoneOf, References
  <2> QED BY <1>5, <2>1 DEF Followed
<1>6. /\ paths[c] = <<>> \/ DOMAIN paths'[c] = DOMAIN paths[c]
      /\ engine'.paths \subseteq engine.paths \cup References(c, paths'[c])
      /\ list'[c] \subseteq engine.paths \cup References(c, paths'[c])
      /\ stage'[c] = "validating" <=> list'[c] # {}
      /\ stage'[c] = "converging" => best'[c] \in engine.paths \cup References(c, paths'[c])
      /\ stage'[c] # "decomposing"
  BY <1>1, <1>2 DEF Followed
<1>7. stage[c] = "new" => /\ engine'.paths \subseteq References(c, paths'[c])
                          /\ stage'[c] \notin {"validating", "converging"}
  BY <1>2 DEF Followed
<1> QED BY <1>3, <1>4, <1>5, <1>6, <1>7 DEF Bounded

(* The turns. *)
LEMMA FreshIs ==
  ASSUME ThoughtsTyped
  PROVE  Fresh(engine) = [parallel |-> engine.parallel, paths |-> {}, step |-> 0]
<1>1. engine = [parallel |-> engine.parallel, paths |-> engine.paths, step |-> engine.step]
  BY DEF ThoughtsTyped, Engines
<1>2. Fresh(engine) = [[engine EXCEPT !.paths = {}] EXCEPT !.step = 0] BY DEF Fresh
<1>3. [engine EXCEPT !.paths = {}] = [parallel |-> engine.parallel, paths |-> {}, step |-> engine.step]
  BY <1>1
<1>4. ASSUME NEW p, NEW n
      PROVE  [[parallel |-> p, paths |-> {}, step |-> n] EXCEPT !.step = 0]
               = [parallel |-> p, paths |-> {}, step |-> 0]
  OBVIOUS
<1> QED BY <1>2, <1>3, <1>4

LEMMA BeginsKeeps ==
  ASSUME NEW c \in Calls, ThoughtsInv, Begins(c)
  PROVE  ThoughtsInv'
<1>0. ThoughtsTyped /\ Rooted BY DEF ThoughtsInv
<1>1. /\ stage[c] = "new" /\ stage' = [stage EXCEPT ![c] = "decomposing"]
      /\ engine' = [Fresh(engine) EXCEPT !.step = @ + 1]
      /\ UNCHANGED <<paths, todo, list, best, result>>
  BY DEF Begins
<1>2. engine.parallel \in BOOLEAN /\ DOMAIN engine = {"parallel", "paths", "step"}
  BY <1>0 DEF ThoughtsTyped, Engines
<1>3. engine' = [parallel |-> engine.parallel, paths |-> {}, step |-> 1]
  <2>1. Fresh(engine) = [parallel |-> engine.parallel, paths |-> {}, step |-> 0] BY <1>0, FreshIs
  <2> QED BY <1>1, <2>1
<1>4. engine' \in Engines
  <2>1. {} \in Lists BY FS_EmptySet DEF Lists
  <2> QED BY <1>2, <1>3, <2>1 DEF Engines
<1>5. list[c] = {} /\ paths[c] = <<>> /\ todo[c] \subseteq DOMAIN paths[c]
  BY <1>0, <1>1 DEF Rooted
<1>6. stage'[c] = "decomposing" BY <1>0, <1>1 DEF ThoughtsTyped
<1>7. overlapped' = IF Active # {} THEN overlapped \cup Active \cup {c} ELSE overlapped
  BY DEF Begins, Enters
<1>8. TurnOf(c) BY <1>0, <1>1, <1>4, <1>5, <1>6, <1>7 DEF TurnOf, ThoughtsTyped, Stages
<1>9. Bounded(c) BY <1>1, <1>3, <1>5, <1>6 DEF Bounded
<1>10. FoundOut(c)' BY <1>3, <1>6 DEF FoundOut
<1> QED BY <1>6, <1>8, <1>9, <1>10, TurnKeeps

LEMMA RaisesKeeps ==
  ASSUME NEW c \in Calls, ThoughtsInv, Raises(c)
  PROVE  ThoughtsInv'
<1>0. ThoughtsTyped BY DEF ThoughtsInv
<1>1. /\ stage[c] \notin {"new", "returned", "raised"}
      /\ stage' = [stage EXCEPT ![c] = "raised"]
      /\ todo' = [todo EXCEPT ![c] = {}] /\ list' = [list EXCEPT ![c] = {}]
      /\ UNCHANGED <<engine, paths, best, result, overlapped>>
  BY DEF Raises, Active
<1>2. stage'[c] = "raised" /\ todo'[c] = {} /\ list'[c] = {} BY <1>0, <1>1 DEF ThoughtsTyped
<1>3. list'[c] \in Lists BY <1>2, FS_EmptySet DEF Lists
<1>4. TurnOf(c) BY <1>0, <1>1, <1>2, <1>3 DEF TurnOf, ThoughtsTyped, Stages
<1>5. Bounded(c) BY <1>1, <1>2 DEF Bounded
<1>6. c \notin Active' BY <1>2 DEF Active
<1> QED BY <1>2, <1>4, <1>5, <1>6, TurnKeeps

(* What the turn of an active call that is alone starts from. *)
LEMMA StillAlone ==
  ASSUME NEW c \in Calls, ThoughtsInv, overlapped' = overlapped, c \notin overlapped',
         stage[c] \notin {"new", "returned", "raised"}
  PROVE  FoundOut(c)
BY DEF ThoughtsInv, Active

LEMMA DecomposesKeeps ==
  ASSUME NEW c \in Calls, ThoughtsInv, Decomposes(c)
  PROVE  ThoughtsInv'
<1>0. ThoughtsTyped /\ Rooted BY DEF ThoughtsInv
<1>1. PICK parts \in 0..MaxParts :
        LET made == InitialPaths(parts)
            open == {i \in DOMAIN made : Unfinished(made[i])}
            ps   == [paths EXCEPT ![c] = made]
            e    == [engine EXCEPT !.paths = References(c, made)]
            waits == IF engine.parallel THEN made # <<>> ELSE open # {}
        IN  /\ todo' = [todo EXCEPT ![c] = open]
            /\ \/ ~waits /\ StartsValidation(c, ps, e)
               \/ /\ waits /\ paths' = ps /\ engine' = e
                  /\ stage' = [stage EXCEPT ![c] = "exploring"]
                  /\ UNCHANGED <<list, best, result>>
  BY DEF Decomposes
<1>2. stage[c] = "decomposing" /\ overlapped' = overlapped BY DEF Decomposes
<1> DEFINE made == InitialPaths(parts)
           open == {i \in DOMAIN made : Unfinished(made[i])}
           ps   == [paths EXCEPT ![c] = made]
           e    == [engine EXCEPT !.paths = References(c, made)]
<1>3. /\ todo' = [todo EXCEPT ![c] = open] /\ open \subseteq DOMAIN made
      /\ \/ StartsValidation(c, ps, e)
         \/ /\ paths' = ps /\ engine' = e
            /\ stage' = [stage EXCEPT ![c] = "exploring"]
            /\ UNCHANGED <<list, best, result>>
  BY <1>1
<1>4. parts \in Nat BY ThoughtsAssumption
<1>5. made \in Seq(SolutionPaths) /\ Cardinality(Explorations(made)) = 0 BY <1>4, InitialFacts
<1> HIDE DEF made, open
<1>6. References(c, made) \in Lists BY <1>5, ReferencesFacts
<1>7. e \in Engines /\ e.paths = References(c, made) /\ e.step = engine.step
      /\ e.parallel = engine.parallel
  <2>1. engine \in Engines BY <1>0 DEF ThoughtsTyped
  <2>2. e = [parallel |-> engine.parallel, paths |-> References(c, made), step |-> engine.step]
    BY <2>1 DEF Engines
  <2> HIDE DEF e
  <2> QED BY <1>6, <2>1, <2>2 DEF Engines
<1>8. ps \in [Calls -> Seq(SolutionPaths)] /\ ps[c] = made
      /\ \A d \in Calls \ {c} : ps[d] = paths[d]
  BY <1>0, <1>5 DEF ThoughtsTyped
<1> HIDE DEF ps, e
<1>9. Existing(e.paths, ps) BY <1>7, <1>8 DEF Existing, References
<1>10. paths[c] = <<>> /\ list[c] = {} BY <1>0, <1>2 DEF Rooted
<1>11. todo' = [todo EXCEPT ![c] = todo'[c]] /\ todo'[c] \subseteq DOMAIN ps[c]
  BY <1>0, <1>3, <1>8 DEF ThoughtsTyped
<1>12. ASSUME c \notin overlapped' PROVE Complete(c, e.paths, ps[c], e.step)
  <2>1. engine.step = 1 BY <1>2, <1>12, StillAlone DEF FoundOut
  <2> QED BY <1>5, <1>7, <1>8, <2>1 DEF Complete, Counted
<1>13. CASE StartsValidation(c, ps, e)
  <2>1. Followed(c, ps, e) BY <1>0, <1>7, <1>8, <1>9, <1>13, StartsValidationFacts
  <2>2. TurnOf(c) /\ Bounded(c)
    BY <1>0, <1>2, <1>7, <1>8, <1>10, <1>11, <2>1, FollowedTurn
  <2>3. ASSUME c \notin overlapped'
        PROVE  /\ stage'[c] \in {"validating", "converging"} => FoundOut(c)'
               /\ stage'[c] = "returned" => Justified(c, paths'[c], result'[c])
    BY <1>0, <1>7, <1>8, <1>12, <1>13, <2>3, StartsValidationAlone
  <2>4. stage'[c] \in {"validating", "converging", "returned"} BY <2>1 DEF Followed
  <2>5. c \in Active' => stage'[c] # "returned" BY DEF Active
  <2> QED BY <2>2, <2>3, <2>4, <2>5, TurnKeeps
<1>14. CASE /\ paths' = ps /\ engine' = e
            /\ stage' = [stage EXCEPT ![c] = "exploring"]
            /\ UNCHANGED <<list, best, result>>
  <2>1. stage'[c] = "exploring" BY <1>0, <1>14 DEF ThoughtsTyped
  <2>2. TurnOf(c)
    BY <1>0, <1>2, <1>7, <1>8, <1>11, <1>14, <2>1 DEF TurnOf, ThoughtsTyped, Stages
  <2>3. Bounded(c) BY <1>2, <1>7, <1>8, <1>10, <1>14, <2>1 DEF Bounded
  <2>4. c \notin overlapped' => FoundOut(c)' BY <1>12, <1>14, <2>1 DEF FoundOut
  <2> QED BY <2>1, <2>2, <2>3, <2>4, TurnKeeps
<1> QED BY <1>3, <1>13, <1>14

(* One more step of one path. *)
LEMMA OneLonger ==
  ASSUME NEW c \in Calls, ThoughtsTyped, Rooted, NEW i \in DOMAIN paths[c]
  PROVE  LET ps == [paths EXCEPT ![c][i] = Longer(@, "exploration")]
         IN  /\ ps \in [Calls -> Seq(SolutionPaths)] /\ DOMAIN ps[c] = DOMAIN paths[c]
             /\ \A d \in Calls \ {c} : ps[d] = paths[d]
             /\ Existing(engine.paths, ps) /\ References(c, ps[c]) = References(c, paths[c])
             /\ \A step \in Nat : Counted(c, paths[c], step) => Counted(c, ps[c], step + 1)
<1> DEFINE more == [paths[c] EXCEPT ![i] = Longer(@, "exploration")]
           ps   == [paths EXCEPT ![c][i] = Longer(@, "exploration")]
<1>1. paths[c] \in Seq(SolutionPaths) BY DEF ThoughtsTyped
<1>2. /\ more \in Seq(SolutionPaths) /\ DOMAIN more = DOMAIN paths[c]
      /\ Cardinality(Explorations(more)) = Cardinality(Explorations(paths[c])) + 1
  BY <1>1, ExplorationCounts
<1>3. ps = [paths EXCEPT ![c] = more] BY DEF ThoughtsTyped
<1> HIDE DEF more, ps
<1>4. ps \in [Calls -> Seq(SolutionPaths)] /\ ps[c] = more /\ \A d \in Calls \ {c} : ps[d] = paths[d]
  BY <1>2, <1>3 DEF ThoughtsTyped
<1>5. Existing(engine.paths, ps)
  <2>1. \A r \in engine.paths : r[1] \in Calls BY DEF ThoughtsTyped, Engines, Lists, PathRefs
  <2> QED BY <1>2, <1>4, <2>1 DEF Rooted, Existing
<1>6. References(c, ps[c]) = References(c, paths[c]) BY <1>2, <1>4 DEF References
<1>7. ASSUME NEW step \in Nat, Counted(c, paths[c], step) PROVE Counted(c, ps[c], step + 1)
  <2>1. Cardinality(Explorations(paths[c])) \in Nat BY <1>1, ExplorationsFinite
  <2>2. step + 1 = 1 + Cardinality(Explorations(more)) BY <1>2, <1>7, <2>1 DEF Counted
  <2> QED BY <1>4, <2>2 DEF Counted
<1> QED BY <1>2, <1>4, <1>5, <1>6, <1>7 DEF ps

LEMMA CountsUp ==
  ASSUME NEW e \in Engines, NEW n \in Nat
  PROVE  LET f == [e EXCEPT !.step = @ + n]
         IN  f \in Engines /\ f.paths = e.paths /\ f.step = e.step + n /\ f.parallel = e.parallel
<1> DEFINE f == [e EXCEPT !.step = @ + n]
<1>1. f = [parallel |-> e.parallel, paths |-> e.paths, step |-> e.step + n] BY DEF Engines
<1>2. e.parallel \in BOOLEAN /\ e.paths \in Lists /\ e.step + n \in Nat BY DEF Engines
<1> HIDE DEF f
<1>3. f \in Engines BY <1>1, <1>2 DEF Engines
<1> QED BY <1>1, <1>3 DEF f

LEMMA ExploresKeeps ==
  ASSUME NEW c \in Calls, NEW i \in todo[c], ThoughtsInv, Explores(c, i)
  PROVE  ThoughtsInv'
<1> DEFINE ps   == [paths EXCEPT ![c][i] = Longer(@, "exploration")]
           e    == [engine EXCEPT !.step = @ + 1]
           left == {j \in todo[c] : (engine.parallel /\ j # i) \/ Unfinished(ps[c][j])}
<1>0. ThoughtsTyped /\ Rooted BY DEF ThoughtsInv
<1>1. /\ stage[c] = "exploring" /\ overlapped' = overlapped
      /\ todo' = [todo EXCEPT ![c] = left] /\ left \subseteq todo[c]
      /\ \/ StartsValidation(c, ps, e)
         \/ paths' = ps /\ engine' = e /\ UNCHANGED <<stage, list, best, result>>
  BY DEF Explores
<1> HIDE DEF left
<1>2. todo[c] \subseteq DOMAIN paths[c] BY <1>0 DEF Rooted
<1>3. i \in DOMAIN paths[c] BY <1>2
<1>4. /\ ps \in [Calls -> Seq(SolutionPaths)] /\ DOMAIN ps[c] = DOMAIN paths[c]
      /\ \A d \in Calls \ {c} : ps[d] = paths[d]
      /\ Existing(engine.paths, ps) /\ References(c, ps[c]) = References(c, paths[c])
      /\ \A step \in Nat : Counted(c, paths[c], step) => Counted(c, ps[c], step + 1)
  BY <1>0, <1>3, OneLonger
<1>5. engine \in Engines /\ engine.step \in Nat BY <1>0 DEF ThoughtsTyped, Engines
<1>6. e \in Engines /\ e.paths = engine.paths /\ e.step = engine.step + 1
  <2>1. 1 \in Nat OBVIOUS
  <2> QED BY <1>5, <2>1, CountsUp
<1> HIDE DEF ps, e
<1>7. todo' = [todo EXCEPT ![c] = todo'[c]] /\ todo'[c] \subseteq DOMAIN ps[c]
  BY <1>0, <1>1, <1>2, <1>4 DEF ThoughtsTyped
<1>8. Existing(e.paths, ps) BY <1>4, <1>6
<1>9. ASSUME c \notin overlapped' PROVE Complete(c, e.paths, ps[c], e.step)
  <2>1. Complete(c, engine.paths, paths[c], engine.step) BY <1>1, <1>9, StillAlone DEF FoundOut
  <2>2. Counted(c, ps[c], e.step) BY <1>4, <1>5, <1>6, <2>1 DEF Complete
  <2> QED BY <1>4, <1>6, <2>1, <2>2 DEF Complete
<1>10. CASE StartsValidation(c, ps, e)
  <2>1. Followed(c, ps, e) BY <1>0, <1>4, <1>6, <1>8, <1>10, StartsValidationFacts
  <2>2. TurnOf(c) /\ Bounded(c)
    BY <1>0, <1>1, <1>4, <1>6, <1>7, <2>1, FollowedTurn
  <2>3. ASSUME c \notin overlapped'
        PROVE  /\ stage'[c] \in {"validating", "converging"} => FoundOut(c)'
               /\ stage'[c] = "returned" => Justified(c, paths'[c], result'[c])
    BY <1>0, <1>4, <1>6, <1>9, <1>10, <2>3, StartsValidationAlone
  <2>4. stage'[c] \in {"validating", "converging", "returned"} BY <2>1 DEF Followed
  <2>5. c \in Active' => stage'[c] # "returned" BY DEF Active
  <2> QED BY <2>2, <2>3, <2>4, <2>5, TurnKeeps
<1>11. CASE paths' = ps /\ engine' = e /\ UNCHANGED <<stage, list, best, result>>
  <2>1. stage'[c] = "exploring" /\ stage'[c] \in Stages \ {"new"} BY <1>1, <1>11 DEF Stages
  <2>2. TurnOf(c)
    BY <1>0, <1>1, <1>4, <1>6, <1>7, <1>11, <2>1 DEF TurnOf, ThoughtsTyped
  <2>3. list[c] = {} BY <1>0, <1>1 DEF Rooted
  <2>4. Bounded(c) BY <1>1, <1>4, <1>6, <1>11, <2>1, <2>3 DEF Bounded
  <2>5. c \notin overlapped' => FoundOut(c)' BY <1>9, <1>11, <2>1 DEF FoundOut
  <2> QED BY <2>1, <2>2, <2>4, <2>5, TurnKeeps
<1> QED BY <1>1, <1>10, <1>11

LEMMA ExplorationFailsKeeps ==
  ASSUME NEW c \in Calls, NEW i \in todo[c], ThoughtsInv, ExplorationFails(c, i)
  PROVE  ThoughtsInv'
<1>0. ThoughtsTyped /\ Rooted BY DEF ThoughtsInv
<1>1. /\ stage[c] = "exploring" /\ todo' = [todo EXCEPT ![c] = @ \ {i}]
      /\ UNCHANGED <<engine, stage, paths, list, best, result, overlapped>>
  BY DEF ExplorationFails
<1>2. todo' = [todo EXCEPT ![c] = todo'[c]] /\ todo'[c] \subseteq DOMAIN paths'[c]
  BY <1>0, <1>1 DEF ThoughtsTyped, Rooted
<1>3. TurnOf(c) BY <1>0, <1>1, <1>2 DEF TurnOf, ThoughtsTyped, Stages
<1>4. list[c] = {} BY <1>0, <1>1 DEF Rooted
<1>5. Bounded(c) BY <1>1, <1>4 DEF Bounded
<1>6. ASSUME c \notin overlapped' PROVE FoundOut(c)'
  <2>1. Complete(c, engine.paths, paths[c], engine.step) BY <1>1, <1>6, StillAlone DEF FoundOut
  <2> QED BY <1>1, <2>1 DEF FoundOut
<1> QED BY <1>1, <1>3, <1>5, <1>6, TurnKeeps

LEMMA HasExploredKeeps ==
  ASSUME NEW c \in Calls, ThoughtsInv, HasExplored(c)
  PROVE  ThoughtsInv'
<1>0. ThoughtsTyped /\ Rooted BY DEF ThoughtsInv
<1>1. /\ stage[c] = "exploring" /\ StartsValidation(c, paths, engine)
      /\ todo' = todo /\ overlapped' = overlapped
  BY DEF HasExplored
<1>2. /\ paths \in [Calls -> Seq(SolutionPaths)] /\ engine \in Engines
      /\ Existing(engine.paths, paths) /\ todo[c] \subseteq DOMAIN paths[c]
      /\ todo' = [todo EXCEPT ![c] = todo'[c]]
  BY <1>0, <1>1 DEF ThoughtsTyped, Rooted
<1>3. Followed(c, paths, engine) BY <1>0, <1>1, <1>2, StartsValidationFacts
<1>4. TurnOf(c) /\ Bounded(c) BY <1>0, <1>1, <1>2, <1>3, FollowedTurn
<1>5. ASSUME c \notin overlapped'
      PROVE  /\ stage'[c] \in {"validating", "converging"} => FoundOut(c)'
             /\ stage'[c] = "returned" => Justified(c, paths'[c], result'[c])
  <2>1. Complete(c, engine.paths, paths[c], engine.step) BY <1>1, <1>5, StillAlone DEF FoundOut
  <2> QED BY <1>0, <1>1, <1>2, <2>1, StartsValidationAlone
<1>6. stage'[c] \in {"validating", "converging", "returned"} BY <1>3 DEF Followed
<1>7. c \in Active' => stage'[c] # "returned" BY DEF Active
<1> QED BY <1>4, <1>5, <1>6, <1>7, TurnKeeps

(* The validation of one path. *)
LEMMA OneRated ==
  ASSUME ThoughtsTyped, NEW r \in PathRefs, r[2] \in DOMAIN paths[r[1]], NEW score \in Int
  PROVE  LET ps == [paths EXCEPT ![r[1]][r[2]] = Rated(@, score)]
         IN  /\ ps \in [Calls -> Seq(SolutionPaths)]
             /\ \A d \in Calls : DOMAIN ps[d] = DOMAIN paths[d] /\ (d # r[1] => ps[d] = paths[d])
             /\ Explorations(ps[r[1]]) = Explorations(paths[r[1]])
             /\ Validated(ps[r[1]][r[2]])
             /\ \A i \in DOMAIN paths[r[1]] : i # r[2] => ps[r[1]][i] = paths[r[1]][i]
<1> DEFINE c    == r[1]
           i    == r[2]
           path == Rated(paths[c][i], score)
           own  == [paths[c] EXCEPT ![i] = path]
           ps   == [paths EXCEPT ![r[1]][r[2]] = Rated(@, score)]
<1>1. c \in Calls /\ paths[c] \in Seq(SolutionPaths) /\ i \in DOMAIN paths[c]
  BY DEF ThoughtsTyped, PathRefs
<1>2. paths[c][i] \in SolutionPaths BY <1>1
<1>3. /\ path \in SolutionPaths /\ path.steps = Append(paths[c][i].steps, "validation")
      /\ Validated(path)
  BY <1>2, RatedFacts
<1>4. ps = [paths EXCEPT ![c] = own] BY <1>1 DEF ThoughtsTyped
<1> HIDE DEF path, c, i
<1>5. own \in Seq(SolutionPaths) /\ DOMAIN own = DOMAIN paths[c] /\ own[i] = path
      /\ \A j \in DOMAIN paths[c] : j # i => own[j] = paths[c][j]
  BY <1>1, <1>3
<1> HIDE DEF own, ps
<1>6. "validation" \in PathKinds \ {"exploration"} BY DEF PathKinds
<1>7. Explorations(own) = Explorations(paths[c])
  <2>1. \A j \in DOMAIN paths[c] :
          \/ own[j].steps = paths[c][j].steps
          \/ \E kind \in PathKinds \ {"exploration"} : own[j].steps = Append(paths[c][j].steps, kind)
    BY <1>3, <1>5, <1>6
  <2> QED BY <1>1, <1>5, <2>1, OtherStepsDontCount
<1>8. /\ ps \in [Calls -> Seq(SolutionPaths)] /\ ps[c] = own
      /\ \A d \in Calls \ {c} : ps[d] = paths[d]
  BY <1>1, <1>4, <1>5 DEF ThoughtsTyped
<1> QED BY <1>1, <1>3, <1>5, <1>7, <1>8 DEF c, i, ps

LEMMA ValidatesKeeps ==
  ASSUME NEW c \in Calls, ThoughtsInv, Validates(c)
  PROVE  ThoughtsInv'
<1> DEFINE r    == First(list[c])
           left == list[c] \ {r}
           After(score) == [paths EXCEPT ![r[1]][r[2]] = Rated(@, score)]
<1>0. ThoughtsTyped /\ Rooted BY DEF ThoughtsInv
<1>1. PICK score \in Scores :
        \/ left = {} /\ Settles(c, After(score), engine)
        \/ /\ left # {} /\ paths' = After(score)
           /\ list' = [list EXCEPT ![c] = left]
           /\ UNCHANGED <<engine, stage, best, result>>
  BY DEF Validates
<1> DEFINE ps == After(score)
<1>2. stage[c] = "validating" /\ todo' = todo /\ overlapped' = overlapped BY DEF Validates
<1>3. /\ list[c] \in Lists /\ list[c] # {} /\ list[c] \subseteq PathRefs
      /\ Existing(list[c], paths) /\ todo[c] \subseteq DOMAIN paths[c]
      /\ Existing(engine.paths, paths)
  BY <1>0, <1>2 DEF ThoughtsTyped, Rooted, Lists
<1>4. r \in list[c] BY <1>3, FirstIs
<1>5. r \in PathRefs /\ r[2] \in DOMAIN paths[r[1]] /\ r = <<r[1], r[2]>> /\ r[1] \in Calls
  BY <1>3, <1>4 DEF Existing, PathRefs
<1> HIDE DEF r
<1>6. /\ ps \in [Calls -> Seq(SolutionPaths)]
      /\ \A d \in Calls : DOMAIN ps[d] = DOMAIN paths[d] /\ (d # r[1] => ps[d] = paths[d])
      /\ Explorations(ps[r[1]]) = Explorations(paths[r[1]])
      /\ Validated(ps[r[1]][r[2]])
      /\ \A i \in DOMAIN paths[r[1]] : i # r[2] => ps[r[1]][i] = paths[r[1]][i]
  <2>1. score \in Int BY ThoughtsAssumption
  <2> QED BY <1>0, <1>5, <2>1, OneRated
<1>7. \/ left = {} /\ Settles(c, ps, engine)
      \/ /\ left # {} /\ paths' = ps
         /\ list' = [list EXCEPT ![c] = left]
         /\ UNCHANGED <<engine, stage, best, result>>
  BY <1>1
<1> HIDE DEF ps, After
<1>8. Existing(engine.paths, ps)
  <2>1. \A q \in engine.paths : q[1] \in Calls BY <1>0 DEF ThoughtsTyped, Engines, Lists, PathRefs
  <2> QED BY <1>3, <1>6, <2>1 DEF Existing
<1>9. \A d \in Calls \ {c} : Touches(c, d) \/ ps[d] = paths[d]
  BY <1>4, <1>6 DEF Touches, NoneOf
<1>10. engine \in Engines BY <1>0 DEF ThoughtsTyped
<1>11. ASSUME c \notin overlapped'
       PROVE  /\ Complete(c, engine.paths, ps[c], engine.step) /\ list[c] \subseteq engine.paths
              /\ \A i \in DOMAIN ps[c] : <<c, i>> \notin left => Validated(ps[c][i])
  <2>1. FoundOut(c) BY <1>2, <1>11, StillAlone
  <2>2. /\ engine.paths = References(c, paths[c]) /\ Counted(c, paths[c], engine.step)
        /\ list[c] \subseteq engine.paths
        /\ \A i \in DOMAIN paths[c] : <<c, i>> \notin list[c] => Validated(paths[c][i])
    BY <1>2, <2>1 DEF FoundOut, Complete
  <2>3. r[1] = c BY <1>4, <2>2 DEF References
  <2>4. References(c, ps[c]) = References(c, paths[c]) BY <1>6 DEF References
  <2>5. Counted(c, ps[c], engine.step) BY <1>6, <2>2, <2>3 DEF Counted
  <2>6. ASSUME NEW i \in DOMAIN ps[c], <<c, i>> \notin left PROVE Validated(ps[c][i])
    <3>1. CASE i = r[2] BY <1>6, <2>3, <3>1
    <3>2. CASE i # r[2]
      <4>1. <<c, i>> # r BY <3>2
      <4>2. <<c, i>> \notin list[c] BY <2>6, <4>1
      <4>3. ps[c][i] = paths[c][i] /\ i \in DOMAIN paths[c] BY <1>6, <2>3, <3>2
      <4> QED BY <2>2, <4>2, <4>3
    <3> QED BY <3>1, <3>2
  <2> QED BY <2>2, <2>4, <2>5, <2>6 DEF Complete
<1>12. CASE left = {} /\ Settles(c, ps, engine)
  <2>1. Followed(c, ps, engine) BY <1>0, <1>6, <1>8, <1>10, <1>12, SettlesFacts
  <2>2. TurnOf(c) /\ Bounded(c)
    <3>1. todo' = [todo EXCEPT ![c] = todo'[c]] /\ todo'[c] \subseteq DOMAIN ps[c]
      BY <1>0, <1>2, <1>3, <1>6 DEF ThoughtsTyped
    <3> QED BY <1>0, <1>2, <1>6, <1>9, <1>10, <2>1, <3>1, FollowedTurn
  <2>3. stage'[c] \in {"converging", "returned"} BY <1>0, <1>12 DEF Settles, ThoughtsTyped
  <2>4. ASSUME c \notin overlapped'
        PROVE  /\ stage'[c] = "converging" => FoundOut(c)'
               /\ stage'[c] = "returned" => Justified(c, paths'[c], result'[c])
    <3>1. \A i \in DOMAIN ps[c] : Validated(ps[c][i]) BY <1>11, <1>12, <2>4
    <3> QED BY <1>0, <1>6, <1>10, <1>11, <1>12, <2>4, <3>1, SettlesAlone
  <2>5. c \in Active' => stage'[c] # "returned" BY DEF Active
  <2> QED BY <2>2, <2>3, <2>4, <2>5, TurnKeeps
<1>13. CASE /\ left # {} /\ paths' = ps
            /\ list' = [list EXCEPT ![c] = left]
            /\ UNCHANGED <<engine, stage, best, result>>
  <2>1. list' = [list EXCEPT ![c] = list'[c]] /\ list'[c] = left BY <1>0, <1>13 DEF ThoughtsTyped
  <2>2. left \in Lists
    <3>1. IsFiniteSet(list[c]) BY <1>3 DEF Lists
    <3>2. IsFiniteSet(left) BY <3>1, FS_Subset
    <3> QED BY <1>3, <3>2 DEF Lists
  <2>3. TurnOf(c)
    BY <1>0, <1>2, <1>3, <1>6, <1>10, <1>13, <2>1, <2>2 DEF TurnOf, ThoughtsTyped, Stages
  <2>4. Bounded(c) BY <1>2, <1>6, <1>9, <1>13, <2>1 DEF Bounded
  <2>5. c \notin overlapped' => FoundOut(c)' BY <1>2, <1>11, <1>13, <2>1 DEF FoundOut
  <2> QED BY <1>2, <1>13, <2>3, <2>4, <2>5, TurnKeeps
<1> QED BY <1>7, <1>12, <1>13

LEMMA ReturnsKeeps ==
  ASSUME NEW c \in Calls, ThoughtsInv, Returns(c)
  PROVE  ThoughtsInv'
<1> DEFINE one == {best[c]}
<1>0. ThoughtsTyped /\ Rooted BY DEF ThoughtsInv
<1>1. /\ stage[c] = "converging" /\ stage' = [stage EXCEPT ![c] = "returned"]
      /\ paths' = Marked(paths, one, "convergence")
      /\ result' = [result EXCEPT ![c] = Solved(paths, engine.paths, best[c], engine.step)]
      /\ UNCHANGED <<engine, todo, list, best, overlapped>>
  BY DEF Returns
<1>2. paths \in [Calls -> Seq(SolutionPaths)] /\ todo[c] \subseteq DOMAIN paths[c] /\ list[c] = {}
  BY <1>0, <1>1 DEF ThoughtsTyped, Rooted
<1>3. /\ paths' \in [Calls -> Seq(SolutionPaths)]
      /\ \A d \in Calls : /\ DOMAIN paths'[d] = DOMAIN paths[d]
                          /\ best[c][1] # d => paths'[d] = paths[d]
  <2>1. "convergence" \in PathKinds BY DEF PathKinds
  <2>2. \A d \in Calls : best[c][1] # d => NoneOf(one, d) BY DEF NoneOf
  <2> HIDE DEF one
  <2>3. /\ Marked(paths, one, "convergence") \in [Calls -> Seq(SolutionPaths)]
        /\ \A d \in Calls :
             /\ DOMAIN Marked(paths, one, "convergence")[d] = DOMAIN paths[d]
             /\ NoneOf(one, d) => Marked(paths, one, "convergence")[d] = paths[d]
    BY <1>2, <2>1, MarkedElsewhere
  <2> QED BY <1>1, <2>2, <2>3
<1>4. stage'[c] = "returned" BY <1>0, <1>1 DEF ThoughtsTyped
<1>5. TurnOf(c) BY <1>0, <1>1, <1>2, <1>3, <1>4 DEF TurnOf, ThoughtsTyped, Stages
<1>6. Bounded(c) BY <1>1, <1>2, <1>3, <1>4 DEF Bounded, Touches
<1>7. c \notin Active' BY <1>4 DEF Active
<1>8. ASSUME c \notin overlapped' PROVE Justified(c, paths'[c], result'[c])
  <2>1. FoundOut(c) BY <1>1, <1>8, StillAlone
  <2>2. /\ Counted(c, paths[c], engine.step) /\ engine.paths = Valid(c, paths[c])
        /\ Sorted(paths[c]) /\ IsBest(best[c], c, paths[c])
    BY <1>1, <2>1 DEF FoundOut
  <2>3. result'[c] = Solved(paths, Valid(c, paths[c]), best[c], engine.step)
    BY <1>0, <1>1, <2>2 DEF ThoughtsTyped
  <2>4. Justified(c, Marked(paths, {best[c]}, "convergence")[c],
                  Solved(paths, Valid(c, paths[c]), best[c], engine.step))
    BY <1>2, <2>2, AnswerJustified
  <2> QED BY <1>1, <2>3, <2>4
<1> QED BY <1>5, <1>6, <1>7, <1>8, TurnKeeps

(* Without an LLM. *)
LEMMA ReasonsAloneKeeps ==
  ASSUME NEW c \in Calls, ThoughtsInv, ReasonsAlone(c)
  PROVE  ThoughtsInv'
<1> DEFINE made == InitialPaths(5)
           full == Filled(made)
           e    == [Fresh(engine) EXCEPT !.paths = References(c, made), !.step = @ + 1]
           f    == [e EXCEPT !.step = @ + Cardinality(Missing(made))]
           ps   == [paths EXCEPT ![c] = made]
           qs   == [paths EXCEPT ![c] = full]
<1>0. ThoughtsTyped /\ Rooted BY DEF ThoughtsInv
<1>1. /\ stage[c] = "new" /\ list' = list /\ best' = best
      /\ \/ Concludes(c, qs, f) /\ todo' = todo
         \/ /\ stage' = [stage EXCEPT ![c] = "gathering"]
            /\ paths' = ps /\ engine' = e /\ todo' = [todo EXCEPT ![c] = DOMAIN made]
            /\ result' = result
  BY DEF ReasonsAlone
<1>2. overlapped' = IF Active # {} THEN overlapped \cup Active \cup {c} ELSE overlapped
  BY DEF ReasonsAlone, Enters
<1>3. made \in Seq(SolutionPaths) /\ Cardinality(Explorations(made)) = 0
  <2>1. 5 \in Nat OBVIOUS
  <2> QED BY <2>1, InitialFacts
<1> HIDE DEF made
<1>4. /\ full \in Seq(SolutionPaths) /\ DOMAIN full = DOMAIN made
      /\ Cardinality(Explorations(full)) = Cardinality(Missing(made))
      /\ Cardinality(Missing(made)) \in Nat
  <2>1. Cardinality(Missing(made)) \in Nat BY <1>3, MissingFinite
  <2>2. Cardinality(Explorations(full)) = 0 + Cardinality(Missing(made)) BY <1>3, FilledFacts
  <2> QED BY <1>3, <2>1, <2>2, FilledFacts
<1> HIDE DEF full
<1>5. References(c, made) \in Lists /\ References(c, full) = References(c, made)
  BY <1>3, <1>4, ReferencesFacts DEF References
<1>6. e = [parallel |-> engine.parallel, paths |-> References(c, made), step |-> 1]
  <2> DEFINE p == engine.parallel
             q == References(c, made)
  <2>1. Fresh(engine) = [parallel |-> p, paths |-> {}, step |-> 0] BY <1>0, FreshIs
  <2> HIDE DEF p, q
  <2>2. e = [[[parallel |-> p, paths |-> {}, step |-> 0] EXCEPT !.paths = q] EXCEPT !.step = @ + 1]
    BY <2>1 DEF q
  <2> HIDE DEF e
  <2>3. [[parallel |-> p, paths |-> {}, step |-> 0] EXCEPT !.paths = q]
          = [parallel |-> p, paths |-> q, step |-> 0]
    OBVIOUS
  <2>4. [[parallel |-> p, paths |-> q, step |-> 0] EXCEPT !.step = @ + 1]
          = [parallel |-> p, paths |-> q, step |-> 1]
    OBVIOUS
  <2>5. e = [parallel |-> p, paths |-> q, step |-> 1] BY <2>2, <2>3, <2>4
  <2> QED BY <2>5 DEF p, q
<1>7. e \in Engines
  <2>1. engine.parallel \in BOOLEAN BY <1>0 DEF ThoughtsTyped, Engines
  <2> HIDE DEF e
  <2> QED BY <1>5, <1>6, <2>1 DEF Engines
<1> HIDE DEF e
<1>8. f \in Engines /\ f.paths = References(c, made) /\ f.step = 1 + Cardinality(Missing(made))
  <2>1. f \in Engines /\ f.paths = e.paths /\ f.step = e.step + Cardinality(Missing(made))
    BY <1>4, <1>7, CountsUp
  <2> QED BY <1>6, <2>1
<1>9. /\ qs \in [Calls -> Seq(SolutionPaths)] /\ qs[c] = full
      /\ \A d \in Calls \ {c} : qs[d] = paths[d]
  BY <1>0, <1>4 DEF ThoughtsTyped
<1>10. /\ ps \in [Calls -> Seq(SolutionPaths)] /\ ps[c] = made
       /\ \A d \in Calls \ {c} : ps[d] = paths[d]
  BY <1>0, <1>3 DEF ThoughtsTyped
<1> HIDE DEF f, ps, qs
<1>11. paths[c] = <<>> /\ list[c] = {} /\ todo[c] = {}
  <2>1. paths[c] = <<>> /\ list[c] = {} /\ todo[c] \subseteq DOMAIN paths[c]
    BY <1>0, <1>1 DEF Rooted
  <2>2. DOMAIN <<>> = {} OBVIOUS
  <2> QED BY <2>1, <2>2
<1>12. CASE Concludes(c, qs, f) /\ todo' = todo
  <2>1. Existing(f.paths, qs) BY <1>4, <1>8, <1>9 DEF Existing, References
  <2>2. Followed(c, qs, f) /\ stage'[c] = "returned"
    BY <1>0, <1>1, <1>8, <1>9, <1>11, <1>12, <2>1, ConcludesFacts
  <2>3. todo' = [todo EXCEPT ![c] = todo'[c]] /\ todo'[c] \subseteq DOMAIN qs[c]
    BY <1>0, <1>11, <1>12 DEF ThoughtsTyped
  <2>4. TurnOf(c) /\ Bounded(c)
    <3>1. f.paths \subseteq References(c, qs[c]) BY <1>5, <1>8, <1>9
    <3>2. overlapped' = IF stage[c] = "new" /\ Active # {} THEN overlapped \cup Active \cup {c}
                                                           ELSE overlapped
      BY <1>1, <1>2
    <3> QED BY <1>0, <1>1, <1>8, <1>9, <1>11, <2>2, <2>3, <3>1, <3>2, FollowedTurn
  <2>5. Complete(c, f.paths, qs[c], f.step) BY <1>4, <1>5, <1>8, <1>9 DEF Complete, Counted
  <2>6. Justified(c, paths'[c], result'[c]) BY <1>0, <1>8, <1>9, <1>12, <2>5, ConcludesAlone
  <2>7. c \notin Active' BY <2>2 DEF Active
  <2> QED BY <2>4, <2>6, <2>7, TurnKeeps
<1>13. CASE /\ stage' = [stage EXCEPT ![c] = "gathering"]
            /\ paths' = ps /\ engine' = e /\ todo' = [todo EXCEPT ![c] = DOMAIN made]
            /\ result' = result
  <2>1. stage'[c] = "gathering" BY <1>0, <1>13 DEF ThoughtsTyped
  <2>2. todo' = [todo EXCEPT ![c] = todo'[c]] /\ todo'[c] = DOMAIN made
    BY <1>0, <1>13 DEF ThoughtsTyped
  <2>3. TurnOf(c)
    BY <1>0, <1>1, <1>2, <1>7, <1>10, <1>13, <2>1, <2>2 DEF TurnOf, ThoughtsTyped, Stages
  <2>4. e.paths = References(c, ps[c]) BY <1>6, <1>10
  <2>5. Bounded(c) BY <1>1, <1>10, <1>11, <1>13, <2>1, <2>4 DEF Bounded
  <2>6. FoundOut(c)'
    <3>1. Counted(c, ps[c], e.step) BY <1>3, <1>6, <1>10 DEF Counted
    <3> QED BY <1>13, <2>1, <2>4, <3>1 DEF FoundOut, Complete
  <2> QED BY <2>1, <2>3, <2>5, <2>6, TurnKeeps
<1> QED BY <1>1, <1>12, <1>13

LEMMA GathersKeeps ==
  ASSUME NEW c \in Calls, ThoughtsInv, Gathers(c)
  PROVE  ThoughtsInv'
<1> DEFINE full == Filled(paths[c])
           n    == Cardinality(Missing(paths[c]))
           e    == [engine EXCEPT !.step = @ + n]
<1>0. ThoughtsTyped /\ Rooted BY DEF ThoughtsInv
<1>1. /\ stage[c] = "gathering" /\ todo' = [todo EXCEPT ![c] = {}]
      /\ paths' = [paths EXCEPT ![c] = full] /\ engine' = e
      /\ UNCHANGED <<stage, list, best, result, overlapped>>
  BY <1>0 DEF Gathers, ThoughtsTyped
<1>2. paths[c] \in Seq(SolutionPaths) /\ engine \in Engines /\ engine.step \in Nat
  BY <1>0 DEF ThoughtsTyped, Engines
<1>3. /\ full \in Seq(SolutionPaths) /\ DOMAIN full = DOMAIN paths[c] /\ n \in Nat
      /\ Cardinality(Explorations(full)) = Cardinality(Explorations(paths[c])) + n
      /\ Cardinality(Explorations(paths[c])) \in Nat
  BY <1>2, FilledFacts, MissingFinite, ExplorationsFinite
<1> HIDE DEF full, n
<1>4. e \in Engines /\ e.paths = engine.paths /\ e.step = engine.step + n
  BY <1>2, <1>3, CountsUp
<1> HIDE DEF e
<1>5. /\ paths' \in [Calls -> Seq(SolutionPaths)] /\ paths'[c] = full
      /\ \A d \in Calls \ {c} : paths'[d] = paths[d]
  BY <1>0, <1>1, <1>3 DEF ThoughtsTyped
<1>6. todo' = [todo EXCEPT ![c] = todo'[c]] /\ todo'[c] = {} BY <1>0, <1>1 DEF ThoughtsTyped
<1>7. list[c] = {} BY <1>0, <1>1 DEF Rooted
<1>8. TurnOf(c) BY <1>0, <1>1, <1>4, <1>5, <1>6 DEF TurnOf, ThoughtsTyped, Stages
<1>9. Bounded(c) BY <1>1, <1>3, <1>4, <1>5, <1>7 DEF Bounded
<1>10. ASSUME c \notin overlapped' PROVE FoundOut(c)'
  <2>1. engine.paths = References(c, paths[c]) /\ Counted(c, paths[c], engine.step)
    BY <1>1, <1>10, StillAlone DEF FoundOut, Complete
  <2>2. References(c, full) = References(c, paths[c]) BY <1>3 DEF References
  <2>3. Counted(c, full, e.step) BY <1>2, <1>3, <1>4, <2>1 DEF Counted
  <2> QED BY <1>1, <1>4, <1>5, <2>1, <2>2, <2>3 DEF FoundOut, Complete
<1> QED BY <1>1, <1>8, <1>9, <1>10, TurnKeeps

LEMMA HasGatheredKeeps ==
  ASSUME NEW c \in Calls, ThoughtsInv, HasGathered(c)
  PROVE  ThoughtsInv'
<1>0. ThoughtsTyped /\ Rooted BY DEF ThoughtsInv
<1>1. /\ stage[c] = "gathering" /\ Concludes(c, paths, engine)
      /\ UNCHANGED <<list, best>> /\ todo' = todo /\ overlapped' = overlapped
  BY DEF HasGathered
<1>2. /\ paths \in [Calls -> Seq(SolutionPaths)] /\ engine \in Engines
      /\ Existing(engine.paths, paths) /\ list[c] = {}
      /\ todo' = [todo EXCEPT ![c] = todo'[c]] /\ todo'[c] \subseteq DOMAIN paths[c]
  BY <1>0, <1>1 DEF ThoughtsTyped, Rooted
<1>3. Followed(c, paths, engine) /\ stage'[c] = "returned"
  BY <1>0, <1>1, <1>2, ConcludesFacts
<1>4. TurnOf(c) /\ Bounded(c) BY <1>0, <1>1, <1>2, <1>3, FollowedTurn
<1>5. ASSUME c \notin overlapped' PROVE Justified(c, paths'[c], result'[c])
  <2>1. Complete(c, engine.paths, paths[c], engine.step) BY <1>1, <1>5, StillAlone DEF FoundOut
  <2> QED BY <1>0, <1>1, <1>2, <2>1, ConcludesAlone
<1>6. c \notin Active' BY <1>3 DEF Active
<1> QED BY <1>4, <1>5, <1>6, TurnKeeps

LEMMA ThoughtsNextInv ==
  ASSUME ThoughtsInv, [ThoughtsNext]_thoughtVars
  PROVE  ThoughtsInv'
<1>1. CASE UNCHANGED thoughtVars
  BY <1>1 DEF thoughtVars, ThoughtsInv, ThoughtsTyped, Rooted, Existing, Apart, NoneOf, Active,
              FoundOut, BestPathWins
<1>2. ASSUME NEW c \in Calls,
             \/ Begins(c) \/ Decomposes(c) \/ HasExplored(c) \/ Validates(c)
             \/ Returns(c) \/ Raises(c)
             \/ ReasonsAlone(c) \/ Gathers(c) \/ HasGathered(c)
             \/ \E i \in todo[c] : Explores(c, i) \/ ExplorationFails(c, i)
      PROVE  ThoughtsInv'
  <2>1. CASE Begins(c) BY <2>1, BeginsKeeps
  <2>2. CASE Decomposes(c) BY <2>2, DecomposesKeeps
  <2>3. CASE HasExplored(c) BY <2>3, HasExploredKeeps
  <2>4. CASE Validates(c) BY <2>4, ValidatesKeeps
  <2>5. CASE Returns(c) BY <2>5, ReturnsKeeps
  <2>6. CASE Raises(c) BY <2>6, RaisesKeeps
  <2>7. CASE ReasonsAlone(c) BY <2>7, ReasonsAloneKeeps
  <2>8. CASE Gathers(c) BY <2>8, GathersKeeps
  <2>9. CASE HasGathered(c) BY <2>9, HasGatheredKeeps
  <2>10. ASSUME NEW i \in todo[c], Explores(c, i) \/ ExplorationFails(c, i) PROVE ThoughtsInv'
    <3>1. CASE Explores(c, i) BY <3>1, ExploresKeeps
    <3>2. CASE ExplorationFails(c, i) BY <3>2, ExplorationFailsKeeps
    <3> QED BY <2>10, <3>1, <3>2
  <2> QED BY <1>2, <2>1, <2>2, <2>3, <2>4, <2>5, <2>6, <2>7, <2>8, <2>9, <2>10
<1> QED BY <1>1, <1>2 DEF ThoughtsNext

(* The inductive invariant of the engine of thoughts. *)
THEOREM ThoughtsInvariant == ThoughtsSpec => []ThoughtsInv
BY ThoughtsInitInv, ThoughtsNextInv, PTL DEF ThoughtsSpec

(***************************************************************************)
(* AlgorithmOfThoughts.reason(), for any number of calls, parts, steps and *)
(* scores: a call that has the engine to itself answers with its own first *)
(* path with the best score, counts its valid paths and the steps of its   *)
(* exploration, and eliminates exactly the paths below the threshold.      *)
(***************************************************************************)
THEOREM ThoughtsBestPathWins == ThoughtsSpec => []BestPathWins
<1>1. ThoughtsInv => BestPathWins BY DEF ThoughtsInv
<1> QED BY <1>1, ThoughtsInvariant, PTL
=============================================================================
