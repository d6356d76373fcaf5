----------------------------- MODULE MessageBus -----------------------------
(* The archived agent message bus (legacy/core/message_bus.py).  Every     *)
(* operation holds one asyncio.Lock, publish also while it awaits the      *)
(* handlers of the topic, so a handler that uses the bus waits for the     *)
(* lock its own publisher holds.                                           *)
EXTENDS BoundedLists

CONSTANTS Tasks, Topics, Handlers, Agents,
          Reentrant,    \* the handlers that may publish, subscribe or send
          MaxHistory,   \* _max_history
          MaxMessages,  \* bound on the messages created in a behaviour
          Nobody

ASSUME BusAssumption == MaxHistory \in Nat

VARIABLES lockQueue,   \* the owner of _bus_lock, then its waiters, in order
          op,          \* the operation each task is in
          subscribers, \* [Topics -> SUBSET Handlers]; {} for no entry
          queues,      \* direct messages not yet received, per agent
          history,
          created,     \* messages created so far, numbered in creation order
          handled,     \* the messages each handler was given
          received     \* the direct messages each agent received

busVars == <<lockQueue, op, subscribers, queues, history, created, handled, received>>

NoOperation == [kind |-> "idle", at |-> Nobody, who |-> Nobody, msg |-> 0, rest |-> {}]

BusInit ==
  /\ lockQueue = <<>>
  /\ op = [t \in Tasks |-> NoOperation]
  /\ subscribers = [p \in Topics |-> {}]
  /\ queues = [a \in Agents |-> <<>>]
  /\ history = <<>>
  /\ created = 0
  /\ handled = [h \in Handlers |-> <<>>]
  /\ received = [a \in Agents |-> <<>>]

CreatesMessage == {"publish", "send"}          \* broadcast publishes to its own topic

(* A task calls an operation and queues up for the lock.                   *)
Call(t, kind, at, who) ==
  /\ op[t].kind = "idle"
  /\ kind \in CreatesMessage => created < MaxMessages
  /\ created' = IF kind \in CreatesMessage THEN created + 1 ELSE created
  /\ op' = [op EXCEPT ![t] = [kind |-> kind, at |-> at, who |-> who,
                              msg |-> created', rest |-> {}]]
  /\ lockQueue' = Append(lockQueue, t)
  /\ UNCHANGED <<subscribers, queues, history, handled, received>>

Operations(t) ==
  \/ \E p \in Topics : Call(t, "publish", p, Nobody)
  \/ \E p \in Topics, h \in Handlers :
       Call(t, "subscribe", p, h) \/ Call(t, "unsubscribe", p, h)
  \/ \E a \in Agents : \/ Call(t, "send", Nobody, a)
                       \/ Call(t, "receive", Nobody, a)
                       \/ Call(t, "receive_nowait", Nobody, a)
                       \/ Call(t, "clear_queue", Nobody, a)
  \/ Call(t, "clear_history", Nobody, Nobody)

-----------------------------------------------------------------------------
Owns(t) == lockQueue # <<>> /\ Head(lockQueue) = t /\ op[t].kind # "publishing"

(* A task leaves the queue for the lock, in which it is once at most; only *)
(* a publisher that waits for itself is in it twice.                       *)
Without(queue, t) ==
  IF \A i \in DOMAIN queue : queue[i] # t THEN queue
  ELSE LET i == CHOOSE i \in DOMAIN queue : queue[i] = t
       IN  SubSeq(queue, 1, i - 1) \o SubSeq(queue, i + 1, Len(queue))

(* The operation returns and releases the lock.                            *)
Releases(t) == /\ lockQueue' = Tail(lockQueue)
               /\ op' = [op EXCEPT ![t] = NoOperation]

Added(m) == LastOf(Append(history, m), MaxHistory)     \* _add_to_history

(* publish: without subscribers the message is not even in the history.    *)
Unheard(t) ==
  /\ Owns(t) /\ op[t].kind = "publish" /\ subscribers[op[t].at] = {}
  /\ Releases(t)
  /\ UNCHANGED <<subscribers, queues, history, created, handled, received>>

LockReleasedFirst(t) == Tail(lockQueue)  \* mutant: the handlers are awaited without the lock
LockWhileHandling(t) == lockQueue

Publishes(t) ==
  /\ Owns(t) /\ op[t].kind = "publish" /\ subscribers[op[t].at] # {}
  /\ history' = Added(op[t].msg)
  /\ op' = [op EXCEPT ![t].kind = "publishing", ![t].rest = subscribers[op[t].at]]
  /\ lockQueue' = LockWhileHandling(t)
  /\ UNCHANGED <<subscribers, queues, created, handled, received>>

(* A handler is awaited, in the arbitrary order of a set; if it raises,    *)
(* the next one is.  After the last the lock is released.                  *)
Handles(t, h) ==
  /\ op[t].kind = "publishing" /\ h \in op[t].rest
  /\ handled' = [handled EXCEPT ![h] = Append(@, op[t].msg)]
  /\ IF op[t].rest = {h} THEN /\ lockQueue' = Without(lockQueue, t)
                              /\ op' = [op EXCEPT ![t] = NoOperation]
     ELSE /\ op' = [op EXCEPT ![t].rest = @ \ {h}]
          /\ UNCHANGED lockQueue
  /\ UNCHANGED <<subscribers, queues, history, created, received>>

(* A handler that uses the bus awaits the lock that its publisher holds.   *)
Reenters(t, h) ==
  /\ op[t].kind = "publishing" /\ h \in op[t].rest \cap Reentrant
  /\ handled' = [handled EXCEPT ![h] = Append(@, op[t].msg)]
  /\ op' = [op EXCEPT ![t].kind = "frozen"]
  /\ lockQueue' = Append(lockQueue, t)
  /\ UNCHANGED <<subscribers, queues, history, created, received>>

Subscription(t) ==
  /\ Owns(t) /\ op[t].kind \in {"subscribe", "unsubscribe"}
  /\ subscribers' = [subscribers EXCEPT ![op[t].at] =
                       IF op[t].kind = "subscribe" THEN @ \cup {op[t].who} ELSE @ \ {op[t].who}]
  /\ Releases(t)
  /\ UNCHANGED <<queues, history, created, handled, received>>

(* send_direct, to an agent that need not exist yet.                       *)
Sends(t) ==
  /\ Owns(t) /\ op[t].kind = "send"
  /\ queues' = [queues EXCEPT ![op[t].who] = Append(@, op[t].msg)]
  /\ history' = Added(op[t].msg)
  /\ Releases(t)
  /\ UNCHANGED <<subscribers, created, handled, received>>

Takes(t) ==
  LET a == op[t].who
  IN /\ Owns(t) /\ op[t].kind \in {"receive", "receive_nowait"} /\ queues[a] # <<>>
     /\ queues' = [queues EXCEPT ![a] = Tail(@)]
     /\ received' = [received EXCEPT ![a] = Append(@, Head(queues[a]))]
     /\ Releases(t)
     /\ UNCHANGED <<subscribers, history, created, handled>>

(* An empty queue: receive_nowait gives up, receive sleeps and looks again *)
(* until its timeout, if it has one other than zero.                       *)
FindsNothing(t) ==
  /\ Owns(t) /\ op[t].kind \in {"receive", "receive_nowait"} /\ queues[op[t].who] = <<>>
  /\ lockQueue' = Tail(lockQueue)
  /\ op' = [op EXCEPT ![t] = IF @.kind = "receive" THEN [@ EXCEPT !.kind = "polling"] ELSE NoOperation]
  /\ UNCHANGED <<subscribers, queues, history, created, handled, received>>

LooksAgain(t) ==
  /\ op[t].kind = "polling"
  /\ op' = [op EXCEPT ![t].kind = "receive"]
  /\ lockQueue' = Append(lockQueue, t)
  /\ UNCHANGED <<subscribers, queues, history, created, handled, received>>

TimesOut(t) ==
  /\ op[t].kind = "polling"
  /\ op' = [op EXCEPT ![t] = NoOperation]
  /\ UNCHANGED <<lockQueue, subscribers, queues, history, created, handled, received>>

Clears(t) ==
  /\ Owns(t)
  /\ \/ /\ op[t].kind = "clear_queue"
        /\ queues' = [queues EXCEPT ![op[t].who] = <<>>]
        /\ UNCHANGED history
     \/ /\ op[t].kind = "clear_history"
        /\ history' = <<>>
        /\ UNCHANGED queues
  /\ Releases(t)
  /\ UNCHANGED <<subscribers, created, handled, received>>

(* The task is cancelled: async with gives the lock back, wherever it is.  *)
Cancelled(t) ==
  /\ op[t].kind # "idle"
  /\ op' = [op EXCEPT ![t] = NoOperation]
  /\ lockQueue' = Without(Without(lockQueue, t), t)
  /\ UNCHANGED <<subscribers, queues, history, created, handled, received>>

BusNext == \E t \in Tasks :
             \/ Operations(t) \/ Unheard(t) \/ Publishes(t) \/ Subscription(t) \/ Sends(t)
             \/ Takes(t) \/ FindsNothing(t) \/ LooksAgain(t) \/ TimesOut(t)
             \/ Clears(t) \/ Cancelled(t)
             \/ \E h \in Handlers : Handles(t, h) \/ Reenters(t, h)

BusSpec == BusInit /\ [][BusNext]_busVars

-----------------------------------------------------------------------------
(* Concurrent callers are served in the order of their calls: no handler   *)
(* sees an older message after a newer one, or one twice; what an agent    *)
(* has received and still has to receive is in the order it was sent; and  *)
(* the history shows that order, at most MaxHistory entries of it.         *)
MessagesInOrder ==
  /\ \A h \in Handlers : Increasing(handled[h])
  /\ \A a \in Agents : Increasing(received[a] \o queues[a])
  /\ Increasing(history) /\ Len(history) <= MaxHistory
=============================================================================
