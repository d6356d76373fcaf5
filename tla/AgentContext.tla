---------------------------- MODULE AgentContext ----------------------------
(* The archived context manager (legacy/core/context.py): shared values    *)
(* that may expire, and per agent its metrics with a history, its memory   *)
(* and its learning data.  Every operation holds the lock and              *)
(* awaits nothing under it, so each is one step.                           *)
EXTENDS BoundedLists, FiniteSetsExt

CONSTANTS SharedKeys, TTLs,        \* shared keys, times to live (0 for None)
          MaxHistoryPerAgent,      \* _max_history_per_agent
          MaxMemoryPerAgent,       \* _max_memory_per_agent
          MaxAge,                  \* older_than_days
          MaxTime, MaxEntries      \* bounds of the model

ASSUME ContextAssumption ==
  /\ TTLs \subseteq Nat /\ MaxAge \in Nat /\ MaxTime \in Nat
  /\ MaxHistoryPerAgent \in Nat /\ MaxMemoryPerAgent \in Nat

VARIABLES now,
          shared,    \* per key: the write that is stored, NoWrite for no value
          timers,    \* the _expire_context tasks that sleep
          deadline,  \* when the stored value was meant to go
          metrics,   \* the number of the agent's metrics, 0 for none
          ucfHistory, memory, learning,  \* [id, at] entries, oldest first
          entries    \* entries created so far

contextVars == <<now, shared, timers, deadline, metrics, ucfHistory, memory, learning, entries>>
sharedVars == <<shared, timers, deadline>>
agentVars == <<metrics, ucfHistory, memory, learning, entries>>

NoWrite == 0
Never == MaxTime + 1

ContextInit ==
  /\ now = 0
  /\ shared = [k \in SharedKeys |-> NoWrite]
  /\ timers = {}
  /\ deadline = [k \in SharedKeys |-> Never]
  /\ metrics = 0
  /\ ucfHistory = <<>> /\ memory = <<>> /\ learning = <<>>
  /\ entries = 0

-----------------------------------------------------------------------------
TimerForNewKey(k, ttl) ==            \* mutant: only a key that was absent gets a timer
  IF shared[k] = NoWrite /\ ttl > 0 THEN timers \cup {<<k, now + ttl>>} ELSE timers
(* A timer is started for a ttl; the timers of earlier values go on.       *)
TimersAfter(k, ttl) ==
  IF ttl > 0 THEN timers \cup {<<k, now + ttl>>} ELSE timers

SetShared(k, ttl) ==
  /\ entries < MaxEntries
  /\ entries' = entries + 1
  /\ shared' = [shared EXCEPT ![k] = entries']
  /\ timers' = TimersAfter(k, ttl)
  /\ deadline' = [deadline EXCEPT ![k] = IF ttl > 0 THEN now + ttl ELSE Never]
  /\ UNCHANGED <<now, metrics, ucfHistory, memory, learning>>

Dropped(k) == /\ shared' = [shared EXCEPT ![k] = NoWrite]
              /\ deadline' = [deadline EXCEPT ![k] = Never]

DeleteShared(k) ==
  /\ shared[k] # NoWrite
  /\ Dropped(k)
  /\ UNCHANGED <<now, timers>> /\ UNCHANGED agentVars

(* _expire_context deletes the key, whichever write it holds by now.       *)
ExpireContext(timer) ==
  /\ timer \in timers /\ timer[2] <= now
  /\ timers' = timers \ {timer}
  /\ Dropped(timer[1])
  /\ UNCHANGED now /\ UNCHANGED agentVars

(* Time passes; a sleep that is over is served before the next second.     *)
Tick ==
  /\ now < MaxTime
  /\ \A timer \in timers : timer[2] > now
  /\ now' = now + 1
  /\ UNCHANGED sharedVars /\ UNCHANGED agentVars

-----------------------------------------------------------------------------
Entry == [id |-> entries + 1, at |-> now]
CreatesEntry == entries < MaxEntries /\ entries' = entries + 1

(* The metrics that are replaced go to the history.                        *)
UpdateMetrics ==
  /\ CreatesEntry
  /\ metrics' = entries'
  /\ ucfHistory' = IF metrics = 0 THEN ucfHistory
                   ELSE LastOf(Append(ucfHistory, metrics), MaxHistoryPerAgent)
  /\ UNCHANGED <<now, memory, learning>> /\ UNCHANGED sharedVars

AddMemory ==
  /\ CreatesEntry
  /\ memory' = LastOf(Append(memory, Entry), MaxMemoryPerAgent)
  /\ UNCHANGED <<now, metrics, ucfHistory, learning>> /\ UNCHANGED sharedVars

ClearMemory ==
  /\ memory # <<>>
  /\ memory' = <<>>
  /\ UNCHANGED <<now, metrics, ucfHistory, learning, entries>> /\ UNCHANGED sharedVars

(* Learning data has no limit but its age.                                 *)
AddLearning ==
  /\ CreatesEntry
  /\ learning' = Append(learning, Entry)
  /\ UNCHANGED <<now, metrics, ucfHistory, memory>> /\ UNCHANGED sharedVars

(* The entries that are not too old: they are in the order of their age,   *)
(* so what stays is the end of the list.                                   *)
Young(seq) ==
  LET young == {i \in DOMAIN seq : seq[i].at > now - MaxAge}
  IN  IF young = {} THEN <<>> ELSE SubSeq(seq, Min(young), Len(seq))
Cleanup ==
  /\ memory' = Young(memory)
  /\ learning' = Young(learning)
  /\ UNCHANGED <<now, metrics, ucfHistory, entries>> /\ UNCHANGED sharedVars

ContextNext ==
  \/ \E k \in SharedKeys : DeleteShared(k) \/ \E ttl \in TTLs : SetShared(k, ttl)
  \/ \E timer \in timers : ExpireContext(timer)
  \/ Tick \/ UpdateMetrics \/ AddMemory \/ ClearMemory \/ AddLearning \/ Cleanup

ContextSpec == ContextInit /\ [][ContextNext]_contextVars

-----------------------------------------------------------------------------
Ids(seq) == [i \in 1..Len(seq) |-> seq[i].id]

(* A value never outlives its own time to live, whatever was written and   *)
(* deleted under its key before; and what is kept of an agent stays in the *)
(* order it was added, the metrics apart from their history, each list     *)
(* within its limit.                                                       *)
NothingStale ==
  /\ \A k \in SharedKeys : shared[k] # NoWrite => now <= deadline[k]
  /\ Increasing(Append(ucfHistory, IF metrics = 0 THEN 1 ELSE metrics))
  /\ Increasing(Ids(memory)) /\ Increasing(Ids(learning))
  /\ Len(ucfHistory) <= MaxHistoryPerAgent /\ Len(memory) <= MaxMemoryPerAgent
=============================================================================
