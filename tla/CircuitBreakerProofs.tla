-------------------------- MODULE CircuitBreakerProofs ----------------------
(***************************************************************************)
(* The safety of one breaker for every set of invocations, threshold,      *)
(* recovery interval and clock.                                            *)
(*                                                                         *)
(* ExactlyOneProbe and ChargedOnce are not inductive: they say nothing of  *)
(* where a permit can be and when it goes stale.  Inv adds exactly that:   *)
(* an invocation has at most one permit, permits never run ahead of the    *)
(* breaker's generation, and a permit of the breaker's own generation fits *)
(* its state, because every change of state begins a new generation.       *)
(***************************************************************************)
EXTENDS CircuitBreaker, BreakerOpsProofs, FiniteSetTheorems

(* The permit of the invocation i at the place w is of this generation. *)
Current(i, w) == held[i][w].generation = breaker.generation

(* Where permits can be. *)
PlacesInv ==
  /\ \A i \in Invocations : stage[i] = "new" =>
       \A w \in Places : held[i][w] = NoPermit
  /\ \A i \in Invocations, w \in Parties :
       doing[i][w] = "nothing" => held[i][w] = NoPermit
  /\ \A i \in Invocations, w, v \in Places :
       w = v \/ held[i][w] = NoPermit \/ held[i][v] = NoPermit

(* How far host and worker have come. *)
ProgressInv ==
  \A i \in Invocations :
    /\ doing[i]["worker"] # "nothing" <=> thread[i] = "recording"
    /\ stage[i] \in {"new", "admitted"} => thread[i] = "none"
    /\ stage[i] = "new" => doing[i]["host"] = "nothing"

(* Permits and the breaker's generation. *)
GenerationInv ==
  \A i \in Invocations, w \in Places :
    /\ held[i][w].generation <= breaker.generation
    /\ Current(i, w) =>
         breaker.state = (IF held[i][w].probe THEN "half_open" ELSE "closed")

(* The probe. *)
ProbeInv ==
  /\ breaker.state = "half_open" =>
       \E i \in Invocations, w \in Places : Current(i, w)
  /\ breaker.state = "half_open" =>
       \A i, j \in Invocations, w, v \in Places :
         Current(i, w) /\ Current(j, v) => i = j /\ w = v

(* The streak: who is charged has no permit left to be charged with again. *)
StreakInv ==
  /\ ChargedOnce
  /\ \A i \in charged : stage[i] # "new"
  /\ breaker.state = "closed" =>
       \A i \in charged, w \in Places : ~Current(i, w)

Inv == TypeOK /\ PlacesInv /\ ProgressInv /\ GenerationInv /\ ProbeInv /\ StreakInv
-----------------------------------------------------------------------------
(* The program's clock readings, and the names used below. *)
LEMMA Names ==
  /\ Clock \subseteq Nat
  /\ "attempt" \in Places /\ "host" \in Places /\ "worker" \in Places
  /\ Parties \subseteq Places /\ "attempt" \notin Parties
  /\ "host" \in Parties /\ "worker" \in Parties
  /\ NoPermit \in Permit /\ NoPermit.generation = -1
BY InvocationsAssumption DEF Clock, Places, Parties, NoPermit, Permit

(* No breaker ever has the generation of NoPermit. *)
LEMMA NoPermitIsStale ==
  ASSUME TypeOK, NEW i \in Invocations, NEW w \in Places, held[i][w] = NoPermit
  PROVE  ~Current(i, w) /\ ~PermitIsCurrent(breaker, held[i][w])
<1>1. breaker.generation \in Nat
  BY BreakerFields DEF TypeOK
<1> QED BY <1>1, Names DEF Current, PermitIsCurrent

(* Comparing generations is enough: the state adds nothing. *)
LEMMA CurrentIsGeneration ==
  ASSUME GenerationInv, NEW i \in Invocations, NEW w \in Places
  PROVE  PermitIsCurrent(breaker, held[i][w]) <=> Current(i, w)
BY DEF GenerationInv, Current, PermitIsCurrent

(* A new breaker with no calls. *)
LEMMA InitInv == Init => Inv
<1> SUFFICES ASSUME Init PROVE Inv
  OBVIOUS
<1>1. breaker \in Breaker /\ breaker.state = "closed" /\ breaker.failures = 0
      /\ breaker.generation = 0
  BY NewBreakerType DEF Init, NewBreaker
<1>2. TypeOK
  BY <1>1, Names DEF Init, TypeOK, Stages, Threads
<1>3. PlacesInv /\ ProgressInv
  BY DEF Init, PlacesInv, ProgressInv, Parties, Places
<1>4. GenerationInv /\ ProbeInv
  BY <1>1, Names DEF Init, GenerationInv, ProbeInv, Current
<1>5. StreakInv
  BY <1>1, FS_EmptySet, BreakerPolicyAssumption DEF Init, StreakInv, ChargedOnce
<1> QED BY <1>2, <1>3, <1>4, <1>5 DEF Inv
-----------------------------------------------------------------------------
(* A granted call gets the only permit that may be current. *)
LEMMA AcquireGrantedInv ==
  ASSUME Inv, NEW i \in Invocations, NEW now \in Clock, AcquireGranted(i, now)
  PROVE  Inv'
<1> DEFINE g == Granted(breaker, now)
           opening == breaker.state = "open"
<1>1. now \in Nat /\ breaker \in Breaker /\ breaker' = Acquire(breaker, now)
  BY Names DEF Inv, TypeOK, AcquireGranted
<1>2. breaker.state = "closed" \/ (breaker.state = "open" /\ Elapsed(breaker, now))
  BY DEF AcquireGranted, Admits
<1>3. /\ breaker' \in Breaker /\ breaker'.failures = breaker.failures
      /\ opening => breaker'.state = "half_open"
                    /\ breaker'.generation = breaker.generation + 1
      /\ ~opening => breaker'.state = "closed"
                     /\ breaker'.generation = breaker.generation
      /\ g \in Permit /\ g.generation = breaker'.generation /\ g.probe = opening
  BY <1>1, <1>2, AcquireFacts
<1> HIDE DEF g
<1>4. held' = [held EXCEPT ![i]["attempt"] = g]
  BY DEF AcquireGranted, g
<1>5. \A j \in Invocations, w \in Places :
        held'[j][w] = IF j = i /\ w = "attempt" THEN g ELSE held[j][w]
  BY <1>4, Names DEF Inv, TypeOK
<1>6. /\ stage[i] = "new" /\ stage' = [stage EXCEPT ![i] = "admitted"]
      /\ UNCHANGED <<doing, thread, charged>>
      /\ \A w \in Places : held[i][w] = NoPermit
  BY DEF AcquireGranted, Inv, PlacesInv
<1>7. TypeOK'
  BY <1>3, <1>4, <1>6, Names DEF Inv, TypeOK, Stages
<1>8. PlacesInv'
  <2>1. \A j \in Invocations : stage'[j] = "new" => j # i /\ stage[j] = "new"
    BY <1>6 DEF Inv, TypeOK
  <2>2. \A j \in Invocations, w \in Places :
          stage'[j] = "new" => held'[j][w] = NoPermit
    BY <1>5, <2>1 DEF Inv, PlacesInv
  <2>3. \A j \in Invocations, w \in Parties :
          doing'[j][w] = "nothing" => held'[j][w] = NoPermit
    BY <1>5, <1>6, Names DEF Inv, PlacesInv
  <2>4. \A j \in Invocations, w, v \in Places :
          w = v \/ held'[j][w] = NoPermit \/ held'[j][v] = NoPermit
    BY <1>5, <1>6 DEF Inv, PlacesInv
  <2> QED BY <2>2, <2>3, <2>4 DEF PlacesInv
<1>9. ProgressInv'
  BY <1>6 DEF Inv, TypeOK, ProgressInv
<1>10. breaker.generation \in Nat /\ breaker'.generation \in Nat
  BY <1>1, <1>3, BreakerFields
<1>11. GenerationInv'
  <2> SUFFICES ASSUME NEW j \in Invocations, NEW w \in Places
               PROVE  /\ held'[j][w].generation <= breaker'.generation
                      /\ Current(j, w)' =>
                           breaker'.state = (IF held'[j][w].probe THEN "half_open"
                                                                  ELSE "closed")
    BY DEF GenerationInv
  <2>1. CASE j = i /\ w = "attempt"
    <3>1. held'[j][w] = g
      BY <1>5, <2>1
    <3>2. g.generation <= breaker'.generation
      BY <1>3, <1>10
    <3>3. breaker'.state = (IF g.probe THEN "half_open" ELSE "closed")
      BY <1>3
    <3> QED BY <3>1, <3>2, <3>3
  <2>2. CASE ~(j = i /\ w = "attempt")
    <3>1. held'[j][w] = held[j][w] /\ held[j][w].generation \in Int
      BY <1>5, <2>2 DEF Inv, TypeOK, Permit
    <3>2. held[j][w].generation <= breaker.generation
          /\ (Current(j, w) => breaker.state = (IF held[j][w].probe THEN "half_open"
                                                                    ELSE "closed"))
      BY DEF Inv, GenerationInv
    <3> QED BY <1>3, <1>2, <1>10, <3>1, <3>2 DEF Current
  <2> QED BY <2>1, <2>2
<1>12. ProbeInv'
  <2>1. CASE opening
    <3>1. Current(i, "attempt")'
      BY <1>3, <1>5, Names DEF Current
    <3>2. ASSUME NEW j \in Invocations, NEW w \in Places, Current(j, w)'
          PROVE  j = i /\ w = "attempt"
      <4> SUFFICES ASSUME ~(j = i /\ w = "attempt") PROVE FALSE
        OBVIOUS
      <4>1. held'[j][w] = held[j][w] /\ held[j][w].generation \in Int
        BY <1>5 DEF Inv, TypeOK, Permit
      <4>2. held[j][w].generation <= breaker.generation
        BY DEF Inv, GenerationInv
      <4> QED BY <1>3, <1>10, <2>1, <3>2, <4>1, <4>2 DEF Current
    <3> QED BY <3>1, <3>2, Names DEF ProbeInv
  <2>2. CASE ~opening
    BY <1>3, <2>2 DEF ProbeInv
  <2> QED BY <2>1, <2>2
<1>13. StreakInv'
  <2>1. breaker'.state = "closed" => breaker.state = "closed"
        /\ breaker'.generation = breaker.generation
    BY <1>2, <1>3
  <2>2. ChargedOnce'
    BY <1>2, <1>3, <1>6, <2>1 DEF Inv, StreakInv, ChargedOnce
  <2>3. i \notin charged
    BY <1>6 DEF Inv, StreakInv
  <2>4. \A j \in charged' : stage'[j] # "new"
    BY <1>6 DEF Inv, TypeOK, StreakInv
  <2>5. breaker'.state = "closed" => \A j \in charged', w \in Places : ~Current(j, w)'
    <3> SUFFICES ASSUME breaker'.state = "closed",
                        NEW j \in charged, NEW w \in Places
                 PROVE  ~Current(j, w)'
      BY <1>6
    <3>1. j \in Invocations /\ j # i
      BY <2>3 DEF Inv, TypeOK
    <3>2. held'[j][w] = held[j][w]
      BY <1>5, <3>1
    <3>3. ~Current(j, w)
      BY <2>1 DEF Inv, StreakInv
    <3> QED BY <2>1, <3>2, <3>3 DEF Current
  <2> QED BY <2>2, <2>4, <2>5 DEF StreakInv
<1> QED BY <1>7, <1>8, <1>9, <1>11, <1>12, <1>13 DEF Inv
-----------------------------------------------------------------------------
(* A step that shows the breaker the time, and moves no permit, keeps the  *)
(* parts of Inv that speak of permits and of the streak.                   *)
LEMMA ObservingKeeps ==
  ASSUME Inv, NEW now \in Clock, breaker' = Observe(breaker, now),
         UNCHANGED <<held, charged>>
  PROVE  /\ breaker' \in Breaker
         /\ GenerationInv' /\ ProbeInv' /\ ChargedOnce'
         /\ breaker'.state = "closed" =>
              \A i \in charged', w \in Places : ~Current(i, w)'
<1>1. /\ breaker' \in Breaker
      /\ breaker'.state = breaker.state /\ breaker'.failures = breaker.failures
      /\ breaker'.generation = breaker.generation
  BY ObserveFacts, Names DEF Inv, TypeOK
<1>2. \A i, w : Current(i, w)' <=> Current(i, w)
  BY <1>1 DEF Current
<1>3. GenerationInv'
  BY <1>1, <1>2 DEF Inv, GenerationInv
<1>4. ProbeInv'
  BY <1>1, <1>2 DEF Inv, ProbeInv
<1>5. ChargedOnce'
  BY <1>1 DEF Inv, StreakInv, ChargedOnce
<1> QED BY <1>1, <1>2, <1>3, <1>4, <1>5 DEF Inv, StreakInv

(* A refused call stays new; only the breaker's time moves. *)
LEMMA AcquireRefusedInv ==
  ASSUME Inv, NEW i \in Invocations, NEW now \in Clock, AcquireRefused(i, now)
  PROVE  Inv'
<1>1. /\ breaker' = Observe(breaker, now)
      /\ stage' = [stage EXCEPT ![i] = "settled"]
      /\ UNCHANGED <<held, doing, thread, charged>>
  BY DEF AcquireRefused
<1>2. /\ breaker' \in Breaker /\ GenerationInv' /\ ProbeInv' /\ ChargedOnce'
      /\ breaker'.state = "closed" =>
           \A j \in charged', w \in Places : ~Current(j, w)'
  BY <1>1, ObservingKeeps
<1>3. TypeOK' /\ PlacesInv' /\ ProgressInv'
  BY <1>1, <1>2 DEF Inv, TypeOK, PlacesInv, ProgressInv, Stages
<1>4. \A j \in charged' : stage'[j] # "new"
  BY <1>1 DEF Inv, TypeOK, StreakInv
<1> QED BY <1>2, <1>3, <1>4 DEF Inv, StreakInv

(* Validation hands the attempt's permit to the execution, or drops it when stale. *)
LEMMA ValidateInv ==
  ASSUME Inv, NEW i \in Invocations, NEW now \in Clock, Validate(i, now)
  PROVE  Inv'
<1>1. /\ breaker' = Observe(breaker, now)
      /\ stage[i] = "admitted"
      /\ \E s \in {"executing", "refused"} : stage' = [stage EXCEPT ![i] = s]
      /\ \E t \in {"none", "running"} : thread' = [thread EXCEPT ![i] = t]
      /\ UNCHANGED <<held, doing, charged>>
  <2>1. thread[i] = "none"
    BY DEF Validate, Inv, ProgressInv
  <2>2. thread = [thread EXCEPT ![i] = "none"]
    BY <2>1 DEF Inv, TypeOK
  <2> QED BY <2>2 DEF Validate
<1>2. /\ breaker' \in Breaker /\ GenerationInv' /\ ProbeInv' /\ ChargedOnce'
      /\ breaker'.state = "closed" =>
           \A j \in charged', w \in Places : ~Current(j, w)'
  BY <1>1, ObservingKeeps
<1>3. doing[i]["worker"] = "nothing"
  BY <1>1, Names DEF Inv, ProgressInv
<1>4. TypeOK'
  BY <1>1, <1>2 DEF Inv, TypeOK, Stages, Threads
<1>5. PlacesInv' /\ ProgressInv'
  BY <1>1, <1>3 DEF Inv, TypeOK, PlacesInv, ProgressInv
<1>6. \A j \in charged' : stage'[j] # "new"
  BY <1>1 DEF Inv, TypeOK, StreakInv
<1> QED BY <1>2, <1>4, <1>5, <1>6 DEF Inv, StreakInv

(* A reset begins a generation of which no permit exists yet. *)
LEMMA ResetInv ==
  ASSUME Inv, NEW now \in Clock, ResetCircuit(now)
  PROVE  Inv'
<1>1. /\ breaker' \in Breaker /\ breaker'.state = "closed" /\ breaker'.failures = 0
      /\ breaker'.generation = breaker.generation + 1
      /\ breaker.generation \in Nat
  BY ResetFacts, Names, BreakerFields DEF Inv, TypeOK, ResetCircuit
<1>2. charged' = {} /\ UNCHANGED <<held, doing, stage, thread>>
  BY DEF ResetCircuit
<1>3. \A j \in Invocations, w \in Places :
        held'[j][w].generation < breaker'.generation /\ ~Current(j, w)'
  <2> SUFFICES ASSUME NEW j \in Invocations, NEW w \in Places
               PROVE  held[j][w].generation < breaker'.generation
    BY <1>2, <1>1 DEF Current, Inv, TypeOK, Permit
  <2>1. held[j][w].generation \in Int /\ held[j][w].generation <= breaker.generation
    BY DEF Inv, TypeOK, GenerationInv, Permit
  <2> QED BY <1>1, <2>1
<1>4. TypeOK' /\ PlacesInv' /\ ProgressInv'
  BY <1>1, <1>2 DEF Inv, TypeOK, PlacesInv, ProgressInv
<1>5. GenerationInv'
  BY <1>1, <1>2, <1>3 DEF GenerationInv, Inv, TypeOK, Permit
<1>6. ProbeInv'
  BY <1>1 DEF ProbeInv
<1>7. StreakInv'
  BY <1>1, <1>2, FS_EmptySet, BreakerPolicyAssumption DEF StreakInv, ChargedOnce
<1> QED BY <1>4, <1>5, <1>6, <1>7 DEF Inv
-----------------------------------------------------------------------------
(***************************************************************************)
(* Taking the permit moves it from the attempt to a party: it is neither   *)
(* lost nor doubled, because that party held none.                         *)
(***************************************************************************)
LEMMA TakeKeeps ==
  ASSUME Inv, NEW i \in Invocations, NEW w \in Parties, NEW outcome \in Outcomes,
         Take(i, w, outcome), doing[i][w] = "nothing", stage[i] # "new",
         UNCHANGED <<breaker, charged>>
  PROVE  /\ held' \in [Invocations -> [Places -> Permit]]
         /\ doing' \in [Invocations -> [Parties -> Outcomes \cup {"nothing"}]]
         /\ \A j \in Invocations : j # i =>
              \A v \in Places : held'[j][v] = held[j][v]
         /\ \A j \in Invocations, v \in Parties :
              doing'[j][v] = IF j = i /\ v = w THEN outcome ELSE doing[j][v]
         /\ \A j \in Invocations, v \in Parties :
              doing'[j][v] = "nothing" => held'[j][v] = NoPermit
         /\ \A j \in Invocations, u, v \in Places :
              u = v \/ held'[j][u] = NoPermit \/ held'[j][v] = NoPermit
         /\ GenerationInv' /\ ProbeInv' /\ ChargedOnce'
         /\ breaker'.state = "closed" =>
              \A j \in charged', v \in Places : ~Current(j, v)'
         /\ \A j \in Invocations, v \in Places :
              Current(j, v) => \E u \in Places : Current(j, u)'
<1>1. w \in Places /\ w # "attempt" /\ held[i][w] = NoPermit
  BY Names DEF Inv, PlacesInv
<1>2. /\ held' = [held EXCEPT ![i] = [held[i] EXCEPT !["attempt"] = NoPermit,
                                                     ![w] = held[i]["attempt"]]]
      /\ doing' = [doing EXCEPT ![i][w] = outcome]
  BY DEF Take
<1>3. \A v \in Places :
        held'[i][v] = IF v = w THEN held[i]["attempt"]
                      ELSE IF v = "attempt" THEN NoPermit ELSE held[i][v]
  BY <1>1, <1>2 DEF Inv, TypeOK
<1>4. \A j \in Invocations : j # i => \A v \in Places : held'[j][v] = held[j][v]
  BY <1>2 DEF Inv, TypeOK
<1>5. /\ held' \in [Invocations -> [Places -> Permit]]
      /\ doing' \in [Invocations -> [Parties -> Outcomes \cup {"nothing"}]]
  BY <1>2, <1>1, Names DEF Inv, TypeOK
<1>6. \A j \in Invocations, v \in Parties :
        doing'[j][v] = IF j = i /\ v = w THEN outcome ELSE doing[j][v]
  BY <1>2 DEF Inv, TypeOK
<1>7. \A j \in Invocations, v \in Parties :
        doing'[j][v] = "nothing" => held'[j][v] = NoPermit
  BY <1>3, <1>4, <1>6, Names DEF Inv, PlacesInv, Outcomes
<1>8. \A j \in Invocations, u, v \in Places :
        u = v \/ held'[j][u] = NoPermit \/ held'[j][v] = NoPermit
  BY <1>1, <1>3, <1>4, Names DEF Inv, PlacesInv
<1>9. \A v \in Places : held'[i][v] = NoPermit
                        \/ (v = w /\ held'[i][v] = held[i]["attempt"])
                        \/ (v \notin {w, "attempt"} /\ held'[i][v] = held[i][v])
  BY <1>3
<1>10. breaker.generation \in Nat /\ breaker' = breaker /\ charged' = charged
  BY BreakerFields DEF Inv, TypeOK
<1>11. GenerationInv'
  <2> SUFFICES ASSUME NEW j \in Invocations, NEW v \in Places
               PROVE  /\ held'[j][v].generation <= breaker.generation
                      /\ held'[j][v].generation = breaker.generation =>
                           breaker.state = (IF held'[j][v].probe THEN "half_open"
                                                                 ELSE "closed")
    BY <1>10 DEF GenerationInv, Current
  <2>1. held'[j][v] = NoPermit \/ \E u \in Places : held'[j][v] = held[j][u]
    BY <1>4, <1>9, Names
  <2> QED BY <1>10, <2>1, Names DEF Inv, GenerationInv, Current
<1>12. \A v \in Places : Current(i, v)' =>
         \/ v = w /\ Current(i, "attempt")
         \/ v # w /\ v # "attempt" /\ Current(i, v)
  <2> SUFFICES ASSUME NEW v \in Places, Current(i, v)'
               PROVE  \/ v = w /\ Current(i, "attempt")
                      \/ v # w /\ v # "attempt" /\ Current(i, v)
    OBVIOUS
  <2>1. held'[i][v].generation = breaker.generation /\ held'[i][v] # NoPermit
    BY <1>10, Names DEF Current
  <2> QED BY <1>9, <2>1 DEF Current
<1>13. \A j \in Invocations, v \in Places :
         j # i => (Current(j, v)' <=> Current(j, v))
  BY <1>4, <1>10 DEF Current
<1>14. Current(i, "attempt") => Current(i, w)'
  BY <1>1, <1>3, <1>10 DEF Current
<1>15. \A v \in Places : Current(i, v) /\ v # "attempt" => Current(i, v)'
  BY <1>1, <1>3, <1>10, Names DEF Current
<1>16. ProbeInv'
  <2> SUFFICES ASSUME breaker.state = "half_open"
               PROVE  /\ \E j \in Invocations, v \in Places : Current(j, v)'
                      /\ \A j, k \in Invocations, u, v \in Places :
                           Current(j, u)' /\ Current(k, v)' => j = k /\ u = v
    BY <1>10 DEF ProbeInv
  <2>1. \E j \in Invocations, v \in Places : Current(j, v)
    BY DEF Inv, ProbeInv
  <2>2. \A j, k \in Invocations, u, v \in Places :
          Current(j, u) /\ Current(k, v) => j = k /\ u = v
    BY DEF Inv, ProbeInv
  <2>3. \E j \in Invocations, v \in Places : Current(j, v)'
    BY <1>1, <1>13, <1>14, <1>15, <2>1
  <2>4. \A j, k \in Invocations, u, v \in Places :
          Current(j, u)' /\ Current(k, v)' => j = k /\ u = v
    BY <1>1, <1>12, <1>13, <2>2, Names
  <2> QED BY <2>3, <2>4
<1>17. ChargedOnce'
  BY <1>10 DEF Inv, StreakInv, ChargedOnce
<1>18. breaker'.state = "closed" => \A j \in charged', v \in Places : ~Current(j, v)'
  <2> SUFFICES ASSUME breaker.state = "closed", NEW j \in charged, NEW v \in Places
               PROVE  ~Current(j, v)'
    BY <1>10
  <2>1. j \in Invocations /\ \A u \in Places : ~Current(j, u)
    BY DEF Inv, TypeOK, StreakInv
  <2> QED BY <1>12, <1>13, <2>1, Names
<1>19. \A j \in Invocations, v \in Places :
         Current(j, v) => \E u \in Places : Current(j, u)'
  BY <1>1, <1>13, <1>14, <1>15
<1> QED BY <1>4, <1>5, <1>6, <1>7, <1>8, <1>11, <1>16, <1>17, <1>18, <1>19

(* The host takes the attempt's permit to report with it. *)
LEMMA HostTakesInv ==
  ASSUME Inv, NEW i \in Invocations, HostTakes(i)
  PROVE  Inv'
<1>1. PICK outcome \in HostOutcomes(i) : Take(i, "host", outcome)
  BY DEF HostTakes
<1>2. outcome \in Outcomes /\ stage[i] # "new"
  BY <1>1 DEF HostOutcomes, Outcomes
<1>3. /\ doing[i]["host"] = "nothing"
      /\ stage' = [stage EXCEPT ![i] = "settled"]
      /\ UNCHANGED <<breaker, thread, charged>>
  BY DEF HostTakes, LoopFree
<1>4. /\ held' \in [Invocations -> [Places -> Permit]]
      /\ doing' \in [Invocations -> [Parties -> Outcomes \cup {"nothing"}]]
      /\ \A j \in Invocations : j # i =>
           \A v \in Places : held'[j][v] = held[j][v]
      /\ \A j \in Invocations, v \in Parties :
           doing'[j][v] = IF j = i /\ v = "host" THEN outcome ELSE doing[j][v]
      /\ \A j \in Invocations, v \in Parties :
           doing'[j][v] = "nothing" => held'[j][v] = NoPermit
      /\ \A j \in Invocations, u, v \in Places :
           u = v \/ held'[j][u] = NoPermit \/ held'[j][v] = NoPermit
      /\ GenerationInv' /\ ProbeInv' /\ ChargedOnce'
      /\ breaker'.state = "closed" =>
           \A j \in charged', v \in Places : ~Current(j, v)'
  <2>1. "host" \in Parties
    BY Names
  <2> QED BY <1>1, <1>2, <1>3, <2>1, TakeKeeps
<1>5. \A j \in Invocations : stage'[j] = "new" => j # i /\ stage[j] = "new"
  BY <1>3 DEF Inv, TypeOK
<1>6. TypeOK'
  BY <1>3, <1>4 DEF Inv, TypeOK, Stages
<1>7. PlacesInv'
  <2>1. \A j \in Invocations : stage'[j] = "new" =>
          \A v \in Places : held'[j][v] = NoPermit
    BY <1>4, <1>5 DEF Inv, PlacesInv
  <2> QED BY <1>4, <2>1 DEF PlacesInv
<1>8. ProgressInv'
  BY <1>3, <1>4, <1>5, Names DEF Inv, TypeOK, ProgressInv
<1>9. \A j \in charged' : stage'[j] # "new"
  BY <1>3, <1>5 DEF Inv, TypeOK, StreakInv
<1> QED BY <1>4, <1>6, <1>7, <1>8, <1>9 DEF Inv, StreakInv

(* The host escapes and leaves every permit where it is. *)
LEMMA HostEscapesInv ==
  ASSUME Inv, NEW i \in Invocations, HostEscapes(i)
  PROVE  Inv'
<1>1. /\ stage[i] \in {"refused", "executing"}
      /\ UNCHANGED <<breaker, held, doing, thread, charged>>
      /\ \A j \in Invocations : stage'[j] = IF j = i THEN "escaped" ELSE stage[j]
  BY DEF HostEscapes, Inv, TypeOK
<1>2. TypeOK'
  BY <1>1 DEF HostEscapes, Inv, TypeOK, Stages
<1>3. PlacesInv' /\ ProgressInv'
  BY <1>1 DEF Inv, PlacesInv, ProgressInv
<1>4. GenerationInv' /\ ProbeInv' /\ StreakInv'
  <2>1. \A j \in charged' : stage'[j] # "new"
    BY <1>1 DEF Inv, TypeOK, StreakInv
  <2> QED BY <1>1, <2>1 DEF Inv, GenerationInv, ProbeInv, StreakInv, ChargedOnce, Current
<1> QED BY <1>2, <1>3, <1>4 DEF Inv

(* The function's thread takes the attempt's permit to report with it. *)
LEMMA WorkerTakesInv ==
  ASSUME Inv, NEW i \in Invocations, WorkerTakes(i)
  PROVE  Inv'
<1>1. PICK outcome \in Outcomes : Take(i, "worker", outcome)
  BY DEF WorkerTakes
<1>2. /\ thread[i] = "running"
      /\ thread' = [thread EXCEPT ![i] = "recording"]
      /\ UNCHANGED <<breaker, stage, charged>>
  BY DEF WorkerTakes
<1>3. doing[i]["worker"] = "nothing" /\ stage[i] \notin {"new", "admitted"}
  BY <1>2, Names DEF Inv, TypeOK, ProgressInv
<1>4. /\ held' \in [Invocations -> [Places -> Permit]]
      /\ doing' \in [Invocations -> [Parties -> Outcomes \cup {"nothing"}]]
      /\ \A j \in Invocations : j # i =>
           \A v \in Places : held'[j][v] = held[j][v]
      /\ \A j \in Invocations, v \in Parties :
           doing'[j][v] = IF j = i /\ v = "worker" THEN outcome ELSE doing[j][v]
      /\ \A j \in Invocations, v \in Parties :
           doing'[j][v] = "nothing" => held'[j][v] = NoPermit
      /\ \A j \in Invocations, u, v \in Places :
           u = v \/ held'[j][u] = NoPermit \/ held'[j][v] = NoPermit
      /\ GenerationInv' /\ ProbeInv' /\ ChargedOnce'
      /\ breaker'.state = "closed" =>
           \A j \in charged', v \in Places : ~Current(j, v)'
  <2>1. "worker" \in Parties
    BY Names
  <2> QED BY <1>1, <1>2, <1>3, <2>1, TakeKeeps
<1>5. TypeOK'
  BY <1>2, <1>4 DEF Inv, TypeOK, Threads
<1>6. PlacesInv'
  <2>1. \A j \in Invocations : stage'[j] = "new" => j # i /\ stage[j] = "new"
    BY <1>2, <1>3
  <2>2. \A j \in Invocations : stage'[j] = "new" =>
          \A v \in Places : held'[j][v] = NoPermit
    BY <1>4, <2>1 DEF Inv, PlacesInv
  <2> QED BY <1>4, <2>2 DEF PlacesInv
<1>7. ProgressInv'
  <2>1. outcome # "nothing"
    BY DEF Outcomes
  <2>2. \A j \in Invocations :
          thread'[j] = IF j = i THEN "recording" ELSE thread[j]
    BY <1>2 DEF Inv, TypeOK
  <2>3. \A j \in Invocations : doing'[j]["host"] = doing[j]["host"]
    BY <1>4, Names
  <2>4. \A j \in Invocations :
          doing'[j]["worker"] = IF j = i THEN outcome ELSE doing[j]["worker"]
    BY <1>4, Names
  <2> QED BY <1>2, <1>3, <2>1, <2>2, <2>3, <2>4 DEF Inv, ProgressInv
<1>8. \A j \in charged' : stage'[j] # "new"
  BY <1>2 DEF Inv, StreakInv
<1> QED BY <1>4, <1>5, <1>6, <1>7, <1>8 DEF Inv, StreakInv
-----------------------------------------------------------------------------
(***************************************************************************)
(* Reporting an outcome: either the breaker keeps its state and generation *)
(* and the reported permit was no probe, or it begins a new generation,    *)
(* closed or open, in which nobody holds a permit yet.                     *)
(***************************************************************************)
LEMMA ReportKeeps ==
  ASSUME Inv, NEW i \in Invocations, NEW w \in Parties, NEW now \in Clock,
         Report(i, w, now), stage[i] # "new"
  PROVE  /\ breaker' \in Breaker
         /\ held' \in [Invocations -> [Places -> Permit]]
         /\ doing' \in [Invocations -> [Parties -> Outcomes \cup {"nothing"}]]
         /\ charged' \subseteq charged \cup {i}
         /\ \A j \in Invocations, v \in Parties :
              doing'[j][v] = IF j = i /\ v = w THEN "nothing" ELSE doing[j][v]
         /\ \A j \in Invocations, v \in Places :
              held'[j][v] = IF j = i /\ v = w THEN NoPermit ELSE held[j][v]
         /\ GenerationInv' /\ ProbeInv' /\ ChargedOnce'
         /\ breaker'.state = "closed" =>
              \A j \in charged', v \in Places : ~Current(j, v)'
         /\ \/ /\ breaker'.state = breaker.state
               /\ breaker.state = "half_open" =>
                    \A j \in Invocations, v \in Places : Current(j, v) => Current(j, v)'
            \/ /\ breaker.state = "closed" /\ breaker'.state = "open"
            \/ /\ breaker.state = "half_open" /\ breaker'.state \in {"closed", "open"}
<1> DEFINE p == held[i][w]
           outcome == doing[i][w]
           current == PermitIsCurrent(breaker, p)
<1>1. /\ w \in Places /\ p \in Permit /\ outcome \in Outcomes /\ now \in Nat
      /\ breaker \in Breaker /\ breaker.generation \in Nat /\ breaker.failures \in Nat
      /\ charged \subseteq Invocations /\ IsFiniteSet(charged)
  BY Names, BreakerFields, InvocationsAssumption, FS_Subset DEF Inv, TypeOK, Report
<1>2. /\ breaker' = Settle(breaker, p, outcome, now)
      /\ charged' = Streak(i, p, outcome)
      /\ held' = [held EXCEPT ![i][w] = NoPermit]
      /\ doing' = [doing EXCEPT ![i][w] = "nothing"]
  BY DEF Report
<1>3. /\ held' \in [Invocations -> [Places -> Permit]]
      /\ doing' \in [Invocations -> [Parties -> Outcomes \cup {"nothing"}]]
      /\ \A j \in Invocations, v \in Parties :
           doing'[j][v] = IF j = i /\ v = w THEN "nothing" ELSE doing[j][v]
      /\ \A j \in Invocations, v \in Places :
           held'[j][v] = IF j = i /\ v = w THEN NoPermit ELSE held[j][v]
  BY <1>1, <1>2, Names DEF Inv, TypeOK
<1>4. /\ breaker' \in Breaker
      /\ ~current => breaker' = [breaker EXCEPT !.lastObserved = breaker'.lastObserved]
      /\ current /\ outcome = "succeed" /\ ~p.probe =>
           /\ breaker'.state = "closed" /\ breaker'.generation = breaker.generation
           /\ breaker'.failures = 0
      /\ current /\ outcome = "succeed" /\ p.probe =>
           /\ breaker'.state = "closed" /\ breaker'.failures = 0
           /\ breaker'.generation = breaker.generation + 1
      /\ current /\ outcome = "fail" =>
           /\ breaker'.failures = breaker.failures + (IF p.probe THEN 0 ELSE 1)
           /\ Trips(breaker, p) => /\ breaker'.state = "open"
                                   /\ breaker'.generation = breaker.generation + 1
           /\ ~Trips(breaker, p) => /\ breaker'.state = breaker.state
                                    /\ breaker'.generation = breaker.generation
      /\ current /\ outcome = "abandon" /\ ~p.probe =>
           breaker' = [breaker EXCEPT !.lastObserved = breaker'.lastObserved]
      /\ current /\ outcome = "abandon" /\ p.probe =>
           /\ breaker'.state = "open" /\ breaker'.failures = breaker.failures
           /\ breaker'.generation = breaker.generation + 1
  BY <1>1, <1>2, SettleFacts
<1>5. breaker' = [breaker EXCEPT !.lastObserved = breaker'.lastObserved] =>
        /\ breaker'.state = breaker.state /\ breaker'.failures = breaker.failures
        /\ breaker'.generation = breaker.generation
  BY <1>1 DEF Breaker
<1>6. /\ ~current => charged' = charged
      /\ current /\ outcome = "succeed" => charged' = {}
      /\ current /\ outcome = "fail" => charged' = charged \cup {i}
      /\ current /\ outcome = "abandon" => charged' = charged
  BY <1>2 DEF Streak
<1>7. /\ current <=> Current(i, w)
      /\ current => breaker.state = (IF p.probe THEN "half_open" ELSE "closed")
  BY <1>1, CurrentIsGeneration DEF Inv, PermitIsCurrent
<1>8. current /\ p.probe => Trips(breaker, p)
  BY DEF Trips
<1> HIDE DEF p, outcome, current
<1>9. \/ /\ breaker'.generation = breaker.generation
         /\ breaker'.state = breaker.state
         /\ current => ~p.probe
      \/ /\ breaker'.generation = breaker.generation + 1
         /\ breaker'.state # "half_open"
  <2>1. CASE ~current
    BY <1>4, <1>5, <2>1
  <2>2. CASE current /\ outcome = "succeed"
    BY <1>4, <1>7, <2>2
  <2>3. CASE current /\ outcome = "fail"
    BY <1>4, <1>8, <2>3
  <2>4. CASE current /\ outcome = "abandon"
    BY <1>4, <1>5, <2>4
  <2> QED BY <1>1, <2>1, <2>2, <2>3, <2>4 DEF Outcomes
<1>10. \A j \in Invocations, v \in Places :
         /\ held'[j][v].generation \in Int
         /\ held'[j][v].generation <= breaker.generation
  <2> SUFFICES ASSUME NEW j \in Invocations, NEW v \in Places
               PROVE  /\ held'[j][v].generation \in Int
                      /\ held'[j][v].generation <= breaker.generation
    OBVIOUS
  <2>1. held'[j][v] = NoPermit \/ held'[j][v] = held[j][v]
    BY <1>3
  <2>2. held[j][v].generation \in Int /\ held[j][v].generation <= breaker.generation
    BY DEF Inv, TypeOK, GenerationInv, Permit
  <2> QED BY <1>1, <2>1, <2>2, Names
<1>11. breaker'.generation = breaker.generation + 1 =>
         \A j \in Invocations, v \in Places : ~Current(j, v)'
  BY <1>1, <1>10 DEF Current
<1>12. breaker'.generation = breaker.generation =>
         \A j \in Invocations, v \in Places :
           Current(j, v)' <=> Current(j, v) /\ ~(j = i /\ v = w)
  <2> SUFFICES ASSUME breaker'.generation = breaker.generation,
                      NEW j \in Invocations, NEW v \in Places
               PROVE  Current(j, v)' <=> Current(j, v) /\ ~(j = i /\ v = w)
    OBVIOUS
  <2>1. CASE j = i /\ v = w
    BY <1>1, <1>3, <2>1, Names DEF Current
  <2>2. CASE ~(j = i /\ v = w)
    BY <1>3, <2>2 DEF Current
  <2> QED BY <2>1, <2>2
<1>13. GenerationInv'
  <2> SUFFICES ASSUME NEW j \in Invocations, NEW v \in Places
               PROVE  /\ held'[j][v].generation <= breaker'.generation
                      /\ Current(j, v)' =>
                           breaker'.state = (IF held'[j][v].probe THEN "half_open"
                                                                  ELSE "closed")
    BY DEF GenerationInv
  <2>1. CASE breaker'.generation = breaker.generation /\ breaker'.state = breaker.state
    BY <1>3, <1>10, <1>12, <2>1 DEF Inv, GenerationInv
  <2>2. CASE breaker'.generation = breaker.generation + 1
    BY <1>1, <1>10, <1>11, <2>2
  <2> QED BY <1>9, <2>1, <2>2
<1>14. ProbeInv'
  <2>1. CASE breaker'.state # "half_open"
    BY <2>1 DEF ProbeInv
  <2>2. CASE breaker'.state = "half_open"
    <3>1. /\ breaker'.generation = breaker.generation
          /\ breaker.state = "half_open" /\ (current => ~p.probe)
      BY <1>9, <2>2
    <3>2. ~Current(i, w)
      BY <1>7, <3>1
    <3>3. \A j \in Invocations, v \in Places : Current(j, v)' <=> Current(j, v)
      BY <1>12, <3>1, <3>2
    <3> QED BY <3>1, <3>3 DEF Inv, ProbeInv
  <2> QED BY <2>1, <2>2
<1>15. current /\ breaker.state = "closed" => i \notin charged
  BY <1>1, <1>7 DEF Inv, StreakInv
<1>16. ChargedOnce'
  <2>1. /\ breaker.state = "closed" => breaker.failures = Cardinality(charged)
        /\ breaker.state = "closed" <=> breaker.failures < FailureThreshold
    BY DEF Inv, StreakInv, ChargedOnce
  <2>2. CASE ~current \/ (current /\ outcome = "abandon" /\ ~p.probe)
    BY <1>4, <1>5, <1>6, <2>1, <2>2 DEF ChargedOnce
  <2>3. CASE current /\ outcome = "succeed"
    BY <1>4, <1>6, <2>3, FS_EmptySet, BreakerPolicyAssumption DEF ChargedOnce
  <2>4. CASE current /\ outcome = "abandon" /\ p.probe
    BY <1>4, <1>7, <2>1, <2>4 DEF ChargedOnce
  <2>5. CASE current /\ outcome = "fail" /\ p.probe
    BY <1>1, <1>4, <1>7, <1>8, <2>1, <2>5 DEF ChargedOnce
  <2>6. CASE current /\ outcome = "fail" /\ ~p.probe
    <3>1. /\ breaker.state = "closed" /\ breaker'.failures = breaker.failures + 1
          /\ charged' = charged \cup {i}
      BY <1>4, <1>6, <1>7, <2>6
    <3>2. Cardinality(charged') = Cardinality(charged) + 1
      BY <1>1, <1>15, <2>6, <3>1, FS_AddElement
    <3>3. Trips(breaker, p) <=> breaker.failures + 1 >= FailureThreshold
      BY <2>6 DEF Trips, current
    <3> QED BY <1>1, <1>4, <2>1, <2>6, <3>1, <3>2, <3>3, BreakerPolicyAssumption
            DEF ChargedOnce
  <2> QED BY <1>1, <2>2, <2>3, <2>4, <2>5, <2>6 DEF Outcomes
<1>17. charged' \subseteq charged \cup {i}
  BY <1>1, <1>6 DEF Outcomes
<1>18. breaker'.state = "closed" => \A j \in charged', v \in Places : ~Current(j, v)'
  <2> SUFFICES ASSUME breaker'.state = "closed", NEW j \in charged', NEW v \in Places
               PROVE  ~Current(j, v)'
    OBVIOUS
  <2>1. j \in Invocations
    BY <1>1, <1>17
  <2>2. CASE breaker'.generation = breaker.generation + 1
    BY <1>11, <2>1, <2>2
  <2>3. CASE breaker'.generation = breaker.generation /\ breaker.state = "closed"
    <3>1. CASE j \in charged
      <4>1. ~Current(j, v)
        BY <2>3, <3>1 DEF Inv, StreakInv
      <4> QED BY <1>12, <2>1, <2>3, <4>1
    <3>2. CASE j \notin charged
      <4>1. j = i /\ current
        BY <1>1, <1>6, <1>17, <3>2 DEF Outcomes
      <4>2. held[i][w] # NoPermit
        BY <1>1, <1>7, <4>1, NoPermitIsStale DEF Inv
      <4>3. v = w \/ held[i][v] = NoPermit
        BY <1>1, <4>2 DEF Inv, PlacesInv
      <4>4. v = w \/ ~Current(i, v)
        BY <4>3, NoPermitIsStale DEF Inv
      <4> QED BY <1>12, <2>3, <4>1, <4>4
    <3> QED BY <3>1, <3>2
  <2> QED BY <1>9, <2>2, <2>3
<1>19. \/ /\ breaker'.state = breaker.state
          /\ breaker.state = "half_open" =>
               \A j \in Invocations, v \in Places : Current(j, v) => Current(j, v)'
       \/ breaker.state = "closed" /\ breaker'.state = "open"
       \/ breaker.state = "half_open" /\ breaker'.state \in {"closed", "open"}
  <2>1. CASE current /\ p.probe
    BY <1>1, <1>4, <1>7, <1>8, <2>1 DEF Outcomes
  <2>2. CASE ~(current /\ p.probe)
    <3>1. \/ breaker'.state = breaker.state /\ breaker'.generation = breaker.generation
          \/ breaker.state = "closed" /\ breaker'.state = "open"
      BY <1>1, <1>4, <1>5, <1>7, <2>2 DEF Outcomes
    <3>2. breaker.state = "half_open" => ~Current(i, w)
      BY <1>7, <2>2
    <3> QED BY <1>12, <3>1, <3>2
  <2> QED BY <2>1, <2>2
<1> QED BY <1>3, <1>4, <1>13, <1>14, <1>16, <1>17, <1>18, <1>19

(* The host settles the permit it took. *)
LEMMA HostReportsInv ==
  ASSUME Inv, NEW i \in Invocations, HostReports(i)
  PROVE  Inv'
<1>1. PICK now \in Clock : Report(i, "host", now)
  BY DEF HostReports
<1>2. doing[i]["host"] # "nothing" /\ stage[i] # "new"
  BY <1>1 DEF Report, Inv, ProgressInv
<1>3. UNCHANGED <<stage, thread>>
  BY DEF HostReports
<1>4. /\ breaker' \in Breaker
      /\ held' \in [Invocations -> [Places -> Permit]]
      /\ doing' \in [Invocations -> [Parties -> Outcomes \cup {"nothing"}]]
      /\ charged' \subseteq charged \cup {i}
      /\ \A j \in Invocations, v \in Parties :
           doing'[j][v] = IF j = i /\ v = "host" THEN "nothing" ELSE doing[j][v]
      /\ \A j \in Invocations, v \in Places :
           held'[j][v] = IF j = i /\ v = "host" THEN NoPermit ELSE held[j][v]
      /\ GenerationInv' /\ ProbeInv' /\ ChargedOnce'
      /\ breaker'.state = "closed" =>
           \A j \in charged', v \in Places : ~Current(j, v)'
  <2>1. "host" \in Parties
    BY Names
  <2>2. doing[i]["host"] # "nothing" /\ stage[i] # "new"
    BY <1>2
  <2> QED BY <1>1, <2>1, <2>2, ReportKeeps
<1>5. TypeOK'
  BY <1>3, <1>4 DEF Inv, TypeOK
<1>6. PlacesInv'
  <2>1. \A j \in Invocations, v \in Places :
          held'[j][v] = NoPermit \/ held'[j][v] = held[j][v]
    BY <1>4
  <2>2. \A j \in Invocations, v \in Parties :
          doing'[j][v] = "nothing" => held'[j][v] = NoPermit
    BY <1>4, Names DEF Inv, PlacesInv
  <2> QED BY <1>3, <2>1, <2>2 DEF Inv, PlacesInv
<1>7. ProgressInv'
  BY <1>3, <1>4, Names DEF Inv, ProgressInv
<1>8. \A j \in charged' : stage'[j] # "new"
  BY <1>2, <1>3, <1>4 DEF Inv, StreakInv
<1> QED BY <1>4, <1>5, <1>6, <1>7, <1>8 DEF Inv, StreakInv

(* The thread settles the permit it took. *)
LEMMA WorkerReportsInv ==
  ASSUME Inv, NEW i \in Invocations, WorkerReports(i)
  PROVE  Inv'
<1>1. PICK now \in Clock : Report(i, "worker", now)
  BY DEF WorkerReports
<1>2. /\ doing[i]["worker"] # "nothing" /\ thread[i] = "recording"
      /\ stage[i] \notin {"new", "admitted"}
  BY <1>1 DEF Report, Inv, ProgressInv
<1>3. stage' = stage /\ thread' = [thread EXCEPT ![i] = "done"]
  BY DEF WorkerReports
<1>4. /\ breaker' \in Breaker
      /\ held' \in [Invocations -> [Places -> Permit]]
      /\ doing' \in [Invocations -> [Parties -> Outcomes \cup {"nothing"}]]
      /\ charged' \subseteq charged \cup {i}
      /\ \A j \in Invocations, v \in Parties :
           doing'[j][v] = IF j = i /\ v = "worker" THEN "nothing" ELSE doing[j][v]
      /\ \A j \in Invocations, v \in Places :
           held'[j][v] = IF j = i /\ v = "worker" THEN NoPermit ELSE held[j][v]
      /\ GenerationInv' /\ ProbeInv' /\ ChargedOnce'
      /\ breaker'.state = "closed" =>
           \A j \in charged', v \in Places : ~Current(j, v)'
  <2>1. "worker" \in Parties
    BY Names
  <2>2. doing[i]["worker"] # "nothing" /\ stage[i] # "new"
    BY <1>2
  <2> QED BY <1>1, <2>1, <2>2, ReportKeeps
<1>5. TypeOK'
  BY <1>3, <1>4 DEF Inv, TypeOK, Threads
<1>6. PlacesInv'
  <2>1. \A j \in Invocations, v \in Places :
          held'[j][v] = NoPermit \/ held'[j][v] = held[j][v]
    BY <1>4
  <2>2. \A j \in Invocations, v \in Parties :
          doing'[j][v] = "nothing" => held'[j][v] = NoPermit
    BY <1>4, Names DEF Inv, PlacesInv
  <2> QED BY <1>3, <2>1, <2>2 DEF Inv, PlacesInv
<1>7. ProgressInv'
  <2>1. \A j \in Invocations : thread'[j] = IF j = i THEN "done" ELSE thread[j]
    BY <1>3 DEF Inv, TypeOK
  <2>2. \A j \in Invocations : doing'[j]["host"] = doing[j]["host"]
    BY <1>4, Names
  <2>3. \A j \in Invocations :
          doing'[j]["worker"] = IF j = i THEN "nothing" ELSE doing[j]["worker"]
    BY <1>4, Names
  <2> QED BY <1>2, <1>3, <2>1, <2>2, <2>3 DEF Inv, ProgressInv
<1>8. \A j \in charged' : stage'[j] # "new"
  BY <1>2, <1>3, <1>4 DEF Inv, StreakInv
<1> QED BY <1>4, <1>5, <1>6, <1>7, <1>8 DEF Inv, StreakInv
-----------------------------------------------------------------------------
(* Inv is inductive. *)
LEMMA NextInv ==
  ASSUME Inv, [Next]_vars
  PROVE  Inv'
<1>1. ASSUME NEW i \in Invocations, NEW now \in Clock,
             AcquireGranted(i, now) \/ AcquireRefused(i, now) \/ Validate(i, now)
      PROVE  Inv'
  BY <1>1, AcquireGrantedInv, AcquireRefusedInv, ValidateInv
<1>2. ASSUME NEW i \in Invocations,
             \/ HostTakes(i) \/ HostEscapes(i) \/ HostReports(i)
             \/ WorkerTakes(i) \/ WorkerReports(i)
      PROVE  Inv'
  BY <1>2, HostTakesInv, HostEscapesInv, HostReportsInv, WorkerTakesInv, WorkerReportsInv
<1>3. ASSUME NEW now \in Clock, ResetCircuit(now)
      PROVE  Inv'
  BY <1>3, ResetInv
<1>4. CASE UNCHANGED vars
  BY <1>4 DEF vars, Inv, TypeOK, PlacesInv, ProgressInv, GenerationInv, ProbeInv,
              StreakInv, ChargedOnce, Current
<1> QED BY <1>1, <1>2, <1>3, <1>4 DEF Next, Quiescent

(***************************************************************************)
(* Every reachable state satisfies Inv, which is all that the following     *)
(* results need to know of reachability.                                   *)
(***************************************************************************)
THEOREM Invariance == Spec => []Inv
BY InitInv, NextInv, PTL DEF Spec

(***************************************************************************)
(* The types of the breaker and of everything around it: no legal history  *)
(* of acquire, validate, take, report and reset leaves the state space of  *)
(* runtime.py:114-278.                                                     *)
(***************************************************************************)
THEOREM TypeCorrect == Spec => []TypeOK
BY Invariance, PTL DEF Inv

(* The half-open probe is neither lost nor granted twice. *)
THEOREM OneProbe == Spec => []ExactlyOneProbe
<1>1. Inv => ExactlyOneProbe
  <2> SUFFICES ASSUME Inv PROVE ExactlyOneProbe
    OBVIOUS
  <2>1. \A i \in Invocations, w \in Places :
          CurrentProbe(held[i][w]) <=> breaker.state = "half_open" /\ Current(i, w)
    BY CurrentIsGeneration DEF Inv, TypeOK, Permit, GenerationInv, CurrentProbe,
                               PermitIsCurrent, Current
  <2>2. \A h \in ProbeHolders : /\ h = <<h[1], h[2]>>
                                /\ h[1] \in Invocations /\ h[2] \in Places
                                /\ breaker.state = "half_open" /\ Current(h[1], h[2])
    BY <2>1 DEF ProbeHolders
  <2>3. \A g, h \in ProbeHolders : g = h
    BY <2>2 DEF Inv, ProbeInv
  <2>4. ASSUME breaker.state = "half_open" PROVE ProbeHolders # {}
    <3>1. PICK i \in Invocations, w \in Places : Current(i, w)
      BY <2>4 DEF Inv, ProbeInv
    <3>2. <<i, w>> \in ProbeHolders
      BY <2>1, <2>4, <3>1 DEF ProbeHolders
    <3> QED BY <3>2
  <2> QED BY <2>3, <2>4 DEF ExactlyOneProbe
<1> QED BY <1>1, Invariance, PTL

(* Each invocation is charged once, and the streak decides the state. *)
THEOREM FailuresChargedOnce == Spec => []ChargedOnce
BY Invariance, PTL DEF Inv, StreakInv
-----------------------------------------------------------------------------
(* The action properties speak of single steps; these name the steps.      *)
LEMMA ReportingStep ==
  ASSUME Inv, [Next]_vars, NEW i \in Invocations, NEW w \in Parties,
         doing[i][w] # "nothing", doing'[i][w] = "nothing"
  PROVE  \E now \in Clock : Report(i, w, now)
<1>1. ASSUME NEW j \in Invocations, NEW now \in Clock,
             \/ AcquireGranted(j, now) \/ AcquireRefused(j, now) \/ Validate(j, now)
             \/ HostEscapes(j)
      PROVE  FALSE
  BY <1>1 DEF AcquireGranted, AcquireRefused, Validate, HostEscapes
<1>2. ASSUME NEW j \in Invocations, HostTakes(j) \/ WorkerTakes(j)
      PROVE  FALSE
  <2>1. PICK v \in Parties, outcome \in Outcomes :
          doing' = [doing EXCEPT ![j][v] = outcome]
    <3>1. HostOutcomes(j) \subseteq Outcomes
      BY DEF HostOutcomes, Outcomes
    <3> QED BY <1>2, <3>1, Names DEF HostTakes, WorkerTakes, Take
  <2> QED BY <2>1 DEF Outcomes, Inv, TypeOK
<1>3. ASSUME NEW j \in Invocations, HostReports(j) \/ WorkerReports(j)
      PROVE  \E now \in Clock : Report(i, w, now)
  <2>1. PICK v \in Parties, now \in Clock : Report(j, v, now)
    BY <1>3, Names DEF HostReports, WorkerReports
  <2>2. doing' = [doing EXCEPT ![j][v] = "nothing"]
    BY <2>1 DEF Report
  <2>3. j = i /\ v = w
    BY <2>2 DEF Inv, TypeOK
  <2> QED BY <2>1, <2>3
<1>4. ASSUME NEW now \in Clock, ResetCircuit(now) PROVE FALSE
  BY <1>4 DEF ResetCircuit
<1>5. CASE UNCHANGED vars
  BY <1>5 DEF vars
<1>6. Clock # {}
  BY InvocationsAssumption DEF Clock
<1> QED BY <1>1, <1>2, <1>3, <1>4, <1>5, <1>6 DEF Next, Quiescent

(***************************************************************************)
(* An outcome of an earlier generation, which a trip, a reset or a settled *)
(* probe has ended, changes nothing but the breaker's time.                *)
(***************************************************************************)
THEOREM LateOutcomes == Spec => LateOutcomesIgnored
<1>1. ASSUME Inv, [Next]_vars, NEW i \in Invocations, NEW w \in Parties,
             doing[i][w] # "nothing", doing'[i][w] = "nothing",
             held[i][w].generation # breaker.generation
      PROVE  [breaker' EXCEPT !.lastObserved = breaker.lastObserved] = breaker
  <2>1. PICK now \in Clock : Report(i, w, now)
    BY <1>1, ReportingStep
  <2>2. /\ breaker \in Breaker /\ held[i][w] \in Permit /\ now \in Nat
        /\ doing[i][w] \in Outcomes
        /\ breaker' = Settle(breaker, held[i][w], doing[i][w], now)
    BY <1>1, <2>1, Names DEF Report, Inv, TypeOK
  <2>3. ~PermitIsCurrent(breaker, held[i][w])
    BY <1>1 DEF PermitIsCurrent
  <2>4. breaker' = [breaker EXCEPT !.lastObserved = breaker'.lastObserved]
    BY <2>2, <2>3, SettleFacts
  <2>5. [breaker' EXCEPT !.lastObserved = breaker.lastObserved]
          = [[breaker EXCEPT !.lastObserved = breaker'.lastObserved]
               EXCEPT !.lastObserved = breaker.lastObserved]
    BY <2>4
  <2> QED BY <2>2, <2>5 DEF Breaker
<1>2. Inv /\ [Next]_vars =>
        [\A i \in Invocations, w \in Parties :
           /\ doing[i][w] # "nothing" /\ doing'[i][w] = "nothing"
           /\ held[i][w].generation # breaker.generation
           => [breaker' EXCEPT !.lastObserved = breaker.lastObserved] = breaker]_vars
  BY <1>1
<1> QED BY <1>2, Invariance, PTL DEF Spec, LateOutcomesIgnored

(***************************************************************************)
(* A failure that opens the circuit buys a full interval from the latest   *)
(* time the breaker has seen, however old the failing thread's reading is. *)
(***************************************************************************)
THEOREM IntervalsAreFull == Spec => FullRecovery
<1>1. ASSUME Inv, [Next]_vars, NEW i \in Invocations, NEW w \in Parties,
             doing[i][w] = "fail", doing'[i][w] = "nothing",
             breaker.state # "open", breaker'.state = "open"
      PROVE  breaker'.openedUntil >= breaker.lastObserved + RecoveryTimeout
  <2>1. PICK now \in Clock : Report(i, w, now)
    BY <1>1, ReportingStep
  <2>2. /\ breaker \in Breaker /\ held[i][w] \in Permit /\ now \in Nat
        /\ doing[i][w] \in Outcomes
        /\ breaker' = Settle(breaker, held[i][w], doing[i][w], now)
    BY <1>1, <2>1, Names DEF Report, Inv, TypeOK
  <2>3. /\ breaker' \in Breaker /\ breaker'.lastObserved >= breaker.lastObserved
        /\ ~PermitIsCurrent(breaker, held[i][w]) =>
             breaker' = [breaker EXCEPT !.lastObserved = breaker'.lastObserved]
        /\ PermitIsCurrent(breaker, held[i][w]) =>
             /\ Trips(breaker, held[i][w]) =>
                  breaker'.openedUntil = breaker'.lastObserved + RecoveryTimeout
             /\ ~Trips(breaker, held[i][w]) => breaker'.state = breaker.state
    BY <1>1, <2>2, SettleFacts
  <2>4. PermitIsCurrent(breaker, held[i][w]) /\ Trips(breaker, held[i][w])
    <3>1. CASE ~PermitIsCurrent(breaker, held[i][w])
      BY <1>1, <2>2, <2>3, <3>1 DEF Breaker
    <3> QED BY <1>1, <2>3, <3>1
  <2>5. /\ breaker.lastObserved \in Nat /\ breaker'.lastObserved \in Nat
    BY <2>2, <2>3, BreakerFields
  <2> QED BY <2>3, <2>4, <2>5, BreakerPolicyAssumption
<1>2. Inv /\ [Next]_vars =>
        [\A i \in Invocations, w \in Parties :
           /\ doing[i][w] = "fail" /\ doing'[i][w] = "nothing"
           /\ breaker.state # "open" /\ breaker'.state = "open"
           => breaker'.openedUntil >= breaker.lastObserved + RecoveryTimeout]_vars
  BY <1>1
<1> QED BY <1>2, Invariance, PTL DEF Spec, FullRecovery

(***************************************************************************)
(* Who starts an execution holds a permit of the current generation, and   *)
(* in a half-open period it is the one prober.                             *)
(***************************************************************************)
THEOREM DependencyShielded == Spec => ShieldedDependency
<1>1. ASSUME Inv, [Next]_vars, NEW i \in Invocations,
             stage[i] = "admitted", stage'[i] = "executing"
      PROVE  PermitIsCurrent(breaker, held[i]["attempt"])
  <2>1. ASSUME NEW j \in Invocations, NEW now \in Clock, Validate(j, now)
        PROVE  PermitIsCurrent(breaker, held[i]["attempt"])
    <3>1. j = i
      BY <1>1, <2>1 DEF Validate, Inv, TypeOK
    <3> QED BY <1>1, <2>1, <3>1 DEF Validate, Inv, TypeOK
  <2>2. ASSUME NEW j \in Invocations, NEW now \in Clock,
               AcquireGranted(j, now) \/ AcquireRefused(j, now)
        PROVE  FALSE
    BY <1>1, <2>2 DEF AcquireGranted, AcquireRefused, Inv, TypeOK
  <2>3. ASSUME NEW j \in Invocations,
               \/ HostTakes(j) \/ HostEscapes(j) \/ HostReports(j)
               \/ WorkerTakes(j) \/ WorkerReports(j)
        PROVE  FALSE
    BY <1>1, <2>3
       DEF HostTakes, HostEscapes, HostReports, WorkerTakes, WorkerReports, Inv, TypeOK
  <2>4. ASSUME NEW now \in Clock, ResetCircuit(now) PROVE FALSE
    BY <1>1, <2>4 DEF ResetCircuit
  <2>5. ~(UNCHANGED vars)
    BY <1>1 DEF vars
  <2> QED BY <1>1, <2>1, <2>2, <2>3, <2>4, <2>5 DEF Next, Quiescent
<1>2. ASSUME Inv, NEW i \in Invocations, PermitIsCurrent(breaker, held[i]["attempt"])
      PROVE  /\ breaker.state # "open"
             /\ held[i]["attempt"].generation = breaker.generation
             /\ breaker.state = "half_open" => ProbeHolders = {<<i, "attempt">>}
  <2>1. Current(i, "attempt") /\ breaker.state # "open"
    BY <1>2 DEF PermitIsCurrent, Current
  <2>2. ASSUME breaker.state = "half_open" PROVE ProbeHolders = {<<i, "attempt">>}
    <3>1. <<i, "attempt">> \in ProbeHolders
      BY <1>2, <2>2, Names DEF ProbeHolders, CurrentProbe, PermitIsCurrent
    <3>2. ASSUME NEW h \in ProbeHolders PROVE h = <<i, "attempt">>
      <4>1. h \in Invocations \X Places /\ Current(h[1], h[2])
        BY DEF ProbeHolders, CurrentProbe, PermitIsCurrent, Current
      <4>2. h[1] = i /\ h[2] = "attempt"
        BY <1>2, <2>1, <2>2, <4>1, Names DEF Inv, ProbeInv
      <4> QED BY <4>1, <4>2
    <3> QED BY <3>1, <3>2
  <2> QED BY <2>1, <2>2 DEF Current
<1>3. Inv /\ [Next]_vars =>
        [\A i \in Invocations :
           stage[i] = "admitted" /\ stage'[i] = "executing"
           => /\ breaker.state # "open"
              /\ held[i]["attempt"].generation = breaker.generation
              /\ breaker.state = "half_open" => ProbeHolders = {<<i, "attempt">>}]_vars
  BY <1>1, <1>2
<1> QED BY <1>3, Invariance, PTL DEF Spec, ShieldedDependency
-----------------------------------------------------------------------------
(* The refinement mapping: who the contract calls a prober. *)
Probers == {h[1] : h \in ProbeHolders}

(* There is no prober outside a probe, and its owner is the prober. *)
ProbersAgree ==
  /\ breaker.state # "half_open" => Probers = {}
  /\ \A i \in Invocations, w \in Places :
       breaker.state = "half_open" /\ Current(i, w) => Probers = {i}

(* The mapping is what Inv says of permits. *)
LEMMA ProbersFacts == Inv => ProbersAgree
<1> SUFFICES ASSUME Inv PROVE ProbersAgree
  OBVIOUS
<1>1. \A h \in ProbeHolders : /\ h[1] \in Invocations /\ h[2] \in Places
                              /\ breaker.state = "half_open" /\ Current(h[1], h[2])
  BY DEF ProbeHolders, CurrentProbe, PermitIsCurrent, Current
<1>2. ASSUME NEW i \in Invocations, NEW w \in Places,
             breaker.state = "half_open", Current(i, w)
      PROVE  Probers = {i}
  <2>1. held[i][w].probe = TRUE
    BY <1>2 DEF Inv, TypeOK, Permit, GenerationInv
  <2>2. <<i, w>> \in ProbeHolders
    BY <1>2, <2>1 DEF ProbeHolders, CurrentProbe, PermitIsCurrent, Current
  <2>3. \A h \in ProbeHolders : h[1] = i
    BY <1>1, <1>2 DEF Inv, ProbeInv
  <2> QED BY <2>2, <2>3 DEF Probers
<1> QED BY <1>1, <1>2 DEF Probers, ProbersAgree

(* The same, after a step. *)
LEMMA ProbersFactsNext == Inv' => ProbersAgree'
BY ProbersFacts, PTL

(* A step that keeps the state, and the prober when there is one, stutters. *)
LEMMA SameProber ==
  ASSUME Inv, Inv', breaker'.state = breaker.state,
         breaker.state = "half_open" =>
           \A i \in Invocations, w \in Places :
             Current(i, w) => \E v \in Places : Current(i, v)'
  PROVE  Probers' = Probers
<1>1. CASE breaker.state # "half_open"
  <2>1. Probers = {}
    BY <1>1, ProbersFacts DEF ProbersAgree
  <2>2. Probers' = {}
    BY <1>1, ProbersFactsNext DEF ProbersAgree
  <2> QED BY <2>1, <2>2
<1>2. CASE breaker.state = "half_open"
  <2>1. PICK i \in Invocations, w \in Places : Current(i, w)
    BY <1>2 DEF Inv, ProbeInv
  <2>2. PICK v \in Places : Current(i, v)'
    BY <1>2, <2>1
  <2>3. Probers = {i}
    BY <1>2, <2>1, ProbersFacts DEF ProbersAgree
  <2>4. Probers' = {i}
    BY <1>2, <2>2, ProbersFactsNext DEF ProbersAgree
  <2> QED BY <2>3, <2>4
<1> QED BY <1>1, <1>2

(***************************************************************************)
(* The breaker implements its contract, with the outstanding probe's owner *)
(* as the prober.                                                          *)
(***************************************************************************)
THEOREM BreakerImplementsContract == Spec => ImplementsContract
<1> DEFINE CNext == Contract!Next
           CVars == <<breaker.state, Probers>>
<1>1. Init => Contract!Init
  <2> SUFFICES ASSUME Init PROVE breaker.state = "closed" /\ Probers = {}
    BY DEF Contract!Init, Probers
  <2>1. breaker.state = "closed"
    BY DEF Init, NewBreaker
  <2> QED BY <2>1, InitInv, ProbersFacts DEF ProbersAgree
<1>2. ASSUME Inv, Inv', [Next]_vars
      PROVE  CNext \/ UNCHANGED CVars
  <2>1. ASSUME NEW i \in Invocations, NEW now \in Clock, AcquireGranted(i, now)
        PROVE  CNext \/ UNCHANGED CVars
    <3>1. /\ breaker \in Breaker /\ now \in Nat /\ breaker' = Acquire(breaker, now)
          /\ held' = [held EXCEPT ![i]["attempt"] = Granted(breaker, now)]
          /\ breaker.state = "closed"
             \/ (breaker.state = "open" /\ Elapsed(breaker, now))
      BY <1>2, <2>1, Names DEF Inv, TypeOK, AcquireGranted, Admits
    <3>2. CASE breaker.state = "closed"
      <4>1. breaker'.state = breaker.state
        BY <3>1, <3>2, AcquireFacts
      <4> QED BY <1>2, <3>2, <4>1, SameProber
    <3>3. CASE breaker.state = "open" /\ Elapsed(breaker, now)
      <4>1. /\ breaker'.state = "half_open"
            /\ Granted(breaker, now).generation = breaker'.generation
        BY <3>1, <3>3, AcquireFacts
      <4>2. Current(i, "attempt")'
        <5>1. held'[i]["attempt"] = Granted(breaker, now)
          BY <1>2, <3>1, Names DEF Inv, TypeOK
        <5> QED BY <4>1, <5>1 DEF Current
      <4>3. Probers' = {i}
        BY <1>2, <4>1, <4>2, ProbersFactsNext, Names DEF ProbersAgree
      <4>4. Contract!BeginProbe(i)
        BY <3>3, <4>1, <4>3 DEF Contract!BeginProbe, Probers
      <4> QED BY <4>4 DEF Contract!Next
    <3> QED BY <3>1, <3>2, <3>3
  <2>7. ASSUME NEW i \in Invocations, HostEscapes(i)
        PROVE  UNCHANGED CVars
    BY <2>7 DEF HostEscapes, Probers, ProbeHolders, CurrentProbe
  <2>2. ASSUME NEW i \in Invocations, NEW now \in Clock,
               AcquireRefused(i, now) \/ Validate(i, now)
        PROVE  UNCHANGED CVars
    <3>1. breaker' = Observe(breaker, now) /\ held' = held
      BY <2>2 DEF AcquireRefused, Validate
    <3>2. breaker'.state = breaker.state /\ breaker'.generation = breaker.generation
      BY <1>2, <3>1, ObserveFacts, Names DEF Inv, TypeOK
    <3>3. \A j, w : Current(j, w) => Current(j, w)'
      BY <3>1, <3>2 DEF Current
    <3> QED BY <1>2, <3>2, <3>3, SameProber
  <2>3. ASSUME NEW i \in Invocations, HostTakes(i) \/ WorkerTakes(i)
        PROVE  UNCHANGED CVars
    <3>1. PICK w \in Parties, outcome \in Outcomes : Take(i, w, outcome)
                                                     /\ doing[i][w] = "nothing"
      <4>1. HostOutcomes(i) \subseteq Outcomes
        BY DEF HostOutcomes, Outcomes
      <4>2. thread[i] = "running" => doing[i]["worker"] = "nothing"
        BY <1>2, Names DEF Inv, TypeOK, ProgressInv
      <4> QED BY <2>3, <4>1, <4>2, Names DEF HostTakes, LoopFree, WorkerTakes
    <3>2. stage[i] # "new"
      BY <1>2, <2>3 DEF HostTakes, HostOutcomes, WorkerTakes, Inv, ProgressInv
    <3>3. UNCHANGED <<breaker, charged>>
      BY <2>3 DEF HostTakes, WorkerTakes
    <3>4. \A j \in Invocations, v \in Places :
            Current(j, v) => \E u \in Places : Current(j, u)'
      BY <1>2, <3>1, <3>2, <3>3, TakeKeeps
    <3> QED BY <1>2, <3>3, <3>4, SameProber
  <2>4. ASSUME NEW i \in Invocations, HostReports(i) \/ WorkerReports(i)
        PROVE  CNext \/ UNCHANGED CVars
    <3>1. PICK w \in Parties, now \in Clock : Report(i, w, now)
      BY <2>4, Names DEF HostReports, WorkerReports
    <3>2. stage[i] # "new"
      <4>1. w \in {"host", "worker"} /\ doing[i][w] # "nothing"
        BY <3>1 DEF Report, Parties
      <4> QED BY <1>2, <4>1 DEF Inv, ProgressInv
    <3>3. \/ /\ breaker'.state = breaker.state
             /\ breaker.state = "half_open" =>
                  \A j \in Invocations, v \in Places : Current(j, v) => Current(j, v)'
          \/ breaker.state = "closed" /\ breaker'.state = "open"
          \/ breaker.state = "half_open" /\ breaker'.state \in {"closed", "open"}
      BY <1>2, <3>1, <3>2, ReportKeeps
    <3>4. CASE /\ breaker'.state = breaker.state
               /\ breaker.state = "half_open" =>
                    \A j \in Invocations, v \in Places : Current(j, v) => Current(j, v)'
      BY <1>2, <3>4, SameProber
    <3>5. CASE breaker.state = "closed" /\ breaker'.state = "open"
      <4>1. Probers = {} /\ Probers' = {}
        BY <1>2, <3>5, ProbersFacts, ProbersFactsNext DEF ProbersAgree
      <4>2. Contract!Trip
        BY <3>5, <4>1 DEF Contract!Trip, Probers
      <4> QED BY <4>2 DEF Contract!Next
    <3>6. CASE breaker.state = "half_open" /\ breaker'.state \in {"closed", "open"}
      <4>1. Probers' = {}
        BY <1>2, <3>6, ProbersFactsNext DEF ProbersAgree
      <4>2. Contract!EndProbe
        BY <3>6, <4>1 DEF Contract!EndProbe, Probers
      <4> QED BY <4>2 DEF Contract!Next
    <3> QED BY <3>3, <3>4, <3>5, <3>6
  <2>5. ASSUME NEW now \in Clock, ResetCircuit(now)
        PROVE  CNext
    <3>1. breaker'.state = "closed"
      BY <1>2, <2>5, ResetFacts, Names DEF Inv, TypeOK, ResetCircuit
    <3>2. Probers' = {}
      BY <1>2, <3>1, ProbersFactsNext DEF ProbersAgree
    <3>3. Contract!Reset
      BY <3>1, <3>2 DEF Contract!Reset, Probers
    <3> QED BY <3>3 DEF Contract!Next
  <2>6. CASE UNCHANGED vars
    BY <2>6 DEF vars, Probers, ProbeHolders, CurrentProbe
  <2> QED BY <1>2, <2>1, <2>2, <2>3, <2>4, <2>5, <2>6, <2>7 DEF Next, Quiescent
<1>3. Inv /\ Inv' /\ [Next]_vars => [Contract!Next]_(Contract!vars)
  BY <1>2 DEF Contract!vars, Probers
<1> QED BY <1>1, <1>3, Invariance, PTL DEF Spec, ImplementsContract, Contract!Spec
=============================================================================
