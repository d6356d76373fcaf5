------------------------- MODULE AlgorithmOfThoughts --------------------------
(***************************************************************************)
(* The archived reasoning engine legacy/reasoning/algo_of_thoughts.py:     *)
(* reason() decomposes a problem, explores a path for each part, validates *)
(* the paths, eliminates and converges, and every arrow is an await of the *)
(* LLM.  Without an LLM the only await is the gather of the explorations.  *)
(* The calls of one engine share its solution_paths and its current_step,  *)
(* which each call resets; reason_with_aot makes an engine of its own for  *)
(* each call.                                                              *)
(*                                                                         *)
(* A path is the kinds of its steps, its validation score in tenths, and   *)
(* is_valid, which holds of every path until it is validated.              *)
(* A reference <<c, i>> is the i-th path that call c has made.  Every list *)
(* of paths holds paths of one call in the order of their numbers, so it   *)
(* is the set of their references.                                         *)
(***************************************************************************)
EXTENDS Integers, Sequences, FiniteSets

CONSTANTS Calls, MaxPaths, MaxDepth, Threshold,
          MaxParts,  \* bound: lines of a decomposition
          Scores     \* bound: what a validation may answer, 5 if unreadable

ASSUME ThoughtsAssumption ==
  /\ MaxPaths \in Nat \ {0} /\ MaxDepth \in Nat \ {0} /\ MaxParts \in Nat
  /\ Threshold \in Int /\ Scores \subseteq Int

VARIABLES
  engine,     \* [parallel, paths : references, step : current_step]
  stage,      \* where a call is
  paths,      \* the SolutionPaths a call has made
  todo,       \* those it still explores
  list,       \* the references it still validates
  best,       \* the path it converges on
  result,     \* what it returns
  overlapped  \* the calls that were not alone on the engine

thoughtVars == <<engine, stage, paths, todo, list, best, result, overlapped>>

NoPath == <<>>
NoResult == [best |-> NoPath, confidence |-> 0, valid |-> 0, steps |-> 0]

ThoughtsInit ==
  /\ engine \in [parallel : BOOLEAN, paths : {{}}, step : {0}]
  /\ stage = [c \in Calls |-> "new"]
  /\ paths = [c \in Calls |-> <<>>] /\ todo = [c \in Calls |-> {}]
  /\ list = [c \in Calls |-> {}] /\ best = [c \in Calls |-> NoPath]
  /\ result = [c \in Calls |-> NoResult]
  /\ overlapped = {}
-----------------------------------------------------------------------------
Active == {c \in Calls : stage[c] \notin {"new", "returned", "raised"}}
PathAt(ps, r) == ps[r[1]][r[2]]
Longer(path, kind) == [path EXCEPT !.steps = Append(@, kind)]
Unfinished(path) == Len(path.steps) < MaxDepth
Reaches(score) == score >= Threshold
IsValid(path) == path.valid

KeepsCount(e) == [e EXCEPT !.paths = {}]  \* mutant: current_step is not reset
Fresh(e) == [e EXCEPT !.paths = {}, !.step = 0]

InitialPaths(parts) ==
  [i \in 1..(IF parts < MaxPaths THEN parts ELSE MaxPaths) |->
     [steps |-> <<"exploration">>, score |-> 8, valid |-> TRUE]]
References(c, made) == {<<c, i>> : i \in DOMAIN made}

(* The first of a list. *)
First(refs) == CHOOSE r \in refs : \A q \in refs : r[2] <= q[2]

(* A step of a kind at the end of every path of a list. *)
Marked(ps, refs, kind) ==
  [d \in Calls |-> [i \in DOMAIN ps[d] |->
     IF <<d, i>> \in refs THEN Longer(ps[d][i], kind) ELSE ps[d][i]]]

(* A validation: its score, its verdict and its step at the end. *)
Rated(path, score) ==
  Longer([path EXCEPT !.score = score, !.valid = Reaches(score)], "validation")

Survivors(ps, refs) == {r \in refs : IsValid(PathAt(ps, r))}

(* sorted(..., reverse=True)[0]: the first of those with the best score.   *)
Best(ps, refs) ==
  First({r \in refs : \A q \in refs : PathAt(ps, r).score >= PathAt(ps, q).score})

Solved(ps, refs, r, steps) ==
  [best |-> r, confidence |-> PathAt(ps, r).score,
   valid |-> Cardinality(Survivors(ps, refs)), steps |-> steps]
Unsolved(steps) == [NoResult EXCEPT !.steps = steps]

(* Elimination and the choice for the convergence, on what the engine      *)
(* holds by then, when the paths have become ps and the engine e.          *)
Settles(c, ps, e) ==
  LET kept == Survivors(ps, e.paths)
  IN  /\ paths' = Marked(ps, e.paths \ kept, "elimination")
      /\ engine' = [e EXCEPT !.paths = kept]
      /\ list' = [list EXCEPT ![c] = {}]
      /\ \/ /\ kept = {}
            /\ stage' = [stage EXCEPT ![c] = "returned"]
            /\ result' = [result EXCEPT ![c] = Unsolved(e.step)]
            /\ UNCHANGED best
         \/ /\ kept # {}
            /\ stage' = [stage EXCEPT ![c] = "converging"]
            /\ best' = [best EXCEPT ![c] = Best(ps, kept)]
            /\ UNCHANGED result

(* The loop of _validate_paths runs over the list it finds.  *)
StartsValidation(c, ps, e) ==
  \/ e.paths = {} /\ Settles(c, ps, e)
  \/ /\ e.paths # {}
     /\ stage' = [stage EXCEPT ![c] = "validating"]
     /\ list' = [list EXCEPT ![c] = e.paths]
     /\ paths' = ps /\ engine' = e
     /\ UNCHANGED <<best, result>>
-----------------------------------------------------------------------------
Enters(c) == overlapped' = overlapped \cup IF Active = {} THEN {} ELSE Active \cup {c}

(* reason() up to the answer to the decomposition prompt. *)
Begins(c) ==
  /\ stage[c] = "new"
  /\ stage' = [stage EXCEPT ![c] = "decomposing"]
  /\ engine' = [Fresh(engine) EXCEPT !.step = @ + 1]
  /\ Enters(c)
  /\ UNCHANGED <<paths, todo, list, best, result>>

(* A gather of at least one exploration suspends the call; a loop suspends *)
(* it only when some path asks the LLM.                                    *)
Decomposes(c) ==
  /\ stage[c] = "decomposing"
  /\ \E parts \in 0..MaxParts :
       LET made == InitialPaths(parts)
           open == {i \in DOMAIN made : Unfinished(made[i])}
           ps   == [paths EXCEPT ![c] = made]
           e    == [engine EXCEPT !.paths = References(c, made)]
           waits == IF engine.parallel THEN made # <<>> ELSE open # {}
       IN  /\ todo' = [todo EXCEPT ![c] = open]
           /\ \/ ~waits /\ StartsValidation(c, ps, e)
              \/ /\ waits /\ paths' = ps /\ engine' = e
                 /\ stage' = [stage EXCEPT ![c] = "exploring"]
                 /\ UNCHANGED <<list, best, result>>
  /\ UNCHANGED overlapped

(* The LLM's answer for a path: for any when they are explored in          *)
(* parallel, and else for the first that is not finished.  A loop goes on  *)
(* to the validation when nothing is left to explore.                      *)
Explores(c, i) ==
  /\ stage[c] = "exploring" /\ i \in todo[c]
  /\ engine.parallel \/ \A j \in todo[c] : i <= j
  /\ LET ps   == [paths EXCEPT ![c][i] = Longer(@, "exploration")]
         e    == [engine EXCEPT !.step = @ + 1]
         left == {j \in todo[c] : (engine.parallel /\ j # i) \/ Unfinished(ps[c][j])}
     IN  /\ todo' = [todo EXCEPT ![c] = left]
         /\ \/ ~engine.parallel /\ left = {} /\ StartsValidation(c, ps, e)
            \/ /\ engine.parallel \/ left # {}
               /\ paths' = ps /\ engine' = e
               /\ UNCHANGED <<stage, list, best, result>>
  /\ UNCHANGED overlapped

(* gather(return_exceptions=True): a path whose LLM call fails stays as    *)
(* short as it is, and takes part in what follows.                         *)
ExplorationFails(c, i) ==
  /\ stage[c] = "exploring" /\ i \in todo[c] /\ engine.parallel
  /\ todo' = [todo EXCEPT ![c] = @ \ {i}]
  /\ UNCHANGED <<engine, stage, paths, list, best, result, overlapped>>

(* The gather is over. *)
HasExplored(c) ==
  /\ stage[c] = "exploring" /\ todo[c] = {}
  /\ StartsValidation(c, paths, engine)
  /\ UNCHANGED <<todo, overlapped>>

Validates(c) ==
  /\ stage[c] = "validating"
  /\ \E score \in Scores :
       LET r    == First(list[c])
           ps   == [paths EXCEPT ![r[1]][r[2]] = Rated(@, score)]
           left == list[c] \ {r}
       IN  \/ left = {} /\ Settles(c, ps, engine)
           \/ /\ left # {} /\ paths' = ps
              /\ list' = [list EXCEPT ![c] = left]
              /\ UNCHANGED <<engine, stage, best, result>>
  /\ UNCHANGED <<todo, overlapped>>

Returns(c) ==
  /\ stage[c] = "converging"
  /\ stage' = [stage EXCEPT ![c] = "returned"]
  /\ paths' = Marked(paths, {best[c]}, "convergence")
  /\ result' = [result EXCEPT ![c] = Solved(paths, engine.paths, best[c], engine.step)]
  /\ UNCHANGED <<engine, todo, list, best, overlapped>>

(* Everywhere else an exception of the LLM, or a cancellation, ends the    *)
(* call.                                                                   *)
Raises(c) ==
  /\ c \in Active
  /\ stage' = [stage EXCEPT ![c] = "raised"]
  /\ todo' = [todo EXCEPT ![c] = {}] /\ list' = [list EXCEPT ![c] = {}]
  /\ UNCHANGED <<engine, paths, best, result, overlapped>>
-----------------------------------------------------------------------------
(* Without an LLM: what every path still lacks, and the paths without the  *)
(* lack; the score of a path by its length.                                *)
Missing(made) ==
  UNION {{<<i, n>> : n \in (Len(made[i].steps) + 1)..MaxDepth} : i \in DOMAIN made}
Filled(made) ==
  [i \in DOMAIN made |->
     [made[i] EXCEPT !.steps = @ \o [n \in 1..(MaxDepth - Len(@)) |-> "exploration"]]]
SimpleScore(path) ==
  IF Unfinished(path) THEN (10 * Len(path.steps)) \div MaxDepth ELSE 10

SimplyRated(ps, refs) ==
  [d \in Calls |-> [i \in DOMAIN ps[d] |->
     IF <<d, i>> \in refs THEN Rated(ps[d][i], SimpleScore(ps[d][i])) ELSE ps[d][i]]]

(* Validation, elimination and convergence in one go. *)
Concludes(c, ps, e) ==
  LET rated == SimplyRated(ps, e.paths)
      kept  == Survivors(rated, e.paths)
      ended == Marked(rated, e.paths \ kept, "elimination")
      r     == Best(rated, kept)
  IN  /\ stage' = [stage EXCEPT ![c] = "returned"]
      /\ engine' = [e EXCEPT !.paths = kept]
      /\ \/ /\ kept = {} /\ paths' = ended
            /\ result' = [result EXCEPT ![c] = Unsolved(e.step)]
         \/ /\ kept # {} /\ paths' = Marked(ended, {r}, "convergence")
            /\ result' = [result EXCEPT ![c] = Solved(ended, kept, r, e.step)]

(* Five parts, explored in a loop that never waits, or in a gather. *)
ReasonsAlone(c) ==
  LET made == InitialPaths(5)
      e    == [Fresh(engine) EXCEPT !.paths = References(c, made), !.step = @ + 1]
  IN  /\ stage[c] = "new"
      /\ \/ /\ ~engine.parallel
            /\ Concludes(c, [paths EXCEPT ![c] = Filled(made)],
                         [e EXCEPT !.step = @ + Cardinality(Missing(made))])
            /\ UNCHANGED todo
         \/ /\ engine.parallel
            /\ stage' = [stage EXCEPT ![c] = "gathering"]
            /\ paths' = [paths EXCEPT ![c] = made] /\ engine' = e
            /\ todo' = [todo EXCEPT ![c] = DOMAIN made]
            /\ UNCHANGED result
      /\ Enters(c)
      /\ UNCHANGED <<list, best>>

(* The tasks of the gather run one after the other. *)
Gathers(c) ==
  /\ stage[c] = "gathering" /\ todo[c] # {}
  /\ paths' = [paths EXCEPT ![c] = Filled(@)]
  /\ engine' = [engine EXCEPT !.step = @ + Cardinality(Missing(paths[c]))]
  /\ todo' = [todo EXCEPT ![c] = {}]
  /\ UNCHANGED <<stage, list, best, result, overlapped>>

HasGathered(c) ==
  /\ stage[c] = "gathering" /\ todo[c] = {}
  /\ Concludes(c, paths, engine)
  /\ UNCHANGED <<todo, list, best, overlapped>>

ThoughtsNext ==
  \E c \in Calls :
    \/ Begins(c) \/ Decomposes(c) \/ HasExplored(c) \/ Validates(c)
    \/ Returns(c) \/ Raises(c)
    \/ ReasonsAlone(c) \/ Gathers(c) \/ HasGathered(c)
    \/ \E i \in todo[c] : Explores(c, i) \/ ExplorationFails(c, i)

ThoughtsSpec == ThoughtsInit /\ [][ThoughtsNext]_thoughtVars
-----------------------------------------------------------------------------
(* The steps of a call's paths that were explored, after the first of each. *)
Explorations(own) ==
  UNION {{<<i, n>> : n \in {m \in 2..Len(own[i].steps) : own[i].steps[m] = "exploration"}}
           : i \in DOMAIN own}
EndsWith(path, kind) == path.steps[Len(path.steps)] = kind

(* That the paths of call c, as it leaves them, justify its answer. *)
Justified(c, own, answer) ==
  LET valid == {i \in DOMAIN own : Reaches(own[i].score)}
      top == {i \in valid : \A j \in DOMAIN own : own[i].score >= own[j].score}
  IN  /\ top = {} => answer.best = NoPath
      /\ top # {} => \E i \in top : /\ \A j \in top : i <= j
                                    /\ answer.best = <<c, i>>
                                    /\ answer.confidence = own[i].score
      /\ answer.valid = Cardinality(valid)
      /\ answer.steps = 1 + Cardinality(Explorations(own))
      /\ \A i \in DOMAIN own : EndsWith(own[i], "elimination") <=> i \notin valid

(***************************************************************************)
(* A call that has an engine to itself, also one that served, or failed,   *)
(* other calls before: its answer is its own first path with the best      *)
(* score, if that reaches the threshold; exactly the other paths that do   *)
(* not are eliminated; and total_steps counts its decomposition and every  *)
(* step its paths were explored by, failed and eliminated ones included.   *)
(* Calls that overlap share the list and the counter and have no such      *)
(* promise.                                                                *)
(***************************************************************************)
BestPathWins ==
  \A c \in {d \in Calls : stage[d] = "returned"} \ overlapped :
    Justified(c, paths[c], result[c])
=============================================================================
