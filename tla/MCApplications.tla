---------------------------- MODULE MCApplications ----------------------------
(* The inventory example and the archived components in one run.  Nothing  *)
(* in the repository connects them: a behaviour is one of the inventory,   *)
(* the gateway, the bus, the context manager or the reasoning engine,      *)
(* chosen by its initial state.                                            *)
EXTENDS SqliteReservations, LLMGateway, MessageBus, AgentContext, AlgorithmOfThoughts

VARIABLES part

(* c1, c2, c3 make the calls of every part, s1 and s2 are the processes of *)
(* the inventory and the tasks of the bus: one small group of permutations *)
(* serves all of them.                                                     *)
CONSTANTS c1, c2, c3, s1, s2, r1, r2, r3

(* Two processes, retries under the same id, a conflict, an unknown sku,   *)
(* an invalid quantity and one crash.                                      *)
Wants(i, sku, n) == [id |-> i, sku |-> sku, quantity |-> n]

MCCalls     == {c1, c2, c3}
MCServers   == {s1, s2}
MCArguments == {Wants(r1, "cable", 2), Wants(r1, "cable", 1), Wants(r2, "cable", 2),
                Wants(r3, "other", 1), Wants(r3, "cable", 3)}

MCKeys == {"anthropic", "openai", "groq", "helix_native"}

(* Requests of every kind, with and without a provider, a model, a user    *)
(* and a temperature that allows the cache.                                *)
MCAsks == {Request("chat", "none", "none", "none", TRUE, "bye"),
           Request("chat", "none", "gpt", "ann", TRUE, "hello"),
           Request("chat", "groq", "gpt", "none", TRUE, "hello"),
           Request("chat", "helix_native", "none", "ann", FALSE, "hello"),
           Request("chat", "none", "gemini", "none", FALSE, "hello"),
           Request("tools", "none", "other", "ann", FALSE, "hello"),
           Request("structured", "none", "gpt", "none", TRUE, "hello"),
           Request("stream", "openai", "claude", "none", TRUE, "hello"),
           Request("chat_stream", "groq", "none", "ann", FALSE, "hello"),
           Request("gemini", "none", "none", "none", FALSE, "hello")}

archived == <<gatewayVars, busVars, contextVars, thoughtVars>>
everything == <<part, vars, archived>>

ApplicationsInit ==
  /\ part \in {"inventory", "gateway", "bus", "context", "thoughts"}
  /\ Init /\ GatewayInit /\ BusInit /\ ContextInit
  /\ ThoughtsInit /\ (part # "thoughts" => engine.parallel)

Runs(name) == part = name /\ UNCHANGED part

ApplicationsNext ==
  \/ Runs("inventory") /\ Next /\ UNCHANGED archived
  \/ /\ Runs("gateway") /\ GatewayNext
     /\ UNCHANGED <<vars, busVars, contextVars, thoughtVars>>
  \/ /\ Runs("bus") /\ BusNext
     /\ UNCHANGED <<vars, gatewayVars, contextVars, thoughtVars>>
  \/ /\ Runs("context") /\ ContextNext
     /\ UNCHANGED <<vars, gatewayVars, busVars, thoughtVars>>
  \/ /\ Runs("thoughts") /\ ThoughtsNext
     /\ UNCHANGED <<vars, gatewayVars, busVars, contextVars>>

ApplicationsSpec == ApplicationsInit /\ [][ApplicationsNext]_everything

Symmetry == Permutations({c1, c2}) \cup Permutations({s1, s2})
=============================================================================
