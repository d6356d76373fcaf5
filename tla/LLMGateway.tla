----------------------------- MODULE LLMGateway -----------------------------
(* The archived LLM gateway (legacy/llm_providers/unified_gateway.py):     *)
(* concurrent requests pick a provider, may use a key of their own, share  *)
(* a response cache in Redis and fall back to the other providers when a   *)
(* call fails.  Providers, Redis, the key service and the tracker are      *)
(* external: each await is a step whose outcome is not determined.         *)
EXTENDS Integers, Sequences, FiniteSets, SequencesExt

CONSTANTS Callers, \* the tasks that use the gateway, one request each
          Asks,    \* the requests they may make
          Keys,    \* the providers whose environment variable may be set
          Attempts \* what retry_with_backoff allows: 1 without the decorator

VARIABLES providers, \* registry names in the order of _ensure_init, or Unset
          redis,     \* "none" (not connected), "on", "off" (the sentinel)
          cache,     \* the entries in Redis
          st         \* what each caller's coroutine is doing

gatewayVars == <<providers, redis, cache, st>>

None == "none"
Unset == <<None>>

(* The registration order of _ensure_init, and the orders in which         *)
(* _resolve_provider and _select_provider prefer what is configured.       *)
Order == <<"anthropic", "openai", "xai", "perplexity", "openrouter", "groq",
           "mistral", "nvidia_nim", "minimax", "google_gemini", "cohere",
           "local", "helix_native">>
Preference == <<"anthropic", "xai", "openai", "perplexity", "openrouter",
                "helix_native", "local">>
StreamPreference == <<"anthropic", "xai", "openai", "openrouter", "perplexity">>

(* What a caller passes, "none" for what it leaves out; cool is for a      *)
(* temperature that allows the cache.                                      *)
Request(kind, provider, model, user, cool, text) ==
  [kind |-> kind, provider |-> provider, model |-> model, user |-> user,
   cool |-> cool, text |-> text]

ASSUME GatewayAssumption ==
  /\ Keys \subseteq ToSet(Order)
  /\ \A ask \in Asks :
       ask.cool \in BOOLEAN
       /\ ask = Request(ask.kind, ask.provider, ask.model, ask.user, ask.cool, ask.text)

(* Models up to the family the gateway can tell apart: routed, nvidia,     *)
(* versatile and command stand for org/model, nvidia/*, llama-*-versatile  *)
(* and command-r.                                                          *)
DefaultModel == [anthropic |-> "claude", openai |-> "gpt", xai |-> "grok",
                 perplexity |-> "sonar", openrouter |-> "routed",
                 groq |-> "versatile", mistral |-> "mistral",
                 nvidia_nim |-> "nvidia", minimax |-> "minimax",
                 google_gemini |-> "gemini", cohere |-> "command",
                 local |-> "helix", google |-> "gemini"]
Inferred == [claude |-> "anthropic", gpt |-> "openai", grok |-> "xai",
             sonar |-> "perplexity", llama |-> "perplexity", mistral |-> "mistral",
             gemma |-> "groq", minimax |-> "minimax", gemini |-> "google",
             helix |-> "local", routed |-> "openrouter", nvidia |-> "nvidia_nim",
             versatile |-> "groq", command |-> "cohere"]

Listed  == DOMAIN DefaultModel            \* helix_native is not in the registry
Default(name) == IF name \in Listed THEN DefaultModel[name] ELSE "unknown"
Infer(model) == IF model \in DOMAIN Inferred THEN Inferred[model] ELSE None

(* What _create_provider can build with a user's key, and the providers    *)
(* that are OpenAIProvider objects: their name attribute is the class's.   *)
OneOff == {"anthropic", "openai", "perplexity", "openrouter", "xai"}
OpenAICompatible == {"openai", "perplexity", "openrouter", "groq", "mistral",
                     "nvidia_nim", "minimax", "google_gemini"}
Label(name) == CASE name \in OpenAICompatible -> "openai"
                 [] name = "helix_native"     -> "unknown"
                 [] OTHER                     -> name

-----------------------------------------------------------------------------
Configured == ToSet(providers)
FirstOf(seq, able) == IF able = {} THEN None ELSE seq[Min(able)]

(* _resolve_provider: the name asked for, or the model's, or the preferred *)
(* one; whether it is configured is not looked at before the end.          *)
Target(ask) ==
  LET names == <<ask.provider, Infer(ask.model)>> \o Preference \o providers
  IN  FirstOf(names, {i \in DOMAIN names :
                        IF i <= 2 THEN names[i] # None ELSE names[i] \in Configured})

(* _select_provider, for stream(): only configured names are taken.        *)
Selected(ask) ==
  LET names == <<ask.provider, Infer(ask.model)>> \o StreamPreference \o providers
  IN  FirstOf(names, {i \in DOMAIN names : names[i] \in Configured})

ModelFor(ask, name) == IF ask.model = None THEN Default(name) ELSE ask.model

(* An answer; its model is the one asked for (the code prefers the name    *)
(* that the vendor reports, lines 968 and 1135).                           *)
Answer(name, owner, model, ask, content) ==
  [name |-> name, owner |-> owner, model |-> model, text |-> ask.text,
   content |-> content, error |-> FALSE, cached |-> FALSE]
Failure(name, model, ask) ==
  [Answer(name, None, model, ask, FALSE) EXCEPT !.error = TRUE]
NoAsk == Request(None, None, None, None, FALSE, None)
NoAnswer == Failure(None, None, NoAsk)

Idle == [pc |-> "idle", ask |-> NoAsk, chat |-> FALSE, name |-> None, owner |-> None,
         model |-> None, attempt |-> 0, calls |-> <<>>, tried |-> 0, use |-> None,
         out |-> <<>>, answer |-> NoAnswer, raised |-> FALSE, charged |-> 0]

GatewayInit ==
  /\ providers = Unset
  /\ redis = "none"
  /\ cache = <<>>
  /\ st = [c \in Callers |-> Idle]

(* Of two requests that differ in temperature or max_tokens, which the     *)
(* code puts in the key, the model has more sharing than the code.         *)
CacheKey(s) == <<Label(s.name), s.model, s.ask.text>>
CachesEveryone(s) == s.ask.cool      \* mutant: a user's request shares the cache
Cacheable(s) == s.ask.user = None /\ s.ask.cool

(* A chat ends: chat() and generate() return the answer, chat_stream()     *)
(* yields what it contains, structured_chat() reads .content of the string *)
(* that chat() returned and raises AttributeError.                         *)
Ended(s, answer) ==
  [s EXCEPT !.pc = "done", !.answer = answer,
            !.out = IF s.ask.kind = "chat_stream" /\ answer.content
                    THEN Append(@, "answer") ELSE @,
            !.raised = s.ask.kind = "structured"]

(* _get_redis: a client that is there is used without an await.            *)
ReachRedis(s, use, otherwise) ==
  CASE redis = "none" -> [s EXCEPT !.pc = "connecting", !.use = use]
    [] redis = "on"   -> [s EXCEPT !.pc = use]
    [] redis = "off"  -> otherwise

Calling(s) == [s EXCEPT !.pc = "calling", !.attempt = 1,
                        !.calls = Append(@, <<s.name, s.owner>>)]

(* What a request does with the provider it got.                           *)
Provided(s, name, owner) ==
  LET t == [s EXCEPT !.name = name, !.owner = owner, !.model = ModelFor(s.ask, name)]
      streams == ~t.chat /\ t.ask.kind = "chat_stream"
  IN IF owner = None
     THEN IF streams THEN [t EXCEPT !.pc = "done", !.out = <<"empty">>]
                     ELSE Ended(t, Failure(None, t.model, t.ask))
     ELSE IF streams THEN [t EXCEPT !.pc = "streaming"]
     ELSE IF t.chat /\ Cacheable(t) THEN ReachRedis(t, "getting", Calling(t))
     ELSE Calling(t)

PlatformKey(name) == IF name \in Configured THEN "platform" ELSE None

(* _resolve_provider up to its first await: no target ends the request, a  *)
(* user is looked up for a key of his own.                                 *)
Resolving(s) ==
  LET name == Target(s.ask)
  IN IF name # None /\ s.ask.user # None
     THEN [s EXCEPT !.pc = "keying", !.name = name]
     ELSE Provided(s, name, PlatformKey(name))

(* stream() selects without awaiting.                                      *)
Streaming(s) ==
  IF Selected(s.ask) = None THEN [s EXCEPT !.pc = "done", !.out = <<"empty">>]
  ELSE [s EXCEPT !.pc = "streaming", !.name = Selected(s.ask), !.owner = "platform"]

Becomes(c, s) == st' = [st EXCEPT ![c] = s]

-----------------------------------------------------------------------------
(* _ensure_init, run by the first request: a provider is there if its key  *)
(* is set and its constructor does not raise.                              *)
Rank(name) == CHOOSE i \in DOMAIN Order : Order[i] = name
Registries ==
  {names \in UNION {[1..n -> Keys] : n \in 0..Cardinality(Keys)} :
     \A i, j \in DOMAIN names : i < j => Rank(names[i]) < Rank(names[j])}
EnsureInit ==
  /\ providers = Unset
  /\ providers' \in Registries
  /\ UNCHANGED <<redis, cache, st>>

(* A request starts; chat_gemini goes to its own SDK.                      *)
Ask(c, ask) ==
  LET s == [st[c] EXCEPT !.ask = ask, !.chat = ask.kind \in {"chat", "structured"}]
  IN /\ providers # Unset
     /\ st[c].pc = "idle"
     /\ Becomes(c, CASE ask.kind = "gemini" -> [s EXCEPT !.pc = "gemini"]
                     [] ask.kind = "stream" -> Streaming(s)
                     [] OTHER               -> Resolving(s))
     /\ UNCHANGED <<providers, redis, cache>>

(* get_effective_llm_key answers: a key that is not the platform's makes a *)
(* one-off provider if _create_provider knows the name and its constructor *)
(* does not raise; a lookup that fails leaves the platform's.              *)
KeyFound(c) ==
  /\ st[c].pc = "keying"
  /\ \E owner \in {PlatformKey(st[c].name)}
                    \cup (IF st[c].name \in OneOff THEN {st[c].ask.user} ELSE {}) :
       Becomes(c, Provided(st[c], st[c].name, owner))
  /\ UNCHANGED <<providers, redis, cache>>

(* get_redis_client answers, raises (the sentinel), or finds no client.    *)
Connected(c) ==
  /\ st[c].pc = "connecting"
  /\ redis' \in {"none", "on", "off"}
  /\ Becomes(c, IF redis' = "on" THEN [st[c] EXCEPT !.pc = st[c].use]
                ELSE IF st[c].use = "getting" THEN Calling(st[c])
                ELSE Ended(st[c], st[c].answer))
  /\ UNCHANGED <<providers, cache>>

(* _cache_get: a hit ends the request, a miss or an error calls.           *)
CacheHit(c) ==
  LET key == CacheKey(st[c])
  IN /\ st[c].pc = "getting"
     /\ key \in DOMAIN cache
     /\ Becomes(c, Ended(st[c], [cache[key] EXCEPT !.cached = TRUE]))
     /\ UNCHANGED <<providers, redis, cache>>

CacheMiss(c) ==
  /\ st[c].pc = "getting"
  /\ Becomes(c, Calling(st[c]))
  /\ UNCHANGED <<providers, redis, cache>>

Store(s) == [k \in DOMAIN cache \cup {CacheKey(s)} |->
               IF k = CacheKey(s) THEN s.answer ELSE cache[k]]

(* _cache_set: setex, or an error that is only logged.                     *)
CacheSet(c) ==
  /\ st[c].pc = "setting"
  /\ cache' \in {cache, Store(st[c])}
  /\ Becomes(c, Ended(st[c], st[c].answer))
  /\ UNCHANGED <<providers, redis>>

(* setex's time to live is over.                                           *)
Expire(key) ==
  /\ key \in DOMAIN cache
  /\ cache' = [k \in DOMAIN cache \ {key} |-> cache[k]]
  /\ UNCHANGED <<providers, redis, st>>

-----------------------------------------------------------------------------
(* The provider answers, with content or without.  helix_native answers    *)
(* with a string, whose .content raises; see CallFails.                    *)
CallSucceeds(c, content) ==
  LET s == st[c]
      answer == Answer(s.name, s.owner, s.model, s.ask, content)
      t == [s EXCEPT !.answer = answer]
  IN /\ s.pc = "calling" /\ s.name # "helix_native"
     /\ Becomes(c, CASE s.chat /\ Cacheable(s) /\ content
                          -> ReachRedis(t, "setting", Ended(t, answer))
                     [] s.chat /\ s.ask.user # None -> [t EXCEPT !.pc = "tracking"]
                     [] OTHER -> Ended(t, answer))
     /\ UNCHANGED <<providers, redis, cache>>

(* retry_with_backoff calls again, for chat only.                          *)
Retry(c) ==
  /\ st[c].pc = "calling" /\ st[c].chat
  /\ st[c].attempt < Attempts
  /\ Becomes(c, [st[c] EXCEPT !.attempt = @ + 1])
  /\ UNCHANGED <<providers, redis, cache>>

(* track_usage charges the user, or fails and is ignored.                  *)
Track(c) ==
  /\ st[c].pc = "tracking"
  /\ \E charged \in {0, 1} :
       Becomes(c, [Ended(st[c], st[c].answer) EXCEPT !.charged = @ + charged])
  /\ UNCHANGED <<providers, redis, cache>>

FirstFallbackOnly(s) ==              \* mutant: only one other provider is tried
  {i \in DOMAIN providers : s.tried = 0 /\ providers[i] # Label(s.name)
                              /\ providers[i] \in Listed}
(* _try_fallbacks goes through the registry and compares its names with    *)
(* the failed provider's name attribute; a name that PROVIDER_REGISTRY     *)
(* lacks raises and is skipped.                                            *)
Fallbacks(s) ==
  {i \in DOMAIN providers : i > s.tried /\ providers[i] # Label(s.name)
                              /\ providers[i] \in Listed}

(* The next fallback is called with the platform's key, or none is left.   *)
FallBack(s) ==
  IF Fallbacks(s) = {} THEN Ended(s, Failure(s.name, s.model, s.ask))
  ELSE [s EXCEPT !.pc = "falling", !.tried = Min(Fallbacks(s)),
                 !.calls = Append(@, <<providers[Min(Fallbacks(s))], "platform">>)]

(* The call raised and is not retried; chat_with_tools has no fallbacks.   *)
CallFails(c) ==
  /\ st[c].pc = "calling"
  /\ Becomes(c, IF st[c].chat THEN FallBack(st[c])
                ELSE Ended(st[c], Failure(st[c].name, st[c].model, st[c].ask)))
  /\ UNCHANGED <<providers, redis, cache>>

(* The answer of a fallback is neither stored nor charged.                 *)
FallbackSucceeds(c, content) ==
  LET name == Last(st[c].calls)[1]
  IN /\ st[c].pc = "falling"
     /\ Becomes(c, Ended(st[c], Answer(name, "platform", Default(name), st[c].ask, content)))
     /\ UNCHANGED <<providers, redis, cache>>

FallbackFails(c) ==
  /\ st[c].pc = "falling"
  /\ Becomes(c, FallBack(st[c]))
  /\ UNCHANGED <<providers, redis, cache>>

-----------------------------------------------------------------------------
(* A token of stream() or chat_stream(); one stands for any number.        *)
Token(c) ==
  /\ st[c].pc = "streaming" /\ st[c].out = <<>>
  /\ Becomes(c, [st[c] EXCEPT !.out = <<"token">>])
  /\ UNCHANGED <<providers, redis, cache>>

StreamEnds(c) ==
  /\ st[c].pc = "streaming"
  /\ Becomes(c, [st[c] EXCEPT !.pc = "done"])
  /\ UNCHANGED <<providers, redis, cache>>

(* A stream that fails raises out of stream(); chat_stream() asks again,   *)
(* from the resolution of the provider on, without streaming.              *)
StreamFails(c) ==
  /\ st[c].pc = "streaming"
  /\ Becomes(c, IF st[c].ask.kind = "stream" THEN [st[c] EXCEPT !.pc = "done", !.raised = TRUE]
                ELSE Resolving([st[c] EXCEPT !.chat = TRUE]))
  /\ UNCHANGED <<providers, redis, cache>>

(* chat_gemini: the SDK, its key or its answer may be missing.             *)
GeminiAnswers(c) ==
  /\ st[c].pc = "gemini"
  /\ \E answer \in {Answer("google", "platform", "gemini", st[c].ask, TRUE),
                    Failure("google", "gemini", st[c].ask)} :
       Becomes(c, Ended(st[c], answer))
  /\ UNCHANGED <<providers, redis, cache>>

Step(c) == \/ \E ask \in Asks : Ask(c, ask)
           \/ KeyFound(c) \/ Connected(c) \/ CacheHit(c) \/ CacheMiss(c) \/ CacheSet(c)
           \/ \E content \in BOOLEAN : CallSucceeds(c, content) \/ FallbackSucceeds(c, content)
           \/ Retry(c) \/ Track(c) \/ CallFails(c) \/ FallbackFails(c)
           \/ Token(c) \/ StreamEnds(c) \/ StreamFails(c) \/ GeminiAnswers(c)

GatewayNext == \/ EnsureInit
               \/ \E c \in Callers : Step(c)
               \/ \E key \in DOMAIN cache : Expire(key)

GatewaySpec == GatewayInit /\ [][GatewayNext]_gatewayVars

-----------------------------------------------------------------------------
Done(c) == st[c].pc = "done"

(* What one request may read of another's answer, for all that is said     *)
(* about the providers: eight of them share one label, and so each other's *)
(* entries.                                                                *)
SharesEntries(m, n) == m = n \/ {m, n} \subseteq OpenAICompatible

(* The cache is shared only by what may share it: an entry holds a         *)
(* non-empty answer to the messages and the model it is filed under, got   *)
(* with the platform's key and never an error; only a cool request without *)
(* a user is answered from it, with an answer for its own messages and     *)
(* model.  The answer is that of the provider it would have called, or,    *)
(* when that is an OpenAIProvider object, of any of the eight: the comment *)
(* of lines 943-946 promises entries bound to the resolved provider, and   *)
(* the key holds only the name attribute of its class.                     *)
CacheIsScoped ==
  /\ \A key \in DOMAIN cache :
       LET r == cache[key]
       IN /\ key[2] = r.model /\ key[3] = r.text
          /\ r.owner = "platform" /\ r.content /\ ~r.error
  /\ \A c \in Callers :
       st[c].answer.cached =>
         /\ st[c].ask.user = None /\ st[c].ask.cool
         /\ st[c].answer.text = st[c].ask.text
         /\ st[c].answer.model = st[c].model
         /\ SharesEntries(st[c].answer.name, st[c].name)

(* A target whose failure is taken for openai's.                           *)
TakenForOpenAI == OpenAICompatible \ {"openai"}

(* chat() answers with an error only when there was no provider to ask, or *)
(* after its target and every listed provider have been called, and calls  *)
(* none of them twice, the others with the platform's key; except that the *)
(* failure of a target that goes by openai's label never tries openai, and *)
(* may call the target again as its own fallback (lines 1121-1123, which   *)
(* compare registry names with the label; the docstring says other         *)
(* available providers).  Any other answer is that of the last call, and   *)
(* only a user whose own target answered the first call is charged.        *)
AnswerIsAccounted ==
  \A c \in Callers : Done(c) /\ st[c].chat =>
    LET s == st[c]
        called == {s.calls[i][1] : i \in 1..Len(s.calls)}
        skipped == IF s.name \in TakenForOpenAI THEN {"openai"} ELSE {}
    IN /\ s.answer.error =>
            /\ ~s.answer.content
            /\ IF s.answer.name = None
               THEN s.calls = <<>> /\ s.owner = None
               ELSE {s.name} \cup ((Configured \cap Listed) \ skipped) \subseteq called
       /\ ~s.answer.error /\ ~s.answer.cached =>
            Last(s.calls) = <<s.answer.name, s.answer.owner>>
       /\ \A i \in 2..Len(s.calls) : s.calls[i][2] = "platform"
       /\ \A i, j \in 1..Len(s.calls) :
            s.calls[i][1] = s.calls[j][1] /\ i < j =>
              i = 1 /\ s.name \in TakenForOpenAI
       /\ s.charged > 0 => s.charged = 1 /\ Len(s.calls) = 1 /\ s.ask.user # None
=============================================================================
