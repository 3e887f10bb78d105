---------------------------- MODULE AdapterSurface ----------------------------
(***************************************************************************)
(* The calls that the adapters (adapters/) and the wrappers of witness.ts  *)
(* intercept, one family for each interceptor:                             *)
(*   provider, at   the adapter and the method it intercepts               *)
(*   gated          gateCheck comes first in strict mode                   *)
(*   enforced       the ChainEnforcer is asked first                       *)
(*   failures       a call that throws is recorded too                     *)
(*   streams        the answer is a stream, recorded when it is exhausted  *)
(*   mints          the procedures of the anchors of the record            *)
(*   refusals       the ends of an answer that are recorded as a refusal   *)
(* Hashes, latencies and the texts of prompts and answers are abstracted.  *)
(***************************************************************************)
EXTENDS Naturals

\* How an answer may end, by the reason the provider gives: none may be missing.
Ends == {"stop", "cut", "tool", "filter", "refusal", "none"}
Plain == {"stop", "cut", "tool"}

Whole(provider, methods, mints, refusals) ==
    {[provider |-> provider, at |-> m, gated |-> FALSE, enforced |-> FALSE,
      failures |-> FALSE, streams |-> FALSE, mints |-> mints, refusals |-> refusals] :
        m \in methods}

\* record() of an inference; AI-INF.1 stands for all its procedures.
Inferred == {"AI-INF.1"}

Gated(hooks) == {[h EXCEPT !.gated = TRUE] : h \in hooks}
Streamed(hooks) == {[h EXCEPT !.streams = TRUE] : h \in hooks}
Enforced(hooks) == {[h EXCEPT !.enforced = TRUE] : h \in hooks}
Failing(hooks) == {[h EXCEPT !.failures = TRUE] : h \in hooks}
Renamed(hooks, m) == {[h EXCEPT !.at = m] : h \in hooks}

---------------------------------------------------------------------------
(* The inference clients. *)
OpenAIRefusals == {"filter", "refusal"}
OpenAICalls(p) == Gated(Whole(p, {"chat.completions.create"}, Inferred, OpenAIRefusals))
OpenAIStreams(p) ==
    Streamed(Gated(Whole(p, {"chat.completions.create stream"}, Inferred, OpenAIRefusals)))
OpenAIHooks(p) == OpenAICalls(p) \cup OpenAIStreams(p)

\* Clients of the OpenAI kind, told apart by their class or address.
AzureHooks == OpenAIHooks("azure-openai")
VllmHooks == OpenAIHooks("vllm")
OllamaHooks == OpenAIHooks("ollama")
GroqHooks == OpenAIHooks("groq")
TogetherHooks == OpenAIHooks("together")
DeepSeekHooks == OpenAIHooks("deepseek")

AnthropicRefusals == Ends \ Plain
AnthropicCalls == Gated(Whole("anthropic", {"messages.create"}, Inferred, AnthropicRefusals))
AnthropicStreams ==
    Streamed(Gated(Whole("anthropic", {"messages.create stream", "messages.stream"},
                         Inferred, AnthropicRefusals)))

MistralRefusals == {"filter", "refusal"}
MistralCalls == Gated(Whole("mistral", {"chat.complete"}, Inferred, MistralRefusals))
MistralStreams ==
    Streamed(Gated(Whole("mistral", {"chat.stream"}, Inferred, MistralRefusals)))

\* A refusal is seen in a whole answer only.
CohereRefusals == Ends \ Plain
CohereCalls == Gated(Whole("cohere", {"chat"}, Inferred, CohereRefusals))
CohereStreams == Streamed(Gated(Whole("cohere", {"chatStream"}, Inferred, {})))

GraniteRefusals == {"filter", "refusal"}
GraniteCalls ==
    Gated(Whole("ibm-watsonx", {"generate"}, Inferred, GraniteRefusals)
          \cup Whole("ibm-watsonx", {"generateText"}, Inferred, {}))
GraniteStreams == Streamed(Gated(Whole("ibm-watsonx", {"generateTextStream"}, Inferred, {})))

\* send() of the two commands that are known; any other passes.
BedrockRefusals == {"filter"}
BedrockCalls ==
    Gated(Whole("bedrock", {"send Converse", "send InvokeModel"}, Inferred, BedrockRefusals))

StrandsCalls == Gated(Whole("aws-strands", {"invoke", "run"}, Inferred, {}))

---------------------------------------------------------------------------
(* Agents, policy engines and other tools: no gate. *)

\* The task state of an answer adds AI-A2A.1, and AI-A2A.3 if it names a context.
A2ATasks(mints) ==
    UNION {Whole("a2a", {"createTask", "getTask", "cancelTask"}, m, {}) :
              m \in {mints, mints \cup {"AI-A2A.1"}, mints \cup {"AI-A2A.1", "AI-A2A.3"}}}
A2AMessages ==
    UNION {Renamed(A2ATasks(Inferred), m) : m \in {"send", "handleMessage"}}

AgtCalls == Whole("microsoft-agt", {"evaluate", "assess"}, Inferred, {"filter"})
GuardrailCalls ==
    Whole("aws-bedrock-guardrails", {"applyGuardrail"}, {"AI-ACC.1"}, {"filter"})
\* Only the copy of a result is recorded, for whatever kernel was launched last.
CerebrasCalls == Whole("cerebras-wse3", {"memcpyD2H"}, Inferred, {})
CrewCalls == Whole("crewai", {"kickoff"}, Inferred, {})
FoundryCalls == Whole("microsoft-foundry", {"execute", "interceptToolCall"}, Inferred, {})
GoogleAdkCalls == Whole("google-adk", {"run"}, Inferred, {})
JevCalls ==
    Whole("jev", {"choice", "score"}, Inferred, {}) \cup Whole("jev", {"noul"}, Inferred, Ends)
LangGraphCalls ==
    Whole("langgraph", {"invoke"}, Inferred, {})
        \cup Streamed(Whole("langgraph", {"stream"}, Inferred, {}))
VercelCalls == Whole("vercel-ai", {"onFinish"}, Inferred, {"filter"})
QdrantCalls == Whole("qdrant", {"search", "query"}, {"AI-RAG.1", "AI-RAG.2"}, {})

(* wrapTool, wrapAccess and wrapVLA of witness.ts; hasRefusal is the failure. *)
ToolCalls == Failing(Enforced(Whole("tool", {"wrapTool"}, {"AI-TOOL.1"}, {})))
AccessCalls == Failing(Whole("access", {"wrapAccess"}, {"AI-ACC.1"}, {}))
\* AI-MOB.7 is passed to record() as the authorization, not as the procedure.
VlaCalls == Failing(Enforced(Whole("vla", {"wrapVLA"}, {"AI-TOOL.1"}, {})))

Interceptions ==
    UNION {OpenAIHooks("openai"), AzureHooks, VllmHooks, OllamaHooks, GroqHooks,
           TogetherHooks, DeepSeekHooks, AnthropicCalls, AnthropicStreams, MistralCalls,
           MistralStreams, CohereCalls, CohereStreams, GraniteCalls, GraniteStreams,
           BedrockCalls, StrandsCalls, A2ATasks({}), A2AMessages, AgtCalls,
           GuardrailCalls, CerebrasCalls, CrewCalls, FoundryCalls, GoogleAdkCalls,
           JevCalls, LangGraphCalls, VercelCalls, QdrantCalls, ToolCalls, AccessCalls,
           VlaCalls}

---------------------------------------------------------------------------
(***************************************************************************)
(* wrap(): which adapter a client gets, by the name of its class, the      *)
(* properties it has and its base URL, in this order.                      *)
(***************************************************************************)
HooksOf(client) ==
    CASE client.class = "Groq" -> GroqHooks
      [] client.class = "Together" -> TogetherHooks
      [] client.class \notin {"Groq", "Together"}
         /\ (client.class \in {"OpenAI", "AzureOpenAI"} \/ "chat" \in client.has) ->
            CASE client.url = "ollama" -> OllamaHooks
              [] client.url = "deepseek" -> DeepSeekHooks
              [] client.url = "azure" \/ client.class = "AzureOpenAI" -> AzureHooks
              [] client.url = "groq" -> GroqHooks
              [] client.url = "together" -> TogetherHooks
              [] OTHER -> OpenAIHooks("openai")
      [] "chat" \notin client.has
         /\ (client.class = "Anthropic" \/ "messages" \in client.has) ->
            AnthropicCalls \cup AnthropicStreams
      [] client.class = "BedrockRuntimeClient" \/ {"send", "config"} \subseteq client.has ->
            BedrockCalls
      [] "chat" \notin client.has
         /\ (client.class = "ModelInference" \/ {"generate", "model_id"} \subseteq client.has) ->
            GraniteCalls \cup GraniteStreams
      [] "chat" \notin client.has /\ client.class \in {"Mistral", "MistralClient"} ->
            MistralCalls \cup MistralStreams
      [] OTHER -> {}

\* The clients wrap() says it supports, as their libraries make them.
Client(class, has, url, methods) == [class |-> class, has |-> has, url |-> url, methods |-> methods]
Chat == {"chat.completions.create", "chat.completions.create stream"}
Clients ==
    {Client(c, {"chat"}, "", Chat) : c \in {"OpenAI", "AzureOpenAI", "Groq", "Together"}}
    \cup {Client("OpenAI", {"chat"}, url, Chat) :
            url \in {"ollama", "deepseek", "azure", "groq", "together"}}
    \cup {Client("Anthropic", {"messages"}, "",
                 {"messages.create", "messages.create stream", "messages.stream"}),
          Client("BedrockRuntimeClient", {"send", "config"}, "",
                 {"send Converse", "send InvokeModel"}),
          Client("ModelInference", {"generate", "model_id"}, "",
                 {"generate", "generateText", "generateTextStream"}),
          Client("Mistral", {"chat"}, "", {"chat.complete", "chat.stream"})}

\* What becomes of a call on a wrapped client that no interceptor knows.
Unseen(client, m) ==
    [provider |-> client.class, at |-> m, gated |-> FALSE, enforced |-> FALSE,
     failures |-> FALSE, streams |-> FALSE, mints |-> {}, refusals |-> {}]

Hook(client, m) ==
    IF \E h \in HooksOf(client) : h.at = m
    THEN CHOOSE h \in HooksOf(client) : h.at = m
    ELSE Unseen(client, m)

\* The calls on wrapped clients, as they are intercepted or not.
ClientCalls == UNION {{Hook(client, m) : m \in client.methods} : client \in Clients}
=============================================================================
