--------------------------- MODULE GuardedCallsProofs ---------------------------
(***************************************************************************)
(* Proofs about GuardedCalls, for every program: any number of overlapping *)
(* calls through any of the interceptions, any tools, rules and limits.    *)
(***************************************************************************)
EXTENDS GuardedCalls, FiniteSetTheorems, SequenceTheorems, WellFoundedInduction, TLAPS

-----------------------------------------------------------------------------
(* The surface: what every interception has in common. *)

Interception(W) ==
    [provider : W, at : W, gated : BOOLEAN, enforced : BOOLEAN, failures : BOOLEAN,
     streams : BOOLEAN, mints : SUBSET W, refusals : SUBSET W]

\* No call has both a gate and an enforcer, and no plain end is taken for a refusal.
Modest(h) ==
    /\ \E W : h \in Interception(W)
    /\ h.enforced => ~h.gated
    /\ h.refusals \cap Plain = {} \/ h.refusals = Ends

\* The same, and without an enforcer.
Free(hooks) == \A h \in hooks : Modest(h) /\ ~h.enforced

LEMMA WholeIsFree ==
    ASSUME NEW provider, NEW methods, NEW mints, NEW refusals,
           refusals \cap Plain = {} \/ refusals = Ends
    PROVE  Free(Whole(provider, methods, mints, refusals))
<1>1. SUFFICES ASSUME NEW m \in methods
               PROVE LET h == [provider |-> provider, at |-> m, gated |-> FALSE, enforced |-> FALSE,
                               failures |-> FALSE, streams |-> FALSE, mints |-> mints,
                               refusals |-> refusals]
                     IN  Modest(h) /\ ~h.enforced
  BY DEF Free, Whole
<1> DEFINE h == [provider |-> provider, at |-> m, gated |-> FALSE, enforced |-> FALSE,
                 failures |-> FALSE, streams |-> FALSE, mints |-> mints, refusals |-> refusals]
           W == {provider, m} \cup mints \cup refusals
<1>2. h \in Interception(W) /\ h.gated = FALSE /\ h.enforced = FALSE /\ h.refusals = refusals
  BY DEF Interception
<1> HIDE DEF h, W
<1>3. Modest(h) /\ ~h.enforced
  BY <1>2 DEF Modest
<1> QED
  BY <1>3 DEF h

LEMMA MarksAreFree ==
    ASSUME NEW S, Free(S)
    PROVE  Free(Gated(S)) /\ Free(Streamed(S)) /\ Free(Failing(S))
<1>1. \A W : \A g \in Interception(W) :
        LET h == [g EXCEPT !.gated = TRUE]
        IN  h \in Interception(W) /\ h.enforced = g.enforced /\ h.refusals = g.refusals
  BY DEF Interception
<1>2. \A W : \A g \in Interception(W) :
        LET h == [g EXCEPT !.streams = TRUE]
        IN  /\ h \in Interception(W) /\ h.gated = g.gated /\ h.enforced = g.enforced
            /\ h.refusals = g.refusals
  BY DEF Interception
<1>3. \A W : \A g \in Interception(W) :
        LET h == [g EXCEPT !.failures = TRUE]
        IN  /\ h \in Interception(W) /\ h.gated = g.gated /\ h.enforced = g.enforced
            /\ h.refusals = g.refusals
  BY DEF Interception
<1>4. SUFFICES ASSUME NEW g \in S
               PROVE  /\ Modest([g EXCEPT !.gated = TRUE]) /\ ~[g EXCEPT !.gated = TRUE].enforced
                      /\ Modest([g EXCEPT !.streams = TRUE]) /\ ~[g EXCEPT !.streams = TRUE].enforced
                      /\ Modest([g EXCEPT !.failures = TRUE]) /\ ~[g EXCEPT !.failures = TRUE].enforced
  BY Zenon DEF Free, Gated, Streamed, Failing
<1>5. Modest(g) /\ ~g.enforced
  BY DEF Free
<1>6. PICK W : g \in Interception(W)
  BY <1>5 DEF Modest
<1> DEFINE g1 == [g EXCEPT !.gated = TRUE]
           g2 == [g EXCEPT !.streams = TRUE]
           g3 == [g EXCEPT !.failures = TRUE]
<1>7. /\ g1 \in Interception(W) /\ g1.enforced = g.enforced /\ g1.refusals = g.refusals
      /\ g2 \in Interception(W) /\ g2.enforced = g.enforced /\ g2.refusals = g.refusals
      /\ g3 \in Interception(W) /\ g3.enforced = g.enforced /\ g3.refusals = g.refusals
  BY <1>1, <1>2, <1>3, <1>6, Zenon
<1> HIDE DEF g1, g2, g3
<1>8. Modest(g1) /\ ~g1.enforced /\ Modest(g2) /\ ~g2.enforced /\ Modest(g3) /\ ~g3.enforced
  BY <1>5, <1>7 DEF Modest
<1> QED
  BY <1>8 DEF g1, g2, g3

LEMMA FreeUnion == ASSUME NEW S, NEW T, Free(S), Free(T) PROVE Free(S \cup T)
BY DEF Free

LEMMA RefusalsAreNotPlain ==
    /\ {} \cap Plain = {} /\ {"filter"} \cap Plain = {} /\ {"filter", "refusal"} \cap Plain = {}
    /\ (Ends \ Plain) \cap Plain = {}
<1>1. "filter" \notin Plain /\ "refusal" \notin Plain
  BY DEF Plain
<1> QED
  BY <1>1, Zenon

LEMMA OpenAIIsFree == ASSUME NEW p PROVE Free(OpenAIHooks(p))
<1>1. Free(Whole(p, {"chat.completions.create"}, Inferred, OpenAIRefusals))
  BY WholeIsFree, RefusalsAreNotPlain DEF OpenAIRefusals
<1>2. Free(Whole(p, {"chat.completions.create stream"}, Inferred, OpenAIRefusals))
  BY WholeIsFree, RefusalsAreNotPlain DEF OpenAIRefusals
<1> QED
  BY <1>1, <1>2, MarksAreFree, FreeUnion DEF OpenAIHooks, OpenAICalls, OpenAIStreams

LEMMA ClientsAreFree ==
    /\ Free(AzureHooks) /\ Free(VllmHooks) /\ Free(OllamaHooks) /\ Free(GroqHooks)
    /\ Free(TogetherHooks) /\ Free(DeepSeekHooks) /\ Free(OpenAIHooks("openai"))
<1>1. \A p : Free(OpenAIHooks(p))
  BY OpenAIIsFree
<1> QED
  BY <1>1, Zenon DEF AzureHooks, VllmHooks, OllamaHooks, GroqHooks, TogetherHooks, DeepSeekHooks

LEMMA AnthropicIsFree == Free(AnthropicCalls) /\ Free(AnthropicStreams)
<1>1. Free(Whole("anthropic", {"messages.create"}, Inferred, AnthropicRefusals))
  BY WholeIsFree, RefusalsAreNotPlain DEF AnthropicRefusals
<1>2. Free(Whole("anthropic", {"messages.create stream", "messages.stream"}, Inferred,
                 AnthropicRefusals))
  BY WholeIsFree, RefusalsAreNotPlain DEF AnthropicRefusals
<1> QED
  BY <1>1, <1>2, MarksAreFree DEF AnthropicCalls, AnthropicStreams

LEMMA MistralIsFree == Free(MistralCalls) /\ Free(MistralStreams)
<1>1. Free(Whole("mistral", {"chat.complete"}, Inferred, MistralRefusals))
  BY WholeIsFree, RefusalsAreNotPlain DEF MistralRefusals
<1>2. Free(Whole("mistral", {"chat.stream"}, Inferred, MistralRefusals))
  BY WholeIsFree, RefusalsAreNotPlain DEF MistralRefusals
<1> QED
  BY <1>1, <1>2, MarksAreFree DEF MistralCalls, MistralStreams

LEMMA CohereIsFree == Free(CohereCalls) /\ Free(CohereStreams)
<1>1. Free(Whole("cohere", {"chat"}, Inferred, CohereRefusals))
  BY WholeIsFree, RefusalsAreNotPlain DEF CohereRefusals
<1>2. Free(Whole("cohere", {"chatStream"}, Inferred, {}))
  BY WholeIsFree, RefusalsAreNotPlain
<1> QED
  BY <1>1, <1>2, MarksAreFree DEF CohereCalls, CohereStreams

LEMMA GraniteIsFree == Free(GraniteCalls) /\ Free(GraniteStreams)
<1>1. Free(Whole("ibm-watsonx", {"generate"}, Inferred, GraniteRefusals))
  BY WholeIsFree, RefusalsAreNotPlain DEF GraniteRefusals
<1>2. Free(Whole("ibm-watsonx", {"generateText"}, Inferred, {}))
  BY WholeIsFree, RefusalsAreNotPlain
<1>3. Free(Whole("ibm-watsonx", {"generateTextStream"}, Inferred, {}))
  BY WholeIsFree, RefusalsAreNotPlain
<1> QED
  BY <1>1, <1>2, <1>3, MarksAreFree, FreeUnion DEF GraniteCalls, GraniteStreams

LEMMA AgentClientsAreFree == Free(BedrockCalls) /\ Free(StrandsCalls)
<1>1. Free(Whole("bedrock", {"send Converse", "send InvokeModel"}, Inferred, BedrockRefusals))
  BY WholeIsFree, RefusalsAreNotPlain DEF BedrockRefusals
<1>2. Free(Whole("aws-strands", {"invoke", "run"}, Inferred, {}))
  BY WholeIsFree, RefusalsAreNotPlain
<1> QED
  BY <1>1, <1>2, MarksAreFree DEF BedrockCalls, StrandsCalls

LEMMA TasksAreFree == ASSUME NEW mints PROVE Free(A2ATasks(mints))
<1>1. \A m \in {mints, mints \cup {"AI-A2A.1"}, mints \cup {"AI-A2A.1", "AI-A2A.3"}} :
        Free(Whole("a2a", {"createTask", "getTask", "cancelTask"}, m, {}))
  BY WholeIsFree, RefusalsAreNotPlain
<1> QED
  BY <1>1 DEF A2ATasks, Free

LEMMA RenamedIsFree ==
    ASSUME NEW g, Modest(g), ~g.enforced, NEW m
    PROVE  Modest([g EXCEPT !.at = m]) /\ ~[g EXCEPT !.at = m].enforced
<1>1. PICK W : g \in Interception(W)
  BY DEF Modest
<1> DEFINE h == [g EXCEPT !.at = m]
<1>2. /\ h \in Interception(W \cup {m}) /\ h.gated = g.gated /\ h.enforced = g.enforced
      /\ h.refusals = g.refusals
  BY <1>1 DEF Interception
<1> HIDE DEF h
<1>3. Modest(h) /\ ~h.enforced
  BY <1>2 DEF Modest
<1> QED
  BY <1>3 DEF h

LEMMA MessagesAreFree == Free(A2AMessages)
<1>1. Free(A2ATasks(Inferred))
  BY TasksAreFree
<1>2. \A m : Free(Renamed(A2ATasks(Inferred), m))
  BY <1>1, RenamedIsFree, Zenon DEF Free, Renamed
<1> QED
  BY <1>2 DEF A2AMessages, Free

LEMMA ToolsAreFree ==
    /\ Free(AgtCalls) /\ Free(GuardrailCalls) /\ Free(CerebrasCalls) /\ Free(CrewCalls)
    /\ Free(FoundryCalls) /\ Free(GoogleAdkCalls) /\ Free(VercelCalls) /\ Free(QdrantCalls)
    /\ Free(AccessCalls)
<1>1. Free(AgtCalls) /\ Free(GuardrailCalls) /\ Free(CerebrasCalls) /\ Free(CrewCalls)
  BY WholeIsFree, RefusalsAreNotPlain DEF AgtCalls, GuardrailCalls, CerebrasCalls, CrewCalls
<1>2. Free(FoundryCalls) /\ Free(GoogleAdkCalls) /\ Free(VercelCalls) /\ Free(QdrantCalls)
  BY WholeIsFree, RefusalsAreNotPlain DEF FoundryCalls, GoogleAdkCalls, VercelCalls, QdrantCalls
<1>3. Free(Whole("access", {"wrapAccess"}, {"AI-ACC.1"}, {}))
  BY WholeIsFree, RefusalsAreNotPlain
<1> QED
  BY <1>1, <1>2, <1>3, MarksAreFree DEF AccessCalls

LEMMA OthersAreFree == Free(JevCalls) /\ Free(LangGraphCalls)
<1>1. Free(Whole("jev", {"choice", "score"}, Inferred, {})) /\ Free(Whole("jev", {"noul"}, Inferred, Ends))
  BY WholeIsFree, RefusalsAreNotPlain
<1>2. Free(Whole("langgraph", {"invoke"}, Inferred, {})) /\ Free(Whole("langgraph", {"stream"}, Inferred, {}))
  BY WholeIsFree, RefusalsAreNotPlain
<1> QED
  BY <1>1, <1>2, MarksAreFree, FreeUnion DEF JevCalls, LangGraphCalls

\* A tool has an enforcer and no gate.
LEMMA EnforcedIsModest ==
    ASSUME NEW provider, NEW methods, NEW mints
    PROVE  \A h \in Failing(Enforced(Whole(provider, methods, mints, {}))) : Modest(h)
<1> DEFINE S == Whole(provider, methods, mints, {})
           Bare(g) == (\E W : g \in Interception(W)) /\ ~g.gated /\ g.refusals = {}
<1>1. ASSUME NEW m \in methods
      PROVE  Bare([provider |-> provider, at |-> m, gated |-> FALSE, enforced |-> FALSE,
                   failures |-> FALSE, streams |-> FALSE, mints |-> mints, refusals |-> {}])
  <2> DEFINE h == [provider |-> provider, at |-> m, gated |-> FALSE, enforced |-> FALSE,
                   failures |-> FALSE, streams |-> FALSE, mints |-> mints, refusals |-> {}]
             W == {provider, m} \cup mints
  <2>1. h \in Interception(W) /\ h.gated = FALSE /\ h.refusals = {}
    BY DEF Interception
  <2> HIDE DEF h, W
  <2>2. Bare(h)
    BY <2>1
  <2> QED
    BY <2>2 DEF h
<1>2. \A g \in S : Bare(g)
  <2> HIDE DEF Bare
  <2> QED
    BY <1>1 DEF Whole
<1> HIDE DEF S
<1>3. \A W : \A g \in Interception(W) :
        LET h == [g EXCEPT !.enforced = TRUE]
        IN  h \in Interception(W) /\ h.gated = g.gated /\ h.refusals = g.refusals
  BY DEF Interception
<1>4. \A W : \A g \in Interception(W) :
        LET h == [g EXCEPT !.failures = TRUE]
        IN  h \in Interception(W) /\ h.gated = g.gated /\ h.refusals = g.refusals
  BY DEF Interception
<1>5. \A g : Bare(g) => Bare([g EXCEPT !.enforced = TRUE]) /\ Bare([g EXCEPT !.failures = TRUE])
  BY <1>3, <1>4, Zenon
<1>6. \A g : Bare(g) => Modest(g)
  BY DEF Modest
<1> HIDE DEF Bare
<1>7. \A g \in Enforced(S) : Bare(g)
  BY <1>2, <1>5, Zenon DEF Enforced
<1>8. \A g \in Failing(Enforced(S)) : Bare(g)
  BY <1>5, <1>7, Zenon DEF Failing
<1> QED
  BY <1>6, <1>8 DEF S

LEMMA InterceptionsAreModest == \A h \in Interceptions : Modest(h)
<1>1. \A h \in ToolCalls \cup VlaCalls : Modest(h)
  BY EnforcedIsModest DEF ToolCalls, VlaCalls
<1>2. Free(A2ATasks({}))
  BY TasksAreFree
<1> QED
  BY <1>1, <1>2, ClientsAreFree, AnthropicIsFree, MistralIsFree, CohereIsFree, GraniteIsFree,
     AgentClientsAreFree, MessagesAreFree, ToolsAreFree, OthersAreFree
     DEF Interceptions, Free

LEMMA UnseenIsModest == ASSUME NEW client, NEW m PROVE Modest(Unseen(client, m)) /\ ~Unseen(client, m).enforced
<1> DEFINE h == Unseen(client, m)
           W == {client.class, m}
<1>1. h \in Interception(W) /\ h.gated = FALSE /\ h.enforced = FALSE /\ h.refusals = {}
  BY DEF Interception, Unseen
<1> HIDE DEF h, W
<1>2. Modest(h) /\ ~h.enforced
  BY <1>1 DEF Modest
<1> QED
  BY <1>2 DEF h

LEMMA HooksOfIsFree == ASSUME NEW client PROVE Free(HooksOf(client))
<1>1. Free({})
  BY DEF Free
<1>2. Free(AnthropicCalls \cup AnthropicStreams) /\ Free(GraniteCalls \cup GraniteStreams)
      /\ Free(MistralCalls \cup MistralStreams)
  BY AnthropicIsFree, GraniteIsFree, MistralIsFree, FreeUnion
<1> QED
  BY <1>1, <1>2, ClientsAreFree, AgentClientsAreFree DEF HooksOf

LEMMA ClientCallsAreModest == \A h \in ClientCalls : Modest(h)
<1> SUFFICES ASSUME NEW client \in Clients, NEW m \in client.methods PROVE Modest(Hook(client, m))
  BY Zenon DEF ClientCalls
<1> QED
  BY HooksOfIsFree, UnseenIsModest DEF Hook, Free

-----------------------------------------------------------------------------
(* RecordedOnce: what the log has of a call follows from the call. *)

Hooks == Interceptions \cup ClientCalls \cup {NoHook}

Call == [phase : Phases, hook : Hooks, tool : Tools \cup {NoTool},
         verdict : {"run", "logged", "blocked"}, plain : BOOLEAN]

Entries == [kind : {"gate", "violation", "call"},
            procs : {h.mints : h \in Hooks} \cup {{"AI-GRD.3"}, {"AI-TOOL.1"}}, refusal : BOOLEAN]

\* Before the call runs, and after it.
Begun(call) ==
    IF strict /\ call.hook.gated THEN <<Entry("gate", {"AI-GRD.3"}, ~guarded)>>
    ELSE IF call.verdict = "logged" THEN <<Entry("violation", {"AI-TOOL.1"}, TRUE)>>
    ELSE <<>>

IsTold(call) ==
    \/ call.phase = "returned" /\ call.hook.mints # {}
    \/ call.phase = "threw" /\ call.hook.failures

Told(call, refusal) ==
    IF IsTold(call) THEN <<Entry("call", call.hook.mints, refusal)>> ELSE <<>>

Excused(call) == call.phase = "threw" \/ ~call.plain \/ Abstains(call.hook)

True(call, entries) ==
    /\ call.phase = "idle" => call = Idle
    /\ strict /\ call.hook.gated => guarded \/ call.phase = "refused"
    /\ \E refusal \in BOOLEAN :
        /\ entries = Begun(call) \o Told(call, refusal)
        /\ refusal => Excused(call)

CallsTold ==
    /\ strict \in BOOLEAN /\ guarded \in BOOLEAN
    /\ calls \in [Calls -> Call]
    /\ log \in [Calls -> Seq(Entries)]
    /\ \A c \in Calls : True(calls[c], log[c])

LEMMA HooksAreModest == \A h \in Hooks : Modest(h)
<1>1. Modest(NoHook)
  BY UnseenIsModest DEF NoHook
<1> QED
  BY <1>1, InterceptionsAreModest, ClientCallsAreModest DEF Hooks

LEMMA CallsHaveHooks == ASSUME NEW c \in Calls, NEW h \in HooksOfCall[c] PROVE h \in Hooks
BY HooksAssumption DEF Hooks

LEMMA PairJoined == ASSUME NEW e, NEW f PROVE <<e>> \o <<f>> = <<e, f>>
<1> DEFINE S == {e, f}
           a == <<e>>
           b == <<f>>
           c == <<e, f>>
<1>1. /\ e \in S /\ f \in S
      /\ a \in Seq(S) /\ b \in Seq(S) /\ c \in Seq(S) /\ Len(a) = 1 /\ Len(b) = 1 /\ Len(c) = 2
      /\ a[1] = e /\ b[1] = f /\ c[1] = e /\ c[2] = f
  OBVIOUS
<1> HIDE DEF S, a, b, c
<1>2. a \o b \in Seq(S) /\ Len(a \o b) = 2 /\ (a \o b)[1] = e /\ (a \o b)[2] = f
  BY <1>1, SMTT(30)
<1>3. a \o b = c
  BY <1>1, <1>2, SeqEqual
<1> QED
  BY <1>3 DEF a, b, c

\* The kinds of at most one entry before and one after.
KindsOf(s) == [i \in DOMAIN s |-> s[i].kind]

AtMost(s, e) == s = <<e>> \/ s = <<>>
KindOf(s, e) == IF s = <<>> THEN <<>> ELSE <<e.kind>>
FromBoth(s, e, t, f) ==
    \A i \in DOMAIN (s \o t) : (s # <<>> /\ (s \o t)[i] = e) \/ (t # <<>> /\ (s \o t)[i] = f)

LEMMA KindsOfBoth ==
    ASSUME NEW e, NEW f, NEW s, NEW t, AtMost(s, e), AtMost(t, f)
    PROVE  KindsOf(s \o t) = KindOf(s, e) \o KindOf(t, f) /\ FromBoth(s, e, t, f)
<1>0. <<e>> # <<>> /\ <<f>> # <<>>
  OBVIOUS
<1>1. CASE s = <<e>> /\ t = <<f>>
  <2>1. s \o t = <<e, f>> /\ <<e.kind>> \o <<f.kind>> = <<e.kind, f.kind>>
    BY <1>1, PairJoined
  <2>2. [i \in DOMAIN <<e, f>> |-> <<e, f>>[i].kind] = <<e.kind, f.kind>>
    OBVIOUS
  <2>3. \A i \in DOMAIN <<e, f>> : <<e, f>>[i] = e \/ <<e, f>>[i] = f
    OBVIOUS
  <2> QED
    BY <1>0, <1>1, <2>1, <2>2, <2>3, Zenon DEF KindsOf, KindOf, FromBoth
<1>2. CASE s = <<e>> /\ t = <<>>
  <2>1. s \o t = <<e>> /\ <<e.kind>> \o <<>> = <<e.kind>>
    BY <1>2
  <2>2. [i \in DOMAIN <<e>> |-> <<e>>[i].kind] = <<e.kind>> /\ \A i \in DOMAIN <<e>> : <<e>>[i] = e
    OBVIOUS
  <2> QED
    BY <1>0, <1>2, <2>1, <2>2, Zenon DEF KindsOf, KindOf, FromBoth
<1>3. CASE s = <<>> /\ t = <<f>>
  <2>1. s \o t = <<f>> /\ <<>> \o <<f.kind>> = <<f.kind>>
    BY <1>3
  <2>2. [i \in DOMAIN <<f>> |-> <<f>>[i].kind] = <<f.kind>> /\ \A i \in DOMAIN <<f>> : <<f>>[i] = f
    OBVIOUS
  <2> QED
    BY <1>0, <1>3, <2>1, <2>2, Zenon DEF KindsOf, KindOf, FromBoth
<1>4. CASE s = <<>> /\ t = <<>>
  <2>1. s \o t = <<>> /\ <<>> \o <<>> = <<>> /\ DOMAIN <<>> = {}
    BY <1>4
  <2>2. KindsOf(<<>>) = <<>>
    BY DEF KindsOf
  <2> QED
    BY <1>4, <2>1, <2>2, Zenon DEF KindOf, FromBoth
<1> QED
  BY <1>1, <1>2, <1>3, <1>4 DEF AtMost

\* What is true of the calls is RecordedOnce.
LEMMA ToldOnce == ASSUME CallsTold PROVE RecordedOnce
<1> SUFFICES ASSUME NEW c \in Calls
             PROVE  LET call == calls[c]
                        begun == IF strict /\ call.hook.gated THEN <<"gate">>
                                 ELSE IF call.verdict = "logged" THEN <<"violation">> ELSE <<>>
                        told == \/ call.phase = "returned" /\ call.hook.mints # {}
                                \/ call.phase = "threw" /\ call.hook.failures
                        untold == call.phase \in {"idle", "refused", "blocked", "running",
                                                  "streaming"}
                    IN  /\ Kinds(c) \in {begun, begun \o <<"call">>}
                        /\ told => Kinds(c) = begun \o <<"call">>
                        /\ untold => Kinds(c) = begun
                        /\ \A i \in DOMAIN log[c] :
                            log[c][i].refusal =>
                                \/ log[c][i].kind = "violation" \/ call.phase \in {"threw", "refused"}
                                \/ log[c][i].kind = "call" /\ (~call.plain \/ Abstains(call.hook))
  BY Zenon DEF RecordedOnce
<1> DEFINE call == calls[c]
           gate == strict /\ call.hook.gated
           g == Entry("gate", {"AI-GRD.3"}, ~guarded)
           v == Entry("violation", {"AI-TOOL.1"}, TRUE)
           e == IF gate THEN g ELSE v
           begun == IF gate THEN <<"gate">> ELSE IF call.verdict = "logged" THEN <<"violation">> ELSE <<>>
<1>1. PICK refusal \in BOOLEAN : log[c] = Begun(call) \o Told(call, refusal) /\ (refusal => Excused(call))
  BY DEF CallsTold, True
<1> DEFINE f == Entry("call", call.hook.mints, refusal)
           s == Begun(call)
           t == Told(call, refusal)
<1>2. g.kind = "gate" /\ g.refusal = ~guarded /\ v.kind = "violation" /\ f.kind = "call" /\ f.refusal = refusal
  BY DEF Entry
<1> HIDE DEF g, v, f
<1>3. /\ gate => s = <<g>>
      /\ ~gate => s = (IF call.verdict = "logged" THEN <<v>> ELSE <<>>)
      /\ t = IF IsTold(call) THEN <<f>> ELSE <<>>
  BY DEF Begun, Told, g, v, f
<1>4. gate => guarded \/ call.phase = "refused"
  BY DEF CallsTold, True
<1> HIDE DEF s, t, call, gate
<1>5. (s = <<e>> \/ s = <<>>) /\ (t = <<f>> \/ t = <<>>)
  BY <1>3
<1>6. (s = <<>> <=> begun = <<>>) /\ (t = <<>> <=> ~IsTold(call)) /\ (s # <<>> => begun = <<e.kind>>)
  BY <1>2, <1>3
<1> HIDE DEF e
<1>7. /\ KindsOf(log[c]) = (IF s = <<>> THEN <<>> ELSE <<e.kind>>) \o (IF t = <<>> THEN <<>> ELSE <<f.kind>>)
      /\ \A i \in DOMAIN log[c] : (s # <<>> /\ log[c][i] = e) \/ (t # <<>> /\ log[c][i] = f)
  <2>1. log[c] = s \o t
    BY <1>1 DEF s, t, call
  <2>2. KindsOf(s \o t) = KindOf(s, e) \o KindOf(t, f) /\ FromBoth(s, e, t, f)
    BY <1>5, KindsOfBoth, Zenon DEF AtMost
  <2> QED
    BY <2>1, <2>2, Zenon DEF KindOf, FromBoth
<1>a. begun \in {<<>>, <<"gate">>, <<"violation">>}
  OBVIOUS
<1> HIDE DEF begun
<1>b. begun \o <<>> = begun
  BY <1>a
<1>8. /\ IsTold(call) => KindsOf(log[c]) = begun \o <<"call">>
      /\ ~IsTold(call) => KindsOf(log[c]) = begun
  BY <1>2, <1>6, <1>7, <1>b
<1>c. call.phase \in {"idle", "refused", "blocked", "running", "streaming"} => ~IsTold(call)
  BY DEF IsTold
<1>9. ASSUME NEW i \in DOMAIN log[c], log[c][i].refusal
      PROVE  \/ log[c][i].kind = "violation" \/ call.phase \in {"threw", "refused"}
             \/ log[c][i].kind = "call" /\ (~call.plain \/ Abstains(call.hook))
  <2>1. CASE log[c][i] = f
    BY <1>1, <1>2, <1>9, <2>1 DEF Excused, call
  <2>2. CASE log[c][i] = e
    BY <1>2, <1>4, <1>9, <2>2 DEF e
  <2> QED
    BY <1>7, <2>1, <2>2
<1>d. /\ KindsOf(log[c]) \in {begun, begun \o <<"call">>}
      /\ IsTold(call) => KindsOf(log[c]) = begun \o <<"call">>
      /\ call.phase \in {"idle", "refused", "blocked", "running", "streaming"} =>
            KindsOf(log[c]) = begun
  BY <1>8, <1>c, Zenon
<1> QED
  BY <1>9, <1>d, Zenon DEF Kinds, KindsOf, IsTold, call, gate, begun

LEMMA EntriesMade ==
    /\ \A r \in BOOLEAN : /\ Entry("gate", {"AI-GRD.3"}, r) \in Entries
                          /\ Entry("violation", {"AI-TOOL.1"}, r) \in Entries
    /\ \A h \in Hooks, r \in BOOLEAN : Entry("call", h.mints, r) \in Entries
BY DEF Entry, Entries

LEMMA InitTold == Init => CallsTold
<1> SUFFICES ASSUME Init PROVE CallsTold
  OBVIOUS
<1>1. NoHook \in Hooks /\ NoHook.gated = FALSE /\ NoHook.enforced = FALSE
  BY DEF Hooks, NoHook, Unseen
<1>2. Idle \in Call /\ Idle.phase = "idle" /\ Idle.hook = NoHook /\ Idle.verdict = "run"
  BY <1>1 DEF Idle, Call, Phases
<1>3. Begun(Idle) = <<>> /\ Told(Idle, FALSE) = <<>>
  BY <1>1, <1>2 DEF Begun, Told, IsTold
<1>4. True(Idle, <<>>)
  <2>0. <<>> \o <<>> = <<>>
    OBVIOUS
  <2>1. <<>> = Begun(Idle) \o Told(Idle, FALSE)
    BY <1>3, <2>0, Zenon
  <2> QED
    BY <1>1, <1>2, <2>1 DEF True
<1>5. strict \in BOOLEAN /\ guarded \in BOOLEAN
  BY DEF Init
<1>6. <<>> \in Seq(Entries)
  OBVIOUS
<1> QED
  BY <1>2, <1>4, <1>5, <1>6, Zenon DEF Init, CallsTold

\* One call and its log change, the others do not.
LEMMA OneCallTold ==
    ASSUME CallsTold, NEW c \in Calls, NEW call \in Call, NEW entries \in Seq(Entries),
           True(call, log[c] \o entries), UNCHANGED <<strict, guarded>>,
           calls' = [calls EXCEPT ![c] = call], log' = [log EXCEPT ![c] = log[c] \o entries]
    PROVE  CallsTold'
<1>1. log[c] \o entries \in Seq(Entries)
  BY DEF CallsTold
<1>2. calls' \in [Calls -> Call] /\ log' \in [Calls -> Seq(Entries)]
  BY <1>1 DEF CallsTold
<1>3. strict' \in BOOLEAN /\ guarded' \in BOOLEAN
  BY DEF CallsTold
<1>4. ASSUME NEW d \in Calls
      PROVE  True(calls[d], log[d])'
  <2>1. CASE d = c
    <3>1. calls'[d] = call /\ log'[d] = log[c] \o entries
      BY <2>1 DEF CallsTold
    <3> QED
      BY <3>1 DEF True, Begun, Told, IsTold, Excused
  <2>2. CASE d # c
    <3>1. calls'[d] = calls[d] /\ log'[d] = log[d]
      BY <2>2 DEF CallsTold
    <3>2. True(calls[d], log[d])
      BY DEF CallsTold
    <3> QED
      BY <3>1, <3>2 DEF True, Begun, Told, IsTold, Excused
  <2> QED
    BY <2>1, <2>2
<1> QED
  BY <1>2, <1>3, <1>4 DEF CallsTold

LEMMA IdleLog ==
    ASSUME CallsTold, NEW c \in Calls, calls[c].phase = "idle"
    PROVE  calls[c] = Idle /\ log[c] = <<>> /\ calls[c].verdict = "run"
<1>1. calls[c] = Idle /\ Idle.verdict = "run" /\ Idle.hook = NoHook /\ NoHook.gated = FALSE
  BY DEF CallsTold, True, Idle, NoHook, Unseen
<1>2. PICK r \in BOOLEAN : log[c] = Begun(calls[c]) \o Told(calls[c], r)
  BY DEF CallsTold, True
<1>3. Begun(calls[c]) = <<>> /\ Told(calls[c], r) = <<>>
  BY <1>1 DEF Begun, Told, IsTold
<1> QED
  BY <1>1, <1>2, <1>3

LEMMA RunningLog ==
    ASSUME CallsTold, NEW c \in Calls, calls[c].phase \in {"running", "streaming"}
    PROVE  /\ log[c] = Begun(calls[c]) /\ Begun(calls[c]) \in Seq(Entries)
           /\ strict /\ calls[c].hook.gated => guarded
<1>1. PICK r \in BOOLEAN : log[c] = Begun(calls[c]) \o Told(calls[c], r)
  BY DEF CallsTold, True
<1>2. Told(calls[c], r) = <<>>
  BY DEF Told, IsTold
<1>3. Begun(calls[c]) \in Seq(Entries)
  <2> DEFINE g == Entry("gate", {"AI-GRD.3"}, ~guarded)
             v == Entry("violation", {"AI-TOOL.1"}, TRUE)
  <2>1. g \in Entries /\ v \in Entries
    <3>1. (~guarded) \in BOOLEAN
      BY Zenon
    <3> QED
      BY <3>1, EntriesMade, Zenon
  <2> HIDE DEF g, v
  <2>2. <<g>> \in Seq(Entries) /\ <<v>> \in Seq(Entries) /\ <<>> \in Seq(Entries)
    BY <2>1
  <2>3. Begun(calls[c]) = <<g>> \/ Begun(calls[c]) = <<v>> \/ Begun(calls[c]) = <<>>
    BY Zenon DEF Begun, g, v
  <2> QED
    BY <2>2, <2>3, Zenon
<1>4. log[c] = Begun(calls[c])
  BY <1>1, <1>2, <1>3
<1>5. strict /\ calls[c].hook.gated => guarded
  BY DEF CallsTold, True
<1> QED
  BY <1>3, <1>4, <1>5

\* A call that runs or streams goes on to another phase, with what it tells then.
LEMMA GoesOn ==
    ASSUME CallsTold, NEW c \in Calls, calls[c].phase \in {"running", "streaming"},
           NEW phase \in Phases, phase # "idle", NEW plain \in BOOLEAN, NEW refusal \in BOOLEAN,
           UNCHANGED <<strict, guarded>>,
           calls' = [calls EXCEPT ![c] = [calls[c] EXCEPT !.phase = phase, !.plain = plain]],
           refusal => phase = "threw" \/ ~plain \/ Abstains(calls[c].hook),
           log' = [log EXCEPT ![c] = log[c] \o
                     Told([calls[c] EXCEPT !.phase = phase, !.plain = plain], refusal)]
    PROVE  CallsTold'
<1> DEFINE old == calls[c]
           new == [calls[c] EXCEPT !.phase = phase, !.plain = plain]
           told == Told(new, refusal)
<1>1. old \in Call
  BY DEF CallsTold
<1>2. /\ new \in Call /\ new.phase = phase /\ new.plain = plain /\ new.hook = old.hook
      /\ new.verdict = old.verdict
  BY <1>1 DEF Call
<1> HIDE DEF new
<1>3. Begun(new) = Begun(old)
  BY <1>2 DEF Begun
<1>4. told \in Seq(Entries)
  <2>1. Entry("call", new.hook.mints, refusal) \in Entries
    BY <1>2, EntriesMade DEF Call
  <2> QED
    BY <2>1 DEF Told
<1> HIDE DEF told
<1>5. True(new, log[c] \o told)
  <2>1. log[c] \o told = Begun(new) \o Told(new, refusal)
    BY <1>3, RunningLog DEF told
  <2>2. refusal => Excused(new)
    BY <1>2 DEF Excused
  <2>3. strict /\ new.hook.gated => guarded
    BY <1>2, RunningLog
  <2> QED
    BY <1>2, <2>1, <2>2, <2>3 DEF True
<1>6. calls' = [calls EXCEPT ![c] = new] /\ log' = [log EXCEPT ![c] = log[c] \o told]
  BY DEF new, told
<1> QED
  BY <1>2, <1>4, <1>5, <1>6, OneCallTold

\* The edits of a call are the call edited.
LEMMA CallEdited ==
    ASSUME CallsTold, NEW c \in Calls, NEW phase \in Phases, NEW plain \in BOOLEAN, NEW hook \in Hooks
    PROVE  /\ [calls EXCEPT ![c].phase = phase, ![c].plain = plain]
                = [calls EXCEPT ![c] = [calls[c] EXCEPT !.phase = phase, !.plain = plain]]
           /\ [calls EXCEPT ![c].phase = phase]
                = [calls EXCEPT ![c] = [calls[c] EXCEPT !.phase = phase, !.plain = calls[c].plain]]
           /\ [calls EXCEPT ![c].hook = hook, ![c].phase = phase]
                = [calls EXCEPT ![c] = [calls[c] EXCEPT !.hook = hook, !.phase = phase]]
<1>1. calls \in [Calls -> Call]
  BY DEF CallsTold
<1>2. [calls EXCEPT ![c].phase = phase, ![c].plain = plain]
                = [calls EXCEPT ![c] = [calls[c] EXCEPT !.phase = phase, !.plain = plain]]
  BY <1>1 DEF Call
<1>3. [calls EXCEPT ![c].phase = phase]
                = [calls EXCEPT ![c] = [calls[c] EXCEPT !.phase = phase, !.plain = calls[c].plain]]
  BY <1>1 DEF Call
<1>4. [calls EXCEPT ![c].hook = hook, ![c].phase = phase]
                = [calls EXCEPT ![c] = [calls[c] EXCEPT !.hook = hook, !.phase = phase]]
  BY <1>1 DEF Call
<1> QED
  BY <1>2, <1>3, <1>4

\* An answer that is taken for a refusal is no plain one, or any is.
LEMMA RefusalsExcused ==
    ASSUME NEW hook \in Hooks, NEW end, end \in hook.refusals, end \in Plain
    PROVE  Abstains(hook)
BY HooksAreModest DEF Modest, Abstains

LEMMA AnsweredTold ==
    ASSUME CallsTold, NEW c \in Calls, NEW end, calls[c].phase \in {"running", "streaming"},
           UNCHANGED <<strict, guarded>>, Write(c, Recorded(c, end)),
           calls' = [calls EXCEPT ![c].phase = "returned", ![c].plain = end \in Plain]
    PROVE  CallsTold'
<1> DEFINE plain == end \in Plain
           refusal == end \in calls[c].hook.refusals
           new == [calls[c] EXCEPT !.phase = "returned", !.plain = plain]
<1>1. calls[c] \in Call /\ calls[c].hook \in Hooks
  BY DEF CallsTold, Call
<1>2. plain \in BOOLEAN /\ refusal \in BOOLEAN /\ "returned" \in Phases
  <2>1. (end \in Plain) \in BOOLEAN /\ (end \in calls[c].hook.refusals) \in BOOLEAN
    OBVIOUS
  <2>2. "returned" \in Phases
    BY DEF Phases
  <2> QED
    BY <2>1, <2>2, Zenon
<1>3. refusal => ~plain \/ Abstains(calls[c].hook)
  BY <1>1, RefusalsExcused
<1> HIDE DEF plain, refusal
<1>4. new.phase = "returned" /\ new.hook = calls[c].hook
  BY <1>1, <1>2 DEF Call
<1> HIDE DEF new
<1>5. Recorded(c, end) = Told(new, refusal)
  BY <1>4 DEF Recorded, Told, IsTold, refusal
<1>6. log' = [log EXCEPT ![c] = log[c] \o Told(new, refusal)]
  BY <1>5 DEF Write
<1>7. calls' = [calls EXCEPT ![c] = [calls[c] EXCEPT !.phase = "returned", !.plain = plain]]
  BY <1>1, <1>2, CallEdited, ZenonT(40) DEF plain
<1> QED
  BY <1>2, <1>3, <1>6, <1>7, GoesOn DEF new

LEMMA UntoldGoesOn ==
    ASSUME CallsTold, NEW c \in Calls, calls[c].phase \in {"running", "streaming"},
           NEW phase \in {"broken", "streaming", "lost"},
           UNCHANGED <<strict, guarded, log>>, Become(c, phase)
    PROVE  CallsTold'
<1> DEFINE plain == calls[c].plain
           new == [calls[c] EXCEPT !.phase = phase, !.plain = plain]
<1>1. calls[c] \in Call /\ plain \in BOOLEAN /\ calls[c].hook \in Hooks /\ phase \in Phases
  BY DEF CallsTold, Call, Phases
<1> HIDE DEF plain
<1>2. new.phase = phase
  BY <1>1 DEF Call
<1> HIDE DEF new
<1>3. Told(new, FALSE) = <<>>
  BY <1>2 DEF Told, IsTold
<1>4. log' = [log EXCEPT ![c] = log[c] \o Told(new, FALSE)]
  <2>1. log \in [Calls -> Seq(Entries)] /\ log' = log
    BY DEF CallsTold
  <2>2. log[c] \o <<>> = log[c]
    BY <2>1
  <2>3. log[c] \o Told(new, FALSE) = log[c]
    BY <1>3, <2>2, Zenon
  <2> QED
    BY <2>1, <2>3
<1>5. calls' = [calls EXCEPT ![c] = [calls[c] EXCEPT !.phase = phase, !.plain = plain]]
  BY <1>1, CallEdited DEF plain, Become
<1> QED
  BY <1>1, <1>4, <1>5, GoesOn DEF new

LEMMA ThrowTold == ASSUME CallsTold, NEW c \in Calls, Throw(c) PROVE CallsTold'
<1> DEFINE plain == calls[c].plain
           new == [calls[c] EXCEPT !.phase = "threw", !.plain = plain]
<1>1. calls[c] \in Call /\ plain \in BOOLEAN /\ calls[c].hook \in Hooks /\ "threw" \in Phases
  BY DEF CallsTold, Call, Phases
<1> HIDE DEF plain
<1>2. new.phase = "threw" /\ new.hook = calls[c].hook
  BY <1>1 DEF Call
<1> HIDE DEF new
<1>3. Told(new, TRUE) = IF calls[c].hook.failures THEN <<Entry("call", calls[c].hook.mints, TRUE)>> ELSE <<>>
  BY <1>2 DEF Told, IsTold
<1>4. log' = [log EXCEPT ![c] = log[c] \o Told(new, TRUE)]
  BY <1>3 DEF Throw, Write
<1>5. calls' = [calls EXCEPT ![c] = [calls[c] EXCEPT !.phase = "threw", !.plain = plain]]
  BY <1>1, CallEdited DEF plain, Become, Throw
<1>6. UNCHANGED <<strict, guarded>> /\ calls[c].phase = "running"
  BY DEF Throw
<1> QED
  BY <1>1, <1>4, <1>5, <1>6, GoesOn DEF new

\* What is said of a call before it runs.
LEMMA BeginsTold ==
    ASSUME CallsTold, NEW c \in Calls, calls[c].phase = "idle", NEW call \in Call,
           call.phase \in {"refused", "blocked", "running"},
           strict /\ call.hook.gated => guarded \/ call.phase = "refused",
           UNCHANGED <<strict, guarded>>, calls' = [calls EXCEPT ![c] = call],
           Write(c, Begun(call))
    PROVE  CallsTold'
<1>1. log[c] = <<>>
  BY IdleLog
<1>2. Begun(call) \in Seq(Entries)
  <2> DEFINE g == Entry("gate", {"AI-GRD.3"}, ~guarded)
             v == Entry("violation", {"AI-TOOL.1"}, TRUE)
  <2>1. g \in Entries /\ v \in Entries
    <3>1. (~guarded) \in BOOLEAN
      BY Zenon
    <3> QED
      BY <3>1, EntriesMade, Zenon
  <2> HIDE DEF g, v
  <2>2. <<g>> \in Seq(Entries) /\ <<v>> \in Seq(Entries) /\ <<>> \in Seq(Entries)
    BY <2>1
  <2>3. Begun(call) = <<g>> \/ Begun(call) = <<v>> \/ Begun(call) = <<>>
    BY Zenon DEF Begun, g, v
  <2> QED
    BY <2>2, <2>3, Zenon
<1>3. Told(call, FALSE) = <<>>
  BY DEF Told, IsTold
<1>4. log[c] \o Begun(call) = Begun(call) \o Told(call, FALSE)
  <2>1. <<>> \o Begun(call) = Begun(call) \o <<>>
    BY <1>2
  <2> QED
    BY <1>1, <1>3, <2>1, Zenon
<1>5. True(call, log[c] \o Begun(call))
  BY <1>4 DEF True
<1>6. log' = [log EXCEPT ![c] = log[c] \o Begun(call)]
  BY DEF Write
<1> QED
  BY <1>2, <1>5, <1>6, OneCallTold

LEMMA BeginTold ==
    ASSUME CallsTold, NEW c \in Calls, NEW hook \in HooksOfCall[c], Begin(c, hook)
    PROVE  CallsTold'
<1> DEFINE checked == strict /\ hook.gated
           phase == IF checked /\ ~guarded THEN "refused" ELSE "running"
           call == [calls[c] EXCEPT !.hook = hook, !.phase = phase]
<1>1. hook \in Hooks
  BY CallsHaveHooks
<1>2. calls[c] \in Call /\ phase \in Phases /\ calls[c].verdict = "run"
  BY IdleLog DEF CallsTold, Phases, Begin
<1>3. calls[c].plain \in BOOLEAN
  BY <1>2 DEF Call
<1>4. calls' = [calls EXCEPT ![c] = call]
  <2>1. calls' = [calls EXCEPT ![c].hook = hook, ![c].phase = phase]
    BY DEF Begin
  <2> HIDE DEF phase
  <2> QED
    BY <1>1, <1>2, <1>3, <2>1, CallEdited, ZenonT(40)
<1>5. phase = "refused" \/ phase = "running"
  OBVIOUS
<1>6. checked => guarded \/ phase = "refused"
  OBVIOUS
<1> HIDE DEF phase
<1>7. call \in Call /\ call.phase = phase /\ call.hook = hook /\ call.verdict = "run"
  BY <1>1, <1>2 DEF Call
<1> HIDE DEF call
<1>8. Begun(call) = IF checked THEN <<Entry("gate", {"AI-GRD.3"}, ~guarded)>> ELSE <<>>
  BY <1>7 DEF Begun
<1>9. Write(c, Begun(call)) /\ calls[c].phase = "idle" /\ UNCHANGED <<strict, guarded>>
  BY <1>8 DEF Begin, Write
<1> QED
  BY <1>4, <1>5, <1>6, <1>7, <1>9, BeginsTold

LEMMA BeginToolTold ==
    ASSUME CallsTold, NEW c \in Calls, NEW hook \in HooksOfCall[c], NEW tool \in Tools,
           BeginTool(c, hook, tool)
    PROVE  CallsTold'
<1> DEFINE verdict == Verdict(tool)
           phase == IF verdict = "blocked" THEN "blocked" ELSE "running"
           call == [calls[c] EXCEPT !.hook = hook, !.tool = tool, !.verdict = verdict, !.phase = phase]
<1>1. hook \in Hooks /\ ~hook.gated
  <2>1. hook \in Hooks /\ hook.enforced
    BY CallsHaveHooks DEF BeginTool
  <2> QED
    BY <2>1, HooksAreModest DEF Modest
<1>2. calls[c] \in Call /\ phase \in Phases
  BY DEF CallsTold, Phases
<1>3. verdict \in {"run", "logged", "blocked"}
  BY EnforcerAssumption DEF Verdict
<1>4. calls' = [calls EXCEPT ![c] = call] /\ Write(c, ViolationOf(verdict)) /\ calls[c].phase = "idle"
      /\ UNCHANGED <<strict, guarded>>
  BY Zenon DEF BeginTool
<1>5. phase = "blocked" \/ phase = "running"
  OBVIOUS
<1> HIDE DEF verdict, phase
<1>6. call \in Call /\ call.phase = phase /\ call.hook = hook /\ call.verdict = verdict
  BY <1>1, <1>2, <1>3 DEF Call
<1> HIDE DEF call
<1>7. Begun(call) = ViolationOf(verdict)
  BY <1>1, <1>6 DEF Begun, ViolationOf
<1> QED
  BY <1>1, <1>4, <1>5, <1>6, <1>7, BeginsTold

LEMMA NextTold == ASSUME CallsTold, [Next]_vars PROVE CallsTold'
<1>1. CASE UNCHANGED vars
  BY <1>1, ZenonT(40) DEF vars, CallsTold, True, Begun, Told, IsTold, Excused
<1>2. CASE RecordTokens \/ ResetTokens \/ ResetDepth \/ Tick
  <2>1. UNCHANGED <<strict, guarded, calls, log>>
    BY <1>2 DEF RecordTokens, ResetTokens, ResetDepth, Tick
  <2> QED
    BY <2>1, ZenonT(40) DEF CallsTold, True, Begun, Told, IsTold, Excused
<1>3. ASSUME NEW c \in Calls, NEW hook \in HooksOfCall[c],
             Begin(c, hook) \/ \E tool \in Tools : BeginTool(c, hook, tool)
      PROVE  CallsTold'
  BY <1>3, BeginTold, BeginToolTold
<1>4. ASSUME NEW c \in Calls, NEW end, Return(c, end) \/ Drain(c, end)
      PROVE  CallsTold'
  BY <1>4, AnsweredTold DEF Return, Drain
<1>5. ASSUME NEW c \in Calls, ReturnNothing(c) \/ Open(c) \/ Leave(c)
      PROVE  CallsTold'
  BY <1>5, UntoldGoesOn DEF ReturnNothing, Open, Leave
<1>6. ASSUME NEW c \in Calls, Throw(c)
      PROVE  CallsTold'
  BY <1>6, ThrowTold
<1> QED
  BY <1>1, <1>2, <1>3, <1>4, <1>5, <1>6 DEF Next

\* What the log says of each call agrees with how far it has come and is said at most
\* once and in order, for every set of calls, whatever they go through and however they
\* end.  That a call is recorded is no part of it where it is left before its end or
\* broken by the record itself.
THEOREM RecordedOnceAlways == Spec => []RecordedOnce
<1>1. CallsTold /\ [Next]_vars => CallsTold'
  BY NextTold
<1> QED
  BY <1>1, InitTold, ToldOnce, PTL DEF Spec

-----------------------------------------------------------------------------
(* DepthHeld: how many calls of the last row of one tool may have run. *)

Attempt == [tool : Tools \cup {NoTool}, verdict : {"run", "logged", "blocked", "reset"}, time : Nat]

\* The window is left open: the depth does not depend on it.
Enforcer(W) == [window : W, depth : Nat, last : Tools \cup {NoTool}, tokens : Nat]

RunsIn(a, i, j) == {k \in i..j : a[k].verdict = "run"}
SameTool(a, i, j) == \A k \in i..j : a[k].tool = a[i].tool
Allowed(depth, last, tool) == IF last = tool THEN depth ELSE 0

RowsHeld(a) ==
    \A i, j \in DOMAIN a : SameTool(a, i, j) => Cardinality(RunsIn(a, i, j)) <= MaxDepth
LastRowHeld(a, depth, last) ==
    \A i \in DOMAIN a :
        SameTool(a, i, Len(a)) => Cardinality(RunsIn(a, i, Len(a))) <= Allowed(depth, last, a[i].tool)

DepthCounts ==
    /\ clock \in Nat
    /\ \E W : enforcer \in Enforcer(W)
    /\ attempts \in Seq(Attempt)
    /\ enforcer.last = NoTool => enforcer.depth = 0
    /\ RowsHeld(attempts)
    /\ LastRowHeld(attempts, enforcer.depth, enforcer.last)

LEMMA RunsFinite ==
    ASSUME NEW a, NEW i \in Int, NEW j \in Int
    PROVE  IsFiniteSet(RunsIn(a, i, j)) /\ Cardinality(RunsIn(a, i, j)) \in Nat
<1>1. IsFiniteSet(i..j)
  BY FS_Interval
<1>2. RunsIn(a, i, j) \subseteq i..j
  BY DEF RunsIn
<1> QED
  BY <1>1, <1>2, FS_Subset, FS_CardinalityType

\* An attempt more, at the end.
LEMMA RunsGrow ==
    ASSUME NEW S, NEW a \in Seq(S), NEW e \in S, NEW i \in 1..Len(a) + 1
    PROVE  /\ \A j \in 1..Len(a) : RunsIn(Append(a, e), i, j) = RunsIn(a, i, j)
           /\ Cardinality(RunsIn(Append(a, e), i, Len(a) + 1))
                = Cardinality(RunsIn(a, i, Len(a))) + IF e.verdict = "run" THEN 1 ELSE 0
<1> DEFINE n == Len(a)
           b == Append(a, e)
<1>1. n \in Nat /\ b[n + 1] = e /\ \A k \in 1..n : b[k] = a[k]
  OBVIOUS
<1> HIDE DEF n, b
<1>2. \A j \in 1..n : RunsIn(b, i, j) = RunsIn(a, i, j)
  BY <1>1 DEF RunsIn, n
<1>3. e.verdict = "run" => RunsIn(b, i, n + 1) = RunsIn(a, i, n) \cup {n + 1}
  BY <1>1 DEF RunsIn, n
<1>4. e.verdict # "run" => RunsIn(b, i, n + 1) = RunsIn(a, i, n)
  BY <1>1 DEF RunsIn, n
<1>5. n + 1 \notin RunsIn(a, i, n)
  BY <1>1 DEF RunsIn
<1>6. IsFiniteSet(RunsIn(a, i, n)) /\ Cardinality(RunsIn(a, i, n)) \in Nat
  BY <1>1, RunsFinite
<1>7. e.verdict = "run" => Cardinality(RunsIn(b, i, n + 1)) = Cardinality(RunsIn(a, i, n)) + 1
  BY <1>3, <1>5, <1>6, FS_AddElement
<1> QED
  BY <1>2, <1>4, <1>6, <1>7 DEF n, b

LEMMA RowsGrow ==
    ASSUME NEW a \in Seq(Attempt), NEW e \in Attempt, NEW depth \in Nat, NEW last,
           NEW depth2 \in Nat, NEW last2, RowsHeld(a), LastRowHeld(a, depth, last),
           Allowed(depth, last, e.tool) + (IF e.verdict = "run" THEN 1 ELSE 0)
                <= Allowed(depth2, last2, e.tool),
           e.verdict = "run" => Allowed(depth2, last2, e.tool) <= MaxDepth
    PROVE  RowsHeld(Append(a, e)) /\ LastRowHeld(Append(a, e), depth2, last2)
<1> DEFINE n == Len(a)
           b == Append(a, e)
<1>1. /\ n \in Nat /\ Len(b) = n + 1 /\ DOMAIN b = 1..n + 1 /\ DOMAIN a = 1..n
      /\ b[n + 1] = e /\ \A k \in 1..n : b[k] = a[k]
  OBVIOUS
<1>2. \A i \in 1..n + 1 :
        /\ \A j \in 1..n : RunsIn(b, i, j) = RunsIn(a, i, j)
        /\ Cardinality(RunsIn(b, i, n + 1))
                = Cardinality(RunsIn(a, i, n)) + IF e.verdict = "run" THEN 1 ELSE 0
  BY RunsGrow
<1> HIDE DEF n, b
<1>3. Allowed(depth, last, e.tool) \in Nat /\ Allowed(depth2, last2, e.tool) \in Nat /\ MaxDepth \in Nat
  BY EnforcerAssumption DEF Allowed
<1>4. \A i \in 1..n + 1, j \in Int : i > j => Cardinality(RunsIn(b, i, j)) = 0 /\ Cardinality(RunsIn(a, i, j)) = 0
  <2> SUFFICES ASSUME NEW i \in 1..n + 1, NEW j \in Int, i > j PROVE RunsIn(b, i, j) = {} /\ RunsIn(a, i, j) = {}
    BY FS_EmptySet
  <2> QED
    BY <1>1 DEF RunsIn
<1>5. \A i \in 1..n + 1, j \in 1..n : i <= j /\ SameTool(b, i, j) => SameTool(a, i, j)
  BY <1>1 DEF SameTool
<1>6. \A i \in 1..n : SameTool(b, i, n + 1) => SameTool(a, i, n) /\ a[i].tool = e.tool
  BY <1>1 DEF SameTool
<1>7. \A i \in 1..n + 1 : SameTool(b, i, n + 1) =>
        /\ Cardinality(RunsIn(a, i, n)) <= Allowed(depth, last, e.tool)
        /\ Cardinality(RunsIn(a, i, n)) <= MaxDepth
        /\ Cardinality(RunsIn(a, i, n)) \in Nat
        /\ b[i].tool = e.tool
  <2> SUFFICES ASSUME NEW i \in 1..n + 1, SameTool(b, i, n + 1)
               PROVE  /\ Cardinality(RunsIn(a, i, n)) <= Allowed(depth, last, e.tool)
                      /\ Cardinality(RunsIn(a, i, n)) <= MaxDepth
                      /\ Cardinality(RunsIn(a, i, n)) \in Nat
                      /\ b[i].tool = e.tool
    OBVIOUS
  <2>1. CASE i <= n
    <3>1. SameTool(a, i, n) /\ a[i].tool = e.tool /\ b[i] = a[i] /\ n \in 1..n /\ i \in 1..n
      BY <1>1, <1>6, <2>1
    <3>2. Cardinality(RunsIn(a, i, n)) <= Allowed(depth, last, e.tool)
      BY <1>1, <3>1 DEF LastRowHeld, n
    <3>3. Cardinality(RunsIn(a, i, n)) <= MaxDepth
      BY <1>1, <3>1 DEF RowsHeld
    <3>4. Cardinality(RunsIn(a, i, n)) \in Nat
      BY <1>1, RunsFinite
    <3> QED
      BY <3>1, <3>2, <3>3, <3>4
  <2>2. CASE i = n + 1
    <3>1. Cardinality(RunsIn(a, i, n)) = 0
      BY <1>1, <1>4, <2>2
    <3> QED
      BY <1>1, <1>3, <2>2, <3>1
  <2> QED
    BY <1>1, <2>1, <2>2
<1>8. \A i \in 1..n + 1 : SameTool(b, i, n + 1) =>
        /\ Cardinality(RunsIn(b, i, n + 1)) <= Allowed(depth2, last2, b[i].tool)
        /\ Cardinality(RunsIn(b, i, n + 1)) <= MaxDepth
  BY <1>2, <1>3, <1>7
<1>9. ASSUME NEW i \in 1..n + 1, NEW j \in 1..n, SameTool(b, i, j)
      PROVE  Cardinality(RunsIn(b, i, j)) <= MaxDepth
  <2>1. CASE i > j
    BY <1>3, <1>4, <2>1
  <2>2. CASE i <= j
    <3>1. SameTool(a, i, j) /\ i \in 1..n
      BY <1>1, <1>5, <1>9, <2>2
    <3> QED
      BY <1>1, <1>2, <3>1 DEF RowsHeld
  <2> QED
    BY <1>1, <2>1, <2>2
<1> QED
  BY <1>1, <1>8, <1>9 DEF RowsHeld, LastRowHeld, b

LEMMA InitDepth == Init => DepthCounts
<1> SUFFICES ASSUME Init PROVE DepthCounts
  OBVIOUS
<1>1. enforcer \in Enforcer({<<>>}) /\ enforcer.depth = 0
  BY DEF Init, Enforcer
<1>2. attempts = <<>> /\ clock = 0 /\ DOMAIN attempts = {} /\ <<>> \in Seq(Attempt)
  BY DEF Init
<1> QED
  BY <1>1, <1>2 DEF DepthCounts, RowsHeld, LastRowHeld

\* The enforcer's own count goes on with the row.
LEMMA BeginToolCounts ==
    ASSUME DepthCounts, NEW c \in Calls, NEW hook, NEW tool \in Tools, BeginTool(c, hook, tool)
    PROVE  DepthCounts'
<1> DEFINE e == [tool |-> tool, verdict |-> Verdict(tool), time |-> clock]
           window == Append(Recent, clock)
<1>1. PICK W : enforcer \in Enforcer(W)
  BY DEF DepthCounts
<1>2. Verdict(tool) \in {"run", "logged", "blocked"}
  BY EnforcerAssumption DEF Verdict
<1>3. Verdict(tool) = "run" => Listed(tool) /\ ~TooFast /\ ~TooDeep(tool)
  BY DEF Verdict
<1>4. /\ e \in Attempt /\ e.tool = tool /\ e.verdict = Verdict(tool)
      /\ attempts' = Append(attempts, e) /\ enforcer' = Checked(tool) /\ clock' = clock
  BY <1>2 DEF BeginTool, Attempt, DepthCounts
<1> HIDE DEF e
<1>5. MaxDepth \in Nat /\ tool # NoTool
  BY EnforcerAssumption, ToolsAssumption
<1>6. CASE ~Listed(tool) \/ TooFast
  <2>1. Verdict(tool) # "run"
    BY <1>3, <1>6
  <2>2. enforcer' = enforcer \/ enforcer' = [enforcer EXCEPT !.window = Recent]
    BY <1>4, <1>6 DEF Checked
  <2>3. /\ enforcer' \in Enforcer(W \cup {Recent}) /\ enforcer'.depth = enforcer.depth
        /\ enforcer'.last = enforcer.last
    <3> HIDE DEF Recent
    <3> QED
      BY <1>1, <2>2 DEF Enforcer
  <2>4. enforcer.depth \in Nat
    BY <1>1 DEF Enforcer
  <2>5. Allowed(enforcer.depth, enforcer.last, tool) \in Nat
    BY <2>4 DEF Allowed
  <2>6. RowsHeld(attempts') /\ LastRowHeld(attempts', enforcer'.depth, enforcer'.last)
    <3>1. /\ Allowed(enforcer.depth, enforcer.last, e.tool) + (IF e.verdict = "run" THEN 1 ELSE 0)
                <= Allowed(enforcer'.depth, enforcer'.last, e.tool)
          /\ e.verdict # "run"
      BY <1>4, <2>1, <2>3, <2>5
    <3>2. RowsHeld(attempts) /\ LastRowHeld(attempts, enforcer.depth, enforcer.last) /\ attempts \in Seq(Attempt)
      BY DEF DepthCounts
    <3>3. enforcer'.depth \in Nat
      BY <2>3, <2>4
    <3>4. RowsHeld(Append(attempts, e)) /\ LastRowHeld(Append(attempts, e), enforcer'.depth, enforcer'.last)
      BY <1>4, <2>4, <3>1, <3>2, <3>3, RowsGrow
    <3> QED
      BY <1>4, <3>4
  <2>7. attempts' \in Seq(Attempt)
    BY <1>4 DEF DepthCounts
  <2> QED
    BY <1>4, <2>3, <2>6, <2>7 DEF DepthCounts
<1>7. CASE Listed(tool) /\ ~TooFast
  <2>1. enforcer' = [enforcer EXCEPT !.window = window, !.depth = Depth(tool), !.last = tool]
    BY <1>4, <1>7 DEF Checked
  <2>2. enforcer.depth \in Nat
    BY <1>1 DEF Enforcer
  <2>3. Depth(tool) \in Nat /\ Allowed(enforcer.depth, enforcer.last, tool) + 1 <= Depth(tool)
    BY <2>2 DEF Depth, Allowed
  <2> HIDE DEF window
  <2>4. enforcer' \in Enforcer(W \cup {window}) /\ enforcer'.depth = Depth(tool) /\ enforcer'.last = tool
    BY <1>1, <2>1, <2>3 DEF Enforcer
  <2>5. Allowed(enforcer'.depth, enforcer'.last, tool) = Depth(tool)
    BY <2>4 DEF Allowed
  <2>6. Verdict(tool) = "run" => Depth(tool) <= MaxDepth
    BY <1>3, <1>5, <2>3 DEF TooDeep
  <2>7. Allowed(enforcer.depth, enforcer.last, tool) \in Nat
    BY <2>2 DEF Allowed
  <2>8. RowsHeld(attempts') /\ LastRowHeld(attempts', enforcer'.depth, enforcer'.last)
    <3>1. Allowed(enforcer.depth, enforcer.last, e.tool) + (IF e.verdict = "run" THEN 1 ELSE 0)
                <= Allowed(enforcer'.depth, enforcer'.last, e.tool)
      BY <1>4, <2>3, <2>5, <2>7
    <3>2. e.verdict = "run" => Allowed(enforcer'.depth, enforcer'.last, e.tool) <= MaxDepth
      BY <1>4, <2>5, <2>6
    <3> QED
      BY <1>4, <2>2, <2>3, <2>4, <3>1, <3>2, RowsGrow DEF DepthCounts
  <2>9. attempts' \in Seq(Attempt)
    BY <1>4 DEF DepthCounts
  <2> QED
    BY <1>4, <1>5, <2>4, <2>8, <2>9 DEF DepthCounts
<1> QED
  BY <1>6, <1>7

LEMMA ResetDepthCounts == ASSUME DepthCounts, ResetDepth PROVE DepthCounts'
<1> DEFINE e == [tool |-> NoTool, verdict |-> "reset", time |-> clock]
<1>1. PICK W : enforcer \in Enforcer(W)
  BY DEF DepthCounts
<1>2. /\ enforcer' = [enforcer EXCEPT !.depth = 0, !.last = NoTool]
      /\ attempts' = Append(attempts, e) /\ clock' = clock
  BY DEF ResetDepth
<1>3. enforcer' \in Enforcer(W) /\ enforcer'.depth = 0 /\ enforcer'.last = NoTool /\ enforcer.depth \in Nat
  BY <1>1, <1>2 DEF Enforcer
<1>4. e \in Attempt /\ e.tool = NoTool /\ e.verdict = "reset"
  BY DEF Attempt, DepthCounts
<1> HIDE DEF e
<1>5. Allowed(enforcer.depth, enforcer.last, NoTool) = 0 /\ Allowed(enforcer'.depth, enforcer'.last, NoTool) = 0
  BY <1>3 DEF Allowed, DepthCounts
<1>6. RowsHeld(attempts') /\ LastRowHeld(attempts', enforcer'.depth, enforcer'.last)
  <2>1. /\ Allowed(enforcer.depth, enforcer.last, e.tool) + (IF e.verdict = "run" THEN 1 ELSE 0)
                <= Allowed(enforcer'.depth, enforcer'.last, e.tool)
        /\ e.verdict # "run"
    BY <1>4, <1>5
  <2>2. RowsHeld(attempts) /\ LastRowHeld(attempts, enforcer.depth, enforcer.last) /\ attempts \in Seq(Attempt)
    BY DEF DepthCounts
  <2>3. enforcer'.depth \in Nat
    BY <1>3
  <2>4. RowsHeld(Append(attempts, e)) /\ LastRowHeld(Append(attempts, e), enforcer'.depth, enforcer'.last)
    BY <1>3, <1>4, <2>1, <2>2, <2>3, RowsGrow
  <2> QED
    BY <1>2, <2>4 DEF e
<1>7. attempts' \in Seq(Attempt)
  BY <1>2, <1>4 DEF DepthCounts
<1> QED
  BY <1>2, <1>3, <1>6, <1>7 DEF DepthCounts

LEMMA NextDepth == ASSUME DepthCounts, [Next]_vars PROVE DepthCounts'
<1>1. CASE UNCHANGED <<enforcer, attempts>> /\ clock' \in Nat
  BY <1>1 DEF DepthCounts, RowsHeld, LastRowHeld
<1>2. ASSUME UNCHANGED <<enforcer, attempts, clock>> PROVE DepthCounts'
  BY <1>1, <1>2 DEF DepthCounts
<1>3. CASE RecordTokens \/ ResetTokens
  <2>1. PICK W : enforcer \in Enforcer(W)
    BY DEF DepthCounts
  <2>2. /\ enforcer' = [enforcer EXCEPT !.tokens = @ + 1] \/ enforcer' = [enforcer EXCEPT !.tokens = 0]
        /\ UNCHANGED <<attempts, clock>>
    BY <1>3 DEF RecordTokens, ResetTokens
  <2>3. /\ enforcer' \in Enforcer(W) /\ enforcer'.depth = enforcer.depth
        /\ enforcer'.last = enforcer.last
    BY <2>1, <2>2 DEF Enforcer
  <2> QED
    BY <2>2, <2>3 DEF DepthCounts
<1>4. CASE Tick
  BY <1>1, <1>4 DEF Tick, DepthCounts
<1>5. CASE UNCHANGED vars
  BY <1>2, <1>5 DEF vars
<1>6. ASSUME NEW c \in Calls, NEW hook, Begin(c, hook) \/ \E tool \in Tools : BeginTool(c, hook, tool)
      PROVE  DepthCounts'
  BY <1>2, <1>6, BeginToolCounts DEF Begin
<1>7. ASSUME NEW c \in Calls, NEW end, Return(c, end) \/ Drain(c, end)
      PROVE  DepthCounts'
  BY <1>2, <1>7 DEF Return, Drain
<1>8. ASSUME NEW c \in Calls, ReturnNothing(c) \/ Throw(c) \/ Open(c) \/ Leave(c)
      PROVE  DepthCounts'
  BY <1>2, <1>8 DEF ReturnNothing, Throw, Open, Leave
<1> QED
  BY <1>3, <1>4, <1>5, <1>6, <1>7, <1>8, ResetDepthCounts DEF Next

\* No more than MaxDepth calls pass of a row of attempts of one tool, for any tools, rules,
\* limits and resets, and whichever attempts in the row were refused.
THEOREM DepthHeldAlways == Spec => []DepthHeld
<1>1. DepthCounts /\ [Next]_vars => DepthCounts'
  BY NextDepth
<1>2. DepthCounts => DepthHeld
  BY DEF DepthCounts, DepthHeld, RowsHeld, SameTool, RunsIn, InRow
<1> QED
  BY <1>1, <1>2, InitDepth, PTL DEF Spec
-----------------------------------------------------------------------------
(* TypeOK. *)

HookOfCall == (UNION Range(HooksOfCall)) \cup {NoHook}

CallOfHook == [phase : Phases, hook : HookOfCall, tool : Tools \cup {NoTool},
               verdict : {"run", "logged", "blocked"}, plain : BOOLEAN]

TypedEntries == [kind : {"gate", "violation", "call"},
          procs : SUBSET ({"AI-GRD.3", "AI-TOOL.1"} \cup Minted), refusal : BOOLEAN]

WindowedEnforcer ==
    [window : Seq(0..MaxTime), depth : Nat, last : Tools \cup {NoTool}, tokens : 0..Budget]

LEMMA MintsAreMinted == ASSUME NEW h \in HookOfCall PROVE h.mints \subseteq Minted
<1>1. NoHook.mints = {}
  BY DEF NoHook, Unseen
<1> QED
  BY <1>1 DEF HookOfCall, Minted

LEMMA EntriesTyped ==
    /\ \A r \in BOOLEAN : /\ Entry("gate", {"AI-GRD.3"}, r) \in TypedEntries
                          /\ Entry("violation", {"AI-TOOL.1"}, r) \in TypedEntries
    /\ \A h \in HookOfCall, r \in BOOLEAN : Entry("call", h.mints, r) \in TypedEntries
BY MintsAreMinted DEF Entry, TypedEntries

\* What a cutoff leaves of a window is its end.
LEMMA RecentIsSuffix ==
    ASSUME enforcer.window \in Seq(Nat), clock \in Nat
    PROVE  \E n \in 0..Len(enforcer.window) :
              /\ Recent = SubSeq(enforcer.window, n + 1, Len(enforcer.window))
              /\ \A i \in 1..n : enforcer.window[i] <= clock - Span
              /\ n < Len(enforcer.window) => enforcer.window[n + 1] > clock - Span
<1> DEFINE w == enforcer.window
           len == Len(w)
           cutoff == clock - Span
           old == {n \in 0..len : \A i \in 1..n : w[i] <= cutoff}
           young == {n \in 1..len : w[n] > cutoff}
<1>1. len \in Nat /\ (\A i \in 1..len : w[i] \in Nat) /\ cutoff \in Int
  BY EnforcerAssumption
<1>5. Recent = SubSeq(w, Max(old) + 1, len)
  BY DEF Recent
<1> HIDE DEF w, len, cutoff
<1>2. PICK n \in old : \A m \in old : n >= m
  <2>1. CASE young = {}
    <3>1. len \in old
      BY <1>1, <2>1
    <3> QED
      BY <1>1, <3>1
  <2>2. CASE young # {}
    <3> DEFINE R == OpToRel(<, Nat)
    <3>1. IsWellFoundedOn(R, Nat)
      BY NatLessThanWellFounded, Zenon
    <3>2. \A x, y \in Nat : y < x => <<y, x>> \in R
      BY DEF OpToRel
    <3> HIDE DEF R
    <3>3. young \subseteq Nat
      BY <1>1
    <3>4. PICK k \in young : \A y \in young : ~ (<<y, k>> \in R)
      BY <2>2, <3>1, <3>3, WFMin
    <3>5. \A y \in young : ~(y < k)
      BY <3>2, <3>3, <3>4
    <3>6. k \in 1..len /\ k - 1 \in old
      BY <1>1, <3>5
    <3>7. \A m \in old : k - 1 >= m
      BY <1>1, <3>6
    <3> QED
      BY <3>6, <3>7
  <2> QED
    BY <2>1, <2>2
<1>3. Max(old) \in old /\ \A m \in old : Max(old) >= m
  BY <1>2 DEF Max
<1>4. Max(old) < len => w[Max(old) + 1] > cutoff
  <2> SUFFICES ASSUME Max(old) < len, w[Max(old) + 1] <= cutoff PROVE FALSE
    BY <1>1, <1>3
  <2> DEFINE m == Max(old)
  <2>1. m + 1 \in old
    <3>1. /\ m \in Nat /\ m <= len /\ m < len /\ len \in Nat
          /\ \A i \in 1..m : w[i] <= cutoff
      BY <1>1, <1>3
    <3>2. w[m + 1] <= cutoff
      OBVIOUS
    <3> HIDE DEF m, w, len, cutoff
    <3>3. m + 1 \in 0..len /\ \A i \in 1..(m + 1) : i \in 1..m \/ i = m + 1
      BY <3>1
    <3> QED
      BY <3>1, <3>2, <3>3
  <2> QED
    BY <1>1, <1>3, <2>1
<1> QED
  BY <1>1, <1>3, <1>4, <1>5 DEF w, len, cutoff

\* The enforcer keeps its types, whatever is asked of it.
LEMMA CheckedTyped ==
    ASSUME enforcer \in WindowedEnforcer, clock \in 0..MaxTime, NEW tool \in Tools
    PROVE  Checked(tool) \in WindowedEnforcer /\ Recent \in Seq(0..MaxTime)
<1>1. enforcer.window \in Seq(0..MaxTime) /\ enforcer.window \in Seq(Nat) /\ clock \in Nat
  BY BoundsAssumption DEF WindowedEnforcer
<1>2. PICK n \in 0..Len(enforcer.window) : Recent = SubSeq(enforcer.window, n + 1, Len(enforcer.window))
  BY <1>1, RecentIsSuffix
<1>3. Recent \in Seq(0..MaxTime)
  <2> DEFINE w == enforcer.window
  <2>1. Len(w) \in Nat /\ \A i \in 1..Len(w) : w[i] \in 0..MaxTime
    BY <1>1, ElementOfSeq, LenProperties
  <2> HIDE DEF w
  <2>2. n \in Nat /\ \A i \in n + 1..Len(w) : w[i] \in 0..MaxTime
    BY <2>1 DEF w
  <2>3. SubSeq(w, n + 1, Len(w)) \in Seq(0..MaxTime)
    BY <2>1, <2>2, SubSeqProperties
  <2> QED
    BY <1>2, <2>3 DEF w
<1> DEFINE window == Append(Recent, clock)
<1>4. window \in Seq(0..MaxTime)
  BY <1>3
<1>5. Depth(tool) \in Nat
  BY DEF Depth, WindowedEnforcer
<1>6. \/ Checked(tool) = enforcer \/ Checked(tool) = [enforcer EXCEPT !.window = Recent]
      \/ Checked(tool) = [enforcer EXCEPT !.window = window, !.depth = Depth(tool), !.last = tool]
  BY DEF Checked
<1> HIDE DEF window
<1>7. Checked(tool) \in WindowedEnforcer
  BY <1>3, <1>4, <1>5, <1>6 DEF WindowedEnforcer
<1> QED
  BY <1>3, <1>7

LEMMA WrittenTyped ==
    ASSUME log \in [Calls -> Seq(TypedEntries)], NEW c \in Calls, NEW entries \in Seq(TypedEntries),
           Write(c, entries)
    PROVE  log' \in [Calls -> Seq(TypedEntries)]
<1>1. log[c] \o entries \in Seq(TypedEntries)
  BY ConcatProperties
<1> HIDE DEF TypedEntries
<1> QED
  BY <1>1 DEF Write

LEMMA RecordedTyped ==
    ASSUME calls \in [Calls -> CallOfHook], NEW c \in Calls, NEW end
    PROVE  Recorded(c, end) \in Seq(TypedEntries)
<1> DEFINE h == calls[c].hook
           r == end \in h.refusals
           e == Entry("call", h.mints, r)
<1>1. h \in HookOfCall
  BY DEF CallOfHook
<1>2. r \in BOOLEAN
  OBVIOUS
<1>3. e \in TypedEntries
  <2> HIDE DEF r, h
  <2> QED
    BY <1>1, <1>2, EntriesTyped
<1>4. <<e>> \in Seq(TypedEntries)
  <2> HIDE DEF e
  <2> QED
    BY <1>3
<1> QED
  BY <1>4 DEF Recorded

Typed ==
    /\ strict \in BOOLEAN /\ guarded \in BOOLEAN /\ failSecure \in BOOLEAN
    /\ enforcer \in WindowedEnforcer
    /\ calls \in [Calls -> CallOfHook]
    /\ log \in [Calls -> Seq(TypedEntries)]
    /\ clock \in 0..MaxTime /\ resets \in 0..MaxResets

LEMMA TypedIsTypeOK == Typed <=> TypeOK
BY Zenon DEF Typed, TypeOK, WindowedEnforcer, CallOfHook, HookOfCall, TypedEntries

LEMMA InitTyped == Init => Typed
<1> SUFFICES ASSUME Init PROVE Typed
  OBVIOUS
<1>1. Idle \in CallOfHook
  BY DEF Idle, CallOfHook, HookOfCall, Phases
<1>2. calls \in [Calls -> CallOfHook] /\ log \in [Calls -> Seq(TypedEntries)]
  BY <1>1 DEF Init
<1>3. enforcer \in WindowedEnforcer
  BY EnforcerAssumption DEF Init, WindowedEnforcer
<1>4. guarded \in BOOLEAN /\ strict \in BOOLEAN /\ failSecure \in BOOLEAN
  BY DEF Init
<1> QED
  BY <1>2, <1>3, <1>4, BoundsAssumption DEF Init, Typed

\* A step of one call.
LEMMA CallStepTyped ==
    ASSUME Typed, NEW c \in Calls,
           (\E hook \in HooksOfCall[c] : Begin(c, hook) \/ \E tool \in Tools : BeginTool(c, hook, tool))
           \/ (\E end : Return(c, end) \/ Drain(c, end))
           \/ ReturnNothing(c) \/ Throw(c) \/ Open(c) \/ Leave(c)
    PROVE  Typed'
<1> USE DEF Typed
<1>1. <<>> \in Seq(TypedEntries) /\ \A e \in TypedEntries : <<e>> \in Seq(TypedEntries)
  OBVIOUS
<1>2. \A r \in BOOLEAN : (~r) \in BOOLEAN
  BY Zenon
<1>3. ASSUME NEW phase \in Phases, Become(c, phase) PROVE calls' \in [Calls -> CallOfHook]
  BY <1>3 DEF Become, CallOfHook
<1>4. ASSUME NEW hook \in HooksOfCall[c], Begin(c, hook) PROVE Typed'
  <2> DEFINE checked == strict /\ hook.gated
             entries == IF checked THEN <<Entry("gate", {"AI-GRD.3"}, ~guarded)>> ELSE <<>>
             phase == IF checked /\ ~guarded THEN "refused" ELSE "running"
  <2>1. hook \in HookOfCall
    BY <1>4, HooksAssumption DEF HookOfCall, Range
  <2>2. Entry("gate", {"AI-GRD.3"}, ~guarded) \in TypedEntries
    BY <1>2, EntriesTyped, Zenon
  <2>3. entries \in Seq(TypedEntries)
    <3> HIDE DEF TypedEntries
    <3> QED
      BY <1>1, <2>2
  <2>4. Write(c, entries) /\ calls' = [calls EXCEPT ![c].hook = hook, ![c].phase = phase]
        /\ UNCHANGED <<strict, guarded, failSecure, enforcer, clock, attempts, resets>>
    BY <1>4 DEF Begin
  <2>5. phase \in Phases
    BY DEF Phases
  <2> HIDE DEF entries, phase
  <2>6. log' \in [Calls -> Seq(TypedEntries)]
    BY <2>3, <2>4, WrittenTyped
  <2>7. calls' \in [Calls -> CallOfHook]
    BY <2>1, <2>4, <2>5, ZenonT(40) DEF CallOfHook
  <2> QED
    BY <2>4, <2>6, <2>7
<1>5. ASSUME NEW hook \in HooksOfCall[c], NEW tool \in Tools, BeginTool(c, hook, tool) PROVE Typed'
  <2> DEFINE v == Verdict(tool)
             phase == IF v = "blocked" THEN "blocked" ELSE "running"
  <2>1. hook \in HookOfCall
    BY <1>5, HooksAssumption DEF HookOfCall, Range
  <2>2. v \in {"run", "logged", "blocked"} /\ phase \in Phases
    BY EnforcerAssumption DEF Verdict, Phases
  <2>3. ViolationOf(v) \in Seq(TypedEntries)
    BY <1>1, EntriesTyped DEF ViolationOf
  <2>4. /\ Write(c, ViolationOf(v)) /\ enforcer' = Checked(tool)
        /\ calls' = [calls EXCEPT ![c] =
                [@ EXCEPT !.hook = hook, !.tool = tool, !.verdict = v, !.phase = phase]]
        /\ UNCHANGED <<strict, guarded, failSecure, clock, resets>>
    BY <1>5 DEF BeginTool
  <2> HIDE DEF v, phase
  <2>5. log' \in [Calls -> Seq(TypedEntries)]
    BY <2>3, <2>4, WrittenTyped
  <2>6. calls' \in [Calls -> CallOfHook]
    BY <2>1, <2>2, <2>4 DEF CallOfHook
  <2>7. enforcer' \in WindowedEnforcer
    BY <2>4, CheckedTyped
  <2> QED
    BY <2>4, <2>5, <2>6, <2>7
<1>6. ASSUME NEW end, Return(c, end) \/ Drain(c, end) PROVE Typed'
  <2> DEFINE plain == end \in Plain
  <2>1. plain \in BOOLEAN /\ "returned" \in Phases
    BY DEF Phases
  <2>2. /\ Write(c, Recorded(c, end))
        /\ calls' = [calls EXCEPT ![c].phase = "returned", ![c].plain = plain]
        /\ UNCHANGED <<strict, guarded, failSecure, enforcer, clock, attempts, resets>>
    BY <1>6 DEF Return, Drain
  <2> HIDE DEF plain
  <2>3. log' \in [Calls -> Seq(TypedEntries)]
    BY <2>2, RecordedTyped, WrittenTyped
  <2>4. calls' \in [Calls -> CallOfHook]
    BY <2>1, <2>2, ZenonT(40) DEF CallOfHook
  <2> QED
    BY <2>2, <2>3, <2>4
<1>7. CASE Throw(c)
  <2> DEFINE entries == IF calls[c].hook.failures
                        THEN <<Entry("call", calls[c].hook.mints, TRUE)>> ELSE <<>>
  <2>1. calls[c].hook \in HookOfCall
    BY DEF CallOfHook
  <2>2. Entry("call", calls[c].hook.mints, TRUE) \in TypedEntries
    BY <2>1, EntriesTyped
  <2>3. entries \in Seq(TypedEntries)
    <3> HIDE DEF TypedEntries
    <3> QED
      BY <1>1, <2>2
  <2>4. /\ Write(c, entries) /\ Become(c, "threw") /\ "threw" \in Phases
        /\ UNCHANGED <<strict, guarded, failSecure, enforcer, clock, attempts, resets>>
    BY <1>7 DEF Throw, Phases
  <2> HIDE DEF entries
  <2>5. log' \in [Calls -> Seq(TypedEntries)]
    BY <2>3, <2>4, WrittenTyped
  <2> QED
    BY <1>3, <2>4, <2>5
<1>8. CASE ReturnNothing(c) \/ Open(c) \/ Leave(c)
  <2>1. PICK phase \in Phases : Become(c, phase)
    BY <1>8 DEF ReturnNothing, Open, Leave, Phases
  <2>2. UNCHANGED <<strict, guarded, failSecure, enforcer, log, clock, attempts, resets>>
    BY <1>8 DEF ReturnNothing, Open, Leave
  <2> QED
    BY <1>3, <2>1, <2>2
<1> QED
  BY <1>4, <1>5, <1>6, <1>7, <1>8

LEMMA NextTyped == ASSUME Typed, [Next]_vars PROVE Typed'
<1>1. CASE \E c \in Calls :
              \/ \E hook \in HooksOfCall[c] : Begin(c, hook) \/ \E tool \in Tools : BeginTool(c, hook, tool)
              \/ \E end \in Ends : Return(c, end) \/ Drain(c, end)
              \/ ReturnNothing(c) \/ Throw(c) \/ Open(c) \/ Leave(c)
  BY <1>1, CallStepTyped
<1>2. CASE RecordTokens \/ ResetTokens \/ ResetDepth
  <2>1. enforcer' \in WindowedEnforcer
    <3>1. \/ enforcer' = [enforcer EXCEPT !.tokens = @ + 1] /\ enforcer.tokens < Budget
          \/ enforcer' = [enforcer EXCEPT !.tokens = 0]
          \/ enforcer' = [enforcer EXCEPT !.depth = 0, !.last = NoTool]
      BY <1>2 DEF RecordTokens, ResetTokens, ResetDepth
    <3>2. enforcer \in WindowedEnforcer /\ Budget \in Nat
      BY EnforcerAssumption DEF Typed
    <3>3. CASE enforcer' = [enforcer EXCEPT !.tokens = @ + 1] /\ enforcer.tokens < Budget
      <4>1. enforcer.tokens + 1 \in 0..Budget
        BY <3>2, <3>3 DEF WindowedEnforcer
      <4> QED
        BY <3>2, <3>3, <4>1 DEF WindowedEnforcer
    <3>4. CASE enforcer' = [enforcer EXCEPT !.tokens = 0]
      BY <3>2, <3>4 DEF WindowedEnforcer
    <3>5. CASE enforcer' = [enforcer EXCEPT !.depth = 0, !.last = NoTool]
      BY <3>2, <3>5 DEF WindowedEnforcer
    <3> QED
      BY <3>1, <3>3, <3>4, <3>5
  <2>2. resets' \in 0..MaxResets
    BY <1>2, BoundsAssumption DEF RecordTokens, ResetTokens, ResetDepth, Typed
  <2>3. UNCHANGED <<strict, guarded, failSecure, calls, log, clock>>
    BY <1>2 DEF RecordTokens, ResetTokens, ResetDepth
  <2> QED
    BY <2>1, <2>2, <2>3 DEF Typed
<1>3. CASE Tick
  BY <1>3, BoundsAssumption DEF Tick, Typed
<1>4. CASE UNCHANGED vars
  BY <1>4 DEF vars, Typed
<1> QED
  BY <1>1, <1>2, <1>3, <1>4 DEF Next

\* The types are kept, for any program, tools, rules, limits and bounds.
THEOREM TypeOKAlways == Spec => []TypeOK
<1>1. Typed /\ [Next]_vars => Typed'
  BY NextTyped
<1> QED
  BY <1>1, InitTyped, TypedIsTypeOK, PTL DEF Spec

-----------------------------------------------------------------------------
(* VelocityHeld: the window counts the calls that passed since the cutoff. *)

RunsAfter(a, t) == {i \in DOMAIN a : a[i].verdict = "run" /\ t < a[i].time}
RunsWithin(a, t) ==
    {i \in DOMAIN a : a[i].verdict = "run" /\ t - Span < a[i].time /\ a[i].time <= t}

\* For every time since, no more calls passed after it than the window holds
\* behind any front part of it that is no younger.
Counted(a, w, since) ==
    \A t \in Int, n \in 0..Len(w) :
        t >= since /\ (\A i \in 1..n : w[i] <= t) => Cardinality(RunsAfter(a, t)) <= Len(w) - n

VelocityCounts ==
    /\ Typed
    /\ attempts \in Seq(Attempt)
    /\ \A i \in DOMAIN attempts : attempts[i].time <= clock
    /\ Counted(attempts, enforcer.window, clock - Span)
    /\ \A t \in 0..clock : Cardinality(RunsWithin(attempts, t)) <= Limit

LEMMA RunsWithinFinite ==
    ASSUME NEW a \in Seq(Attempt), NEW t \in Int
    PROVE  /\ IsFiniteSet(RunsAfter(a, t)) /\ Cardinality(RunsAfter(a, t)) \in Nat
           /\ Cardinality(RunsWithin(a, t)) \in Nat
           /\ Cardinality(RunsWithin(a, t)) <= Cardinality(RunsAfter(a, t - Span))
<1>1. IsFiniteSet(DOMAIN a)
  BY FS_Interval
<1>2. \A u \in Int : RunsAfter(a, u) \subseteq DOMAIN a
  BY DEF RunsAfter
<1>3. \A u \in Int : IsFiniteSet(RunsAfter(a, u)) /\ Cardinality(RunsAfter(a, u)) \in Nat
  BY <1>1, <1>2, FS_Subset, FS_CardinalityType
<1>4. RunsWithin(a, t) \subseteq RunsAfter(a, t - Span) /\ t - Span \in Int
  BY EnforcerAssumption DEF RunsWithin, RunsAfter
<1> QED
  BY <1>3, <1>4, FS_Subset, FS_CardinalityType

More(e, t) == IF e.verdict = "run" /\ t < e.time THEN 1 ELSE 0

LEMMA RunsAfterGrow ==
    ASSUME NEW a \in Seq(Attempt), NEW e \in Attempt, NEW t \in Int
    PROVE  Cardinality(RunsAfter(Append(a, e), t))
            = Cardinality(RunsAfter(a, t)) + More(e, t)
<1> DEFINE n == Len(a)
           b == Append(a, e)
<1>1. /\ n \in Nat /\ DOMAIN a = 1..n /\ DOMAIN b = 1..n + 1
      /\ b[n + 1] = e /\ \A k \in 1..n : b[k] = a[k]
  OBVIOUS
<1>2. IsFiniteSet(RunsAfter(a, t)) /\ Cardinality(RunsAfter(a, t)) \in Nat
  BY RunsWithinFinite
<1> HIDE DEF n, b
<1>3. CASE e.verdict = "run" /\ t < e.time
  <2>1. RunsAfter(b, t) = RunsAfter(a, t) \cup {n + 1} /\ n + 1 \notin RunsAfter(a, t)
    BY <1>1, <1>3 DEF RunsAfter
  <2> QED
    BY <1>2, <1>3, <2>1, FS_AddElement DEF b, More
<1>4. CASE ~(e.verdict = "run" /\ t < e.time)
  <2>1. RunsAfter(b, t) = RunsAfter(a, t)
    BY <1>1, <1>4 DEF RunsAfter
  <2> QED
    BY <1>2, <1>4, <2>1 DEF b, More
<1> QED
  BY <1>3, <1>4

\* What lies before the cutoff may be shifted off.
LEMMA ShiftCounted ==
    ASSUME NEW a \in Seq(Attempt), NEW w \in Seq(Nat), NEW k \in 0..Len(w), NEW since \in Int,
           \A i \in 1..k : w[i] <= since, Counted(a, w, since)
    PROVE  Counted(a, SubSeq(w, k + 1, Len(w)), since)
<1> DEFINE v == SubSeq(w, k + 1, Len(w))
           len == Len(w)
<1>1. /\ len \in Nat /\ k \in 0..len /\ Len(v) = len - k
      /\ \A i \in 1..len - k : v[i] = w[k + i]
      /\ \A i \in 1..len : w[i] \in Nat
  OBVIOUS
<1> HIDE DEF v
<1> SUFFICES ASSUME NEW t \in Int, NEW n \in 0..Len(v), t >= since, \A i \in 1..n : v[i] <= t
             PROVE  Cardinality(RunsAfter(a, t)) <= Len(v) - n
  BY DEF Counted, v
<1> HIDE DEF len
<1>2. ASSUME NEW i \in 1..k + n PROVE w[i] <= t
  <2>1. CASE i <= k
    BY <1>1, <2>1
  <2>2. CASE i > k
    <3>1. i - k \in 1..n /\ i - k \in 1..len - k /\ k + (i - k) = i
      BY <1>1, <2>2
    <3>2. v[i - k] = w[i] /\ v[i - k] <= t
      BY <1>1, <3>1
    <3> QED
      BY <3>2
  <2> QED
    BY <1>1, <2>1, <2>2
<1>3. k + n \in 0..len
  BY <1>1
<1>4. Cardinality(RunsAfter(a, t)) <= len - (k + n)
  BY <1>2, <1>3 DEF Counted, len
<1>5. Cardinality(RunsAfter(a, t)) \in Nat
  BY RunsWithinFinite
<1> QED
  BY <1>1, <1>4, <1>5

\* An attempt takes a place in the window, or does not pass.
LEMMA AttemptCounted ==
    ASSUME NEW a \in Seq(Attempt), NEW e \in Attempt, NEW w \in Seq(Nat), NEW since \in Int,
           \A i \in DOMAIN a : a[i].time <= e.time, Counted(a, w, since)
    PROVE  /\ Counted(Append(a, e), Append(w, e.time), since)
           /\ e.verdict # "run" => Counted(Append(a, e), w, since)
<1> DEFINE b == Append(a, e)
           v == Append(w, e.time)
           len == Len(w)
<1>0. e.time \in Nat
  BY DEF Attempt
<1>1. /\ len \in Nat /\ Len(v) = len + 1 /\ v[len + 1] = e.time
      /\ \A i \in 1..len : v[i] = w[i]
  BY <1>0
<1>2. e.time \in Nat /\ \A i \in DOMAIN a : a[i].time \in Nat
  <2>1. \A i \in DOMAIN a : a[i] \in Attempt
    OBVIOUS
  <2> QED
    BY <1>0, <2>1 DEF Attempt
<1>3. \A t \in Int : /\ Cardinality(RunsAfter(a, t)) \in Nat
                     /\ Cardinality(RunsAfter(b, t)) \in Nat
                     /\ Cardinality(RunsAfter(b, t))
                          = Cardinality(RunsAfter(a, t)) + More(e, t)
  <2> SUFFICES ASSUME NEW t \in Int
               PROVE  /\ Cardinality(RunsAfter(a, t)) \in Nat
                      /\ Cardinality(RunsAfter(b, t)) \in Nat
                      /\ Cardinality(RunsAfter(b, t))
                          = Cardinality(RunsAfter(a, t)) + More(e, t)
    OBVIOUS
  <2>1. b \in Seq(Attempt)
    OBVIOUS
  <2>2. Cardinality(RunsAfter(b, t))
            = Cardinality(RunsAfter(a, t)) + More(e, t)
    BY RunsAfterGrow
  <2> HIDE DEF b
  <2> QED
    BY <2>1, <2>2, RunsWithinFinite
<1> HIDE DEF b, v, len
<1>4. ASSUME NEW t \in Int, NEW n \in 0..len + 1, t >= since, \A i \in 1..n : v[i] <= t
      PROVE  Cardinality(RunsAfter(b, t)) <= len + 1 - n
  <2>1. CASE n <= len
    <3>1. n \in 0..len /\ \A i \in 1..n : w[i] <= t
      BY <1>1, <1>4, <2>1
    <3>2. Cardinality(RunsAfter(a, t)) <= len - n
      BY <1>4, <3>1 DEF Counted, len
    <3>3. More(e, t) \in {0, 1}
      BY DEF More
    <3> DEFINE x == Cardinality(RunsAfter(a, t))
               y == Cardinality(RunsAfter(b, t))
    <3>4. x \in Nat /\ y \in Nat /\ y = x + More(e, t) /\ x <= len - n
      BY <1>3, <3>2, Zenon
    <3> HIDE DEF x, y
    <3>5. y <= len + 1 - n
      BY <1>1, <3>3, <3>4
    <3> QED
      BY <3>5 DEF y
  <2>2. CASE n = len + 1
    <3>1. e.time <= t
      BY <1>1, <1>4, <2>2
    <3>2. RunsAfter(a, t) = {}
      BY <1>2, <3>1 DEF RunsAfter
    <3>3. Cardinality(RunsAfter(a, t)) = 0
      BY <3>2, FS_EmptySet
    <3>4. More(e, t) = 0
      BY <1>2, <3>1 DEF More
    <3>5. Cardinality(RunsAfter(b, t)) = 0
      BY <1>3, <3>3, <3>4
    <3> QED
      BY <1>1, <2>2, <3>5
  <2> QED
    BY <1>1, <2>1, <2>2
<1>5. Counted(b, v, since)
  BY <1>1, <1>4 DEF Counted
<1>6. ASSUME e.verdict # "run" PROVE Counted(b, w, since)
  <2>1. \A t \in Int : Cardinality(RunsAfter(b, t)) = Cardinality(RunsAfter(a, t))
    BY <1>3, <1>6 DEF More
  <2> QED
    BY <2>1 DEF Counted
<1> QED
  BY <1>5, <1>6 DEF b, v

LEMMA BeginToolVelocity ==
    ASSUME VelocityCounts, Typed', NEW c \in Calls, NEW hook, NEW tool \in Tools,
           BeginTool(c, hook, tool)
    PROVE  VelocityCounts'
<1> DEFINE e == [tool |-> tool, verdict |-> Verdict(tool), time |-> clock]
           since == clock - Span
<1>1. /\ clock \in Nat /\ since \in Int /\ Span \in Nat /\ Span > 0 /\ Limit \in Nat
      /\ enforcer.window \in Seq(Nat)
  BY EnforcerAssumption, BoundsAssumption, SMTT(30) DEF VelocityCounts, Typed, WindowedEnforcer
<1>2. Verdict(tool) \in {"run", "logged", "blocked"}
  BY EnforcerAssumption DEF Verdict
<1>3. /\ e \in Attempt /\ e.verdict = Verdict(tool) /\ e.time = clock
      /\ attempts' = Append(attempts, e) /\ enforcer' = Checked(tool) /\ clock' = clock
  BY <1>1, <1>2 DEF BeginTool, Attempt
<1>4. Verdict(tool) = "run" => Listed(tool) /\ ~TooFast
  BY DEF Verdict
<1>5. attempts \in Seq(Attempt) /\ \A i \in DOMAIN attempts : attempts[i].time <= clock
  BY DEF VelocityCounts
<1> HIDE DEF e
<1>6. /\ attempts' \in Seq(Attempt)
      /\ \A i \in DOMAIN attempts' : attempts'[i].time <= clock'
  BY <1>1, <1>3, <1>5
<1>7. /\ Counted(attempts, enforcer.window, since) /\ Counted(attempts, Recent, since)
      /\ Recent \in Seq(Nat)
  <2>1. PICK n \in 0..Len(enforcer.window) :
              /\ Recent = SubSeq(enforcer.window, n + 1, Len(enforcer.window))
              /\ \A i \in 1..n : enforcer.window[i] <= since
    BY <1>1, RecentIsSuffix
  <2>2. Recent \in Seq(Nat)
    BY <1>1, <2>1
  <2>3. Counted(attempts, enforcer.window, since)
    BY DEF VelocityCounts
  <2> HIDE DEF since
  <2> QED
    BY <1>1, <1>5, <2>1, <2>2, <2>3, ShiftCounted
<1>8. Counted(attempts', enforcer'.window, since)
  <2>1. CASE ~Listed(tool) \/ TooFast
    <3>1. enforcer'.window \in {enforcer.window, Recent}
      BY <1>3, <2>1 DEF Checked, VelocityCounts, Typed, WindowedEnforcer
    <3>2. e.verdict # "run" /\ enforcer'.window \in Seq(Nat) /\ Counted(attempts, enforcer'.window, since)
      BY <1>1, <1>3, <1>4, <1>7, <2>1, <3>1
    <3> HIDE DEF since
    <3> QED
      BY <1>1, <1>3, <1>5, <3>2, AttemptCounted
  <2>2. CASE Listed(tool) /\ ~TooFast
    <3> DEFINE window == Append(Recent, clock)
    <3>1. enforcer' = [enforcer EXCEPT !.window = window, !.depth = Depth(tool), !.last = tool]
      BY <1>3, <2>2 DEF Checked
    <3> HIDE DEF window
    <3>2. enforcer'.window = window
      BY <3>1 DEF VelocityCounts, Typed, WindowedEnforcer
    <3> HIDE DEF since
    <3>3. Counted(Append(attempts, e), Append(Recent, e.time), since)
      BY <1>1, <1>3, <1>5, <1>7, AttemptCounted
    <3> QED
      BY <1>3, <3>2, <3>3 DEF window
  <2> QED
    BY <2>1, <2>2
<1>9. ASSUME NEW t \in 0..clock PROVE Cardinality(RunsWithin(attempts', t)) <= Limit
  <2>1. Cardinality(RunsWithin(attempts, t)) <= Limit
    BY DEF VelocityCounts
  <2>2. CASE t < clock \/ Verdict(tool) # "run"
    <3>1. RunsWithin(attempts', t) = RunsWithin(attempts, t)
      BY <1>1, <1>3, <1>5, <2>2 DEF RunsWithin
    <3> QED
      BY <2>1, <3>1
  <2>3. CASE t = clock /\ Verdict(tool) = "run"
    <3>1. Len(Recent) \in Nat /\ Len(Recent) < Limit
      BY <1>1, <1>4, <1>7, <2>3 DEF TooFast
    <3>2. Cardinality(RunsAfter(attempts, since)) <= Len(Recent)
      <4>1. 0 \in 0..Len(Recent) /\ since >= since /\ \A i \in 1..0 : Recent[i] <= since
        BY <1>1, <3>1
      <4>2. Cardinality(RunsAfter(attempts, since)) <= Len(Recent) - 0
        BY <1>1, <1>7, <4>1 DEF Counted
      <4> QED
        BY <3>1, <4>2
    <3>3. Cardinality(RunsAfter(attempts', since)) <= Cardinality(RunsAfter(attempts, since)) + 1
      <4> HIDE DEF since
      <4>1. /\ Cardinality(RunsAfter(attempts', since)) = Cardinality(RunsAfter(attempts, since))
                    + More(e, since)
            /\ Cardinality(RunsAfter(attempts, since)) \in Nat
        BY <1>1, <1>3, <1>5, RunsAfterGrow, RunsWithinFinite
      <4>2. More(e, since) \in {0, 1}
        BY DEF More
      <4> QED
        BY <4>1, <4>2
    <3>4. /\ Cardinality(RunsWithin(attempts', t)) <= Cardinality(RunsAfter(attempts', t - Span))
          /\ Cardinality(RunsWithin(attempts', t)) \in Nat /\ Cardinality(RunsAfter(attempts', since)) \in Nat
          /\ Cardinality(RunsAfter(attempts, since)) \in Nat
      <4> HIDE DEF since
      <4>1. t \in Int /\ since \in Int
        BY <1>1
      <4>2. /\ Cardinality(RunsWithin(attempts', t)) <= Cardinality(RunsAfter(attempts', t - Span))
            /\ Cardinality(RunsWithin(attempts', t)) \in Nat
        BY <1>6, <4>1, RunsWithinFinite
      <4>3. Cardinality(RunsAfter(attempts', since)) \in Nat /\ Cardinality(RunsAfter(attempts, since)) \in Nat
        BY <1>5, <1>6, <4>1, RunsWithinFinite
      <4> QED
        BY <4>2, <4>3
    <3> QED
      BY <1>1, <2>3, <3>1, <3>2, <3>3, <3>4
  <2> QED
    BY <1>1, <2>2, <2>3
<1> QED
  BY <1>3, <1>6, <1>8, <1>9 DEF VelocityCounts

LEMMA ResetDepthVelocity ==
    ASSUME VelocityCounts, Typed', ResetDepth
    PROVE  VelocityCounts'
<1> DEFINE e == [tool |-> NoTool, verdict |-> "reset", time |-> clock]
           since == clock - Span
<1>1. clock \in Nat /\ since \in Int /\ enforcer.window \in Seq(Nat)
  BY EnforcerAssumption, BoundsAssumption DEF VelocityCounts, Typed, WindowedEnforcer
<1>2. /\ e \in Attempt /\ e.verdict = "reset" /\ e.time = clock /\ attempts' = Append(attempts, e)
      /\ clock' = clock /\ enforcer'.window = enforcer.window
  BY <1>1 DEF ResetDepth, Attempt, VelocityCounts, Typed, WindowedEnforcer
<1>3. /\ attempts \in Seq(Attempt) /\ \A i \in DOMAIN attempts : attempts[i].time <= clock
      /\ Counted(attempts, enforcer.window, since)
  BY DEF VelocityCounts
<1> HIDE DEF e
<1>4. /\ attempts' \in Seq(Attempt)
      /\ \A i \in DOMAIN attempts' : attempts'[i].time <= clock'
  BY <1>1, <1>2, <1>3
<1>5. Counted(attempts', enforcer'.window, since)
  <2> HIDE DEF since
  <2> QED
    BY <1>1, <1>2, <1>3, AttemptCounted
<1>6. \A t \in 0..clock : RunsWithin(attempts', t) = RunsWithin(attempts, t)
  BY <1>1, <1>2, <1>3 DEF RunsWithin
<1> QED
  BY <1>2, <1>4, <1>5, <1>6 DEF VelocityCounts

LEMMA TickVelocity ==
    ASSUME VelocityCounts, Typed', Tick
    PROVE  VelocityCounts'
<1>1. /\ clock \in Nat /\ clock' = clock + 1 /\ attempts' = attempts /\ enforcer' = enforcer
      /\ Span \in Nat /\ Span > 0 /\ Limit \in Nat
  BY EnforcerAssumption, BoundsAssumption DEF VelocityCounts, Typed, Tick
<1>2. /\ attempts \in Seq(Attempt) /\ \A i \in DOMAIN attempts : attempts[i].time <= clock
      /\ Counted(attempts, enforcer.window, clock - Span)
  BY DEF VelocityCounts
<1>3. \A i \in DOMAIN attempts : attempts[i].time \in Nat
  <2>1. \A i \in DOMAIN attempts : attempts[i] \in Attempt
    BY <1>2
  <2> QED
    BY <2>1 DEF Attempt
<1>4. Counted(attempts', enforcer'.window, clock' - Span)
  <2>1. \A t \in Int : t >= clock + 1 - Span => t >= clock - Span
    BY <1>1
  <2>2. Counted(attempts, enforcer.window, clock + 1 - Span)
    BY <1>2, <2>1 DEF Counted
  <2> QED
    BY <1>1, <2>2
<1>5. ASSUME NEW t \in 0..clock + 1 PROVE Cardinality(RunsWithin(attempts, t)) <= Limit
  <2>1. CASE t <= clock
    BY <1>1, <2>1 DEF VelocityCounts
  <2>2. CASE t = clock + 1
    <3>1. RunsWithin(attempts, t) \subseteq RunsWithin(attempts, clock)
      BY <1>1, <1>2, <1>3, <2>2 DEF RunsWithin
    <3>2. IsFiniteSet(DOMAIN attempts) /\ RunsWithin(attempts, clock) \subseteq DOMAIN attempts
      BY <1>2, FS_Interval DEF RunsWithin
    <3>3. IsFiniteSet(RunsWithin(attempts, clock))
      BY <3>2, FS_Subset
    <3>4. Cardinality(RunsWithin(attempts, t)) <= Cardinality(RunsWithin(attempts, clock))
      BY <3>1, <3>3, FS_Subset
    <3>5. Cardinality(RunsWithin(attempts, clock)) <= Limit
      BY <1>1 DEF VelocityCounts
    <3>6. Cardinality(RunsWithin(attempts, clock)) \in Nat /\ Cardinality(RunsWithin(attempts, t)) \in Nat
      <4>1. clock \in Int /\ t \in Int
        BY <1>1
      <4> QED
        BY <1>2, <4>1, RunsWithinFinite
    <3> QED
      BY <1>1, <3>4, <3>5, <3>6
  <2> QED
    BY <1>1, <2>1, <2>2
<1>6. attempts' \in Seq(Attempt) /\ \A i \in DOMAIN attempts' : attempts'[i].time <= clock'
  BY <1>1, <1>2, <1>3
<1> QED
  BY <1>1, <1>4, <1>5, <1>6 DEF VelocityCounts

LEMMA NextVelocity == ASSUME VelocityCounts, [Next]_vars PROVE VelocityCounts'
<1>1. Typed'
  BY NextTyped DEF VelocityCounts
<1>2. ASSUME enforcer'.window = enforcer.window, UNCHANGED <<attempts, clock>> PROVE VelocityCounts'
  BY <1>1, <1>2 DEF VelocityCounts
<1>3. CASE RecordTokens \/ ResetTokens
  <2>1. enforcer'.window = enforcer.window /\ UNCHANGED <<attempts, clock>>
    BY <1>3 DEF RecordTokens, ResetTokens, VelocityCounts, Typed, WindowedEnforcer
  <2> QED
    BY <1>2, <2>1
<1>4. CASE UNCHANGED vars
  BY <1>2, <1>4 DEF vars
<1>5. ASSUME NEW c \in Calls, NEW hook, Begin(c, hook) \/ \E tool \in Tools : BeginTool(c, hook, tool)
      PROVE  VelocityCounts'
  BY <1>1, <1>2, <1>5, BeginToolVelocity DEF Begin
<1>6. ASSUME NEW c \in Calls, NEW end, Return(c, end) \/ Drain(c, end)
      PROVE  VelocityCounts'
  BY <1>2, <1>6 DEF Return, Drain
<1>7. ASSUME NEW c \in Calls, ReturnNothing(c) \/ Throw(c) \/ Open(c) \/ Leave(c)
      PROVE  VelocityCounts'
  BY <1>2, <1>7 DEF ReturnNothing, Throw, Open, Leave
<1> QED
  BY <1>1, <1>3, <1>4, <1>5, <1>6, <1>7, ResetDepthVelocity, TickVelocity DEF Next

LEMMA InitVelocity == Init => VelocityCounts
<1> SUFFICES ASSUME Init PROVE VelocityCounts
  OBVIOUS
<1>1. /\ attempts = <<>> /\ DOMAIN attempts = {} /\ <<>> \in Seq(Attempt) /\ clock = 0
      /\ enforcer.window = <<>> /\ Limit \in Nat
  BY EnforcerAssumption DEF Init
<1>2. \A t \in Int : RunsAfter(attempts, t) = {} /\ RunsWithin(attempts, t) = {}
  BY <1>1 DEF RunsAfter, RunsWithin
<1>3. \A t \in Int : Cardinality(RunsAfter(attempts, t)) = 0 /\ Cardinality(RunsWithin(attempts, t)) = 0
  BY <1>2, FS_EmptySet
<1>4. Len(enforcer.window) = 0
  BY <1>1
<1>5. Counted(attempts, enforcer.window, clock - Span)
  BY <1>3, <1>4 DEF Counted
<1> QED
  BY <1>1, <1>3, <1>5, InitTyped DEF VelocityCounts

\* Within no Span of the clock do more than Limit calls pass, for any tools, rules and
\* limits, however many calls overlap and whichever were refused.
THEOREM VelocityHeldAlways == Spec => []VelocityHeld
<1>1. VelocityCounts /\ [Next]_vars => VelocityCounts'
  BY NextVelocity
<1>2. VelocityCounts => VelocityHeld
  BY DEF VelocityCounts, VelocityHeld, Within, RunsWithin
<1> QED
  BY <1>1, <1>2, InitVelocity, PTL DEF Spec
=============================================================================
