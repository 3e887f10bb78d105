----------------------------- MODULE WitnessSession -----------------------------
(***************************************************************************)
(* One Witness object (witness.ts) between its construction and the end of *)
(* the process: minting, sampling, the density attestation and the cycle   *)
(* that chain() scopes.  JavaScript runs one callback at a time, so a      *)
(* method without an await is one action; chain() awaits its callback, so  *)
(* its beginning and its end are two actions and scopes may overlap.       *)
(*                                                                         *)
(* log is what has entered the flush buffer, in order; FlushBuffer models  *)
(* what becomes of it.  The agent, the signing key and a cycle are taken   *)
(* to be configured: "bound" says that an anchor carries them.             *)
(***************************************************************************)
EXTENDS MintSurface, SequencesExt

CONSTANTS
    Methods,        \* the witness methods the program calls, as mints
    Inference,      \* what config.procedures leaves of the mints of an inference
    Levels,         \* the clearing levels a Witness may be configured with
    Sampled,        \* procedures with a sampling rate between 0 and 1
    Never,          \* procedures with a sampling rate of 0
    Scopes,         \* calls of chain()
    MaxMints,       \* bound: anchors minted
    MaxTime,        \* bound: clock
    MaxTokens,      \* bound: tokens recorded, in thousands
    ColdStart,      \* DENSITY_MIN_WINDOW_MS, in ticks
    MinAnchors,     \* DENSITY_MIN_ANCHORS
    RateLimit,      \* DENSITY_RATE_LIMIT_MS, in ticks
    PerThousand,    \* minAnchorsPerThousandTokens of the density policy
    MaxGap          \* maxChainGapSeconds of the density policy, in ticks

ASSUME MethodsAssumption == Methods \subseteq Surface
ASSUME InferenceAssumption == Inference \in Seq(InferenceMints)
ASSUME SessionAssumption == Levels \subseteq 0..3 /\ {MaxMints, MaxTime, MaxTokens} \subseteq Nat
ASSUME SamplingAssumption == Sampled \cap Never = {}
ASSUME DensityAssumption ==
    {ColdStart, MinAnchors, RateLimit, PerThousand, MaxGap} \subseteq Nat

VARIABLES
    level,      \* config.clearingLevel
    minted,     \* anchors minted so far; the number of one is its fingerprint
    log,        \* what entered the buffer, in order
    skips,      \* _sampledSkipCounts
    noted,      \* _witnessedProcedures
    cycle,      \* config.cycleId
    scopes,     \* the calls of chain() whose callback runs: cycleId and previousCycleId
    clock,      \* Date.now()
    density,    \* the counters of the DensityEnforcer
    stopped,    \* buffer.stopped
    called      \* history: anchors given to _enqueueSampled, by procedure

session == <<level, minted, log, skips, noted, cycle, scopes, clock, density, stopped,
             called>>

Metas == {"AI-SAMPLE.1", "AI-DENSITY.1"}
Procs == {m.proc : m \in Surface}
        \cup {"AI-CHAIN.1", "AI-CHAIN.2", "AI-TRUST.1", "AI-TRUST.2", "AI-METAGOV.3"}

\* The cycle the Witness was built with.
BaseCycle == "base"

Stages == {"none", "initiated", "checkpoint", "escalated", "resolved", "abandoned"}

Anchor == [id : 1..MaxMints, proc : Procs \cup Metas \cup {"AI-GRD.3", "AI-REV.1"},
           bound : BOOLEAN,
           context : BOOLEAN, model : BOOLEAN,
           value : Nat, about : Procs \cup {"none"},
           chain : 0..MaxMints, parent : 0..MaxMints, stage : Stages]

\* Definitions marked "Fault:" are the same code with one mistake in it.  They are no
\* part of the specification: each is what some property rules out.

\* Fault: a level still lets out the contexts of the level below it.
AnchorOfLax(m, k) ==
    [id |-> minted + k, proc |-> m.proc,
     bound |-> m.meta # "none",
     context |-> level <= m.context + 1, model |-> level <= m.model,
     value |-> 0, about |-> "none", chain |-> 0, parent |-> 0, stage |-> "none"]

\* The anchor that a mint makes now, as the k-th of the call.
AnchorOf(m, k) ==
    [id |-> minted + k, proc |-> m.proc,
     bound |-> m.meta # "none",
     context |-> level <= m.context, model |-> level <= m.model,
     value |-> 0, about |-> "none", chain |-> 0, parent |-> 0, stage |-> "none"]

MintOf(p) == [proc |-> p, meta |-> "applied", context |-> 1, model |-> 1]

---------------------------------------------------------------------------
(* enqueueMany of the buffer: nothing is taken after stop(). *)
Enter(anchors) == log' = IF stopped THEN log ELSE log \o anchors

\* What _shouldWitness may say of a procedure.
Fates(p) == IF p \in Never THEN {"skip"}
            ELSE IF p \in Sampled THEN {"enter", "skip"}
            ELSE {"enter"}

\* The choices of some of the places 1..n, in order.
Picks(n) ==
    UNION {{f \in [1..k -> 1..n] : \A i, j \in 1..k : i < j => f[i] < f[j]} : k \in 0..n}

\* The procedures of anchors at some places, each as often as it is there.
ProcsOf(anchors, places) ==
    [p \in {anchors[i].proc : i \in places} |->
        Cardinality({i \in places : anchors[i].proc = p})]

(* _enqueueSampled for the anchors of one call, one after the other.  What is *)
(* let in is counted for the density also when the buffer is stopped.         *)
EnqueueSampled(anchors) ==
    \E enter \in Picks(Len(anchors)) :
        LET skip == DOMAIN anchors \ Range(enter)
        IN  /\ \A i \in Range(enter) : "enter" \in Fates(anchors[i].proc)
            /\ \A i \in skip : "skip" \in Fates(anchors[i].proc)
            /\ Enter([k \in DOMAIN enter |-> anchors[enter[k]]])
            /\ density' = [density EXCEPT !.anchors = @ + Len(enter)]
            /\ skips' = skips (+) ProcsOf(anchors, skip)
            /\ called' = called (+) ProcsOf(anchors, DOMAIN anchors)

\* Fault: what the mark says is noted, not the procedure.
NoteMark(mints) == noted' = noted \cup {m.meta : m \in {n \in mints : n.meta = "applied"}}

\* _applyOperationalMetadata notes the procedure, whatever sampling decides next.
Note(mints) == noted' = noted \cup {m.proc : m \in {n \in mints : n.meta = "applied"}}

---------------------------------------------------------------------------
Init ==
    /\ level \in Levels
    /\ minted = 0
    /\ log = <<>>
    /\ skips = EmptyBag
    /\ noted = {}
    /\ cycle = BaseCycle
    /\ scopes = <<>>
    /\ clock = 0
    /\ density = [anchors |-> 0, tokens |-> 0, started |-> 0, attested |-> -1]
    /\ stopped = FALSE
    /\ called = EmptyBag

(* A witness method with one anchor. *)
Witness(m) ==
    /\ minted < MaxMints
    /\ EnqueueSampled(<<AnchorOf(m, 1)>>)
    /\ minted' = minted + 1
    /\ Note({m})
    /\ UNCHANGED <<level, cycle, scopes, clock, stopped>>

(* record: the anchors of one inference.  In gateway mode, and when the factors   *)
(* cannot be handed off, it does nothing: the clearing comes after the handoff.   *)
Record ==
    /\ minted + Len(Inference) <= MaxMints
    /\ EnqueueSampled([k \in DOMAIN Inference |-> AnchorOf(Inference[k], k)])
    /\ minted' = minted + Len(Inference)
    /\ UNCHANGED <<level, noted, cycle, scopes, clock, stopped>>

(* verifyTrust: AI-TRUST.1 for the verdict, AI-TRUST.2 for the handshake. *)
VerifyTrust ==
    /\ minted + 2 <= MaxMints
    /\ EnqueueSampled(<<AnchorOf(MintOf("AI-TRUST.1"), 1), AnchorOf(MintOf("AI-TRUST.2"), 2)>>)
    /\ minted' = minted + 2
    /\ Note({MintOf("AI-TRUST.1"), MintOf("AI-TRUST.2")})
    /\ UNCHANGED <<level, cycle, scopes, clock, stopped>>

(* gateCheck and revoke put their anchor into the buffer themselves: it is neither *)
(* sampled nor counted.  gateCheck then throws if guardrails are missing.          *)
EnqueueDirect(m) ==
    /\ minted < MaxMints
    /\ Enter(<<AnchorOf(m, 1)>>)
    /\ minted' = minted + 1
    /\ UNCHANGED <<level, skips, noted, cycle, scopes, clock, density, stopped, called>>

GateCheck == \E m \in GateMints : EnqueueDirect(m)
Revoke == \E m \in RevocationMints : EnqueueDirect(m)

RecordSessionTokens ==
    /\ density.tokens < MaxTokens
    /\ density' = [density EXCEPT !.tokens = @ + 1]
    /\ UNCHANGED <<level, minted, log, skips, noted, cycle, scopes, clock, stopped, called>>

---------------------------------------------------------------------------
(* _emitSamplingSummaries: one AI-SAMPLE.1 for each procedure with skips; the *)
(* counts start again at zero.                                                *)
Skipped == DOMAIN skips

Summaries(order, k) ==
    [i \in 1..Len(order) |->
        [AnchorOf(MintOf("AI-SAMPLE.1"), k + i) EXCEPT
            !.value = skips[order[i]], !.about = order[i]]]

\* The object's keys come in the order in which they were first skipped: any.
Orders(S) == {f \in [1..Cardinality(S) -> S] : \A p \in S : \E i \in DOMAIN f : f[i] = p}

(* DensityEnforcer.evaluate: the anchors expected of the window, 0 if no attestation is due. *)
Expected ==
    LET elapsed == clock - density.started
        due == /\ elapsed >= ColdStart
               /\ density.anchors >= MinAnchors
               /\ density.attested > 0 => clock - density.attested >= RateLimit
    IN  CASE ~due -> 0
          [] due /\ density.tokens > 0 /\ PerThousand > 0 -> PerThousand * density.tokens
          [] due /\ (density.tokens = 0 \/ PerThousand = 0) /\ MaxGap > 0 ->
                (elapsed + MaxGap - 1) \div MaxGap
          [] OTHER -> 0

Attestation ==
    IF Expected = 0 THEN <<>>
    ELSE <<[AnchorOf(MintOf("AI-DENSITY.1"), 1) EXCEPT !.value = density.anchors]>>

\* Fault: the counts are not reset.
FlushKeepsCounts ==
    /\ minted + Len(Attestation) + Cardinality(Skipped) <= MaxMints
    /\ \E order \in Orders(Skipped) : Enter(Attestation \o Summaries(order, Len(Attestation)))
    /\ minted' = minted + Len(Attestation) + Cardinality(Skipped)
    /\ density' = IF Expected = 0 THEN density
                  ELSE [anchors |-> 0, tokens |-> 0, started |-> clock, attested |-> clock]
    /\ UNCHANGED <<level, skips, noted, cycle, scopes, clock, stopped, called>>

(* flush: the density attestation if one is due, the summaries, then the flush of the buffer. *)
Flush ==
    /\ minted + Len(Attestation) + Cardinality(Skipped) <= MaxMints
    /\ \E order \in Orders(Skipped) : Enter(Attestation \o Summaries(order, Len(Attestation)))
    /\ minted' = minted + Len(Attestation) + Cardinality(Skipped)
    /\ noted' = noted \cup (IF Expected = 0 THEN {} ELSE {"AI-DENSITY.1"})
                      \cup (IF Skipped = {} THEN {} ELSE {"AI-SAMPLE.1"})
    /\ density' = IF Expected = 0 THEN density
                  ELSE [anchors |-> 0, tokens |-> 0, started |-> clock, attested |-> clock]
    /\ skips' = EmptyBag
    /\ UNCHANGED <<level, cycle, scopes, clock, stopped, called>>

(* stop: the summaries only, and the buffer takes nothing afterwards. *)
Stop ==
    /\ minted + Cardinality(Skipped) <= MaxMints
    /\ \E order \in Orders(Skipped) : Enter(Summaries(order, 0))
    /\ minted' = minted + Cardinality(Skipped)
    /\ noted' = noted \cup (IF Skipped = {} THEN {} ELSE {"AI-SAMPLE.1"})
    /\ skips' = EmptyBag
    /\ stopped' = TRUE
    /\ UNCHANGED <<level, cycle, scopes, clock, density, called>>

Tick ==
    /\ clock < MaxTime
    /\ clock' = clock + 1
    /\ UNCHANGED <<level, minted, log, skips, noted, cycle, scopes, density, stopped, called>>

---------------------------------------------------------------------------
(* chain(): the shared config.cycleId is set for the callback, and what was there  *)
(* before is put back when the callback settles, in whatever order callbacks do so. *)
BeginScope(s) ==
    /\ \A i \in DOMAIN scopes : scopes[i].cycle # s
    /\ scopes' = Append(scopes, [cycle |-> s, previous |-> cycle])
    /\ cycle' = s
    /\ UNCHANGED <<level, minted, log, skips, noted, clock, density, stopped, called>>

EndScope(i) ==
    /\ cycle' = scopes[i].previous
    /\ scopes' = RemoveAt(scopes, i)
    /\ UNCHANGED <<level, minted, log, skips, noted, clock, density, stopped, called>>

SessionNext ==
    \/ \E m \in Methods : Witness(m)
    \/ Record
    \/ VerifyTrust
    \/ GateCheck
    \/ Revoke
    \/ RecordSessionTokens
    \/ Flush
    \/ Stop
    \/ Tick
    \/ \E s \in Scopes : BeginScope(s)
    \/ \E i \in DOMAIN scopes : EndScope(i)
---------------------------------------------------------------------------
SessionTypeOK ==
    /\ level \in Levels
    /\ minted \in 0..MaxMints
    /\ log \in Seq(Anchor)
    /\ IsABag(skips) /\ IsABag(called) /\ DOMAIN skips \cup DOMAIN called \subseteq Procs
    /\ noted \subseteq Procs \cup Metas
    /\ cycle \in Scopes \cup {BaseCycle}
    /\ scopes \in Seq([cycle : Scopes, previous : Scopes \cup {BaseCycle}])
    /\ clock \in 0..MaxTime
    /\ density \in [anchors : Nat, tokens : 0..MaxTokens, started : 0..MaxTime,
                    attested : -1..MaxTime]
    /\ stopped \in BOOLEAN

Copies(p, bag) == IF p \in DOMAIN bag THEN bag[p] ELSE 0
Total(values) == FoldLeft(+, 0, values)

\* What came through _enqueueSampled, by its places in the log: not the metas, not the
\* gate and the revocation, and of a lifecycle chain only the root.
SampledAt ==
    {i \in DOMAIN log : log[i].proc \in Procs /\ log[i].stage \in {"none", "initiated"}}

SummariesOf(p) == {i \in DOMAIN log : log[i].proc = "AI-SAMPLE.1" /\ log[i].about = p}
Attestations == {i \in DOMAIN log : log[i].proc = "AI-DENSITY.1"}

\* What the anchors at some places say, in all.
Told(places) == Total([i \in DOMAIN log |-> IF i \in places THEN log[i].value ELSE 0])

\* Until stop() every anchor a method hands to _enqueueSampled is accounted for:
\* it is in the buffer, or in the count of a summary there, or in the count that
\* the next summary will carry.  A rate hides anchors, never their number.
SkipsAccounted ==
    ~stopped => \A p \in DOMAIN called \cup Skipped :
        Copies(p, called) = Cardinality({i \in SampledAt : log[i].proc = p})
                            + Copies(p, skips) + Told(SummariesOf(p))

\* Until stop() the windows that AI-DENSITY.1 attests divide the anchors that were
\* counted: none is attested twice, none falls between two windows.
DensityAccounted ==
    ~stopped => Cardinality(SampledAt) = density.anchors + Told(Attestations)

Accounted == SkipsAccounted /\ DensityAccounted

\* Whatever path an anchor takes to the buffer, at level 3 it has neither a context
\* nor a model in clear: "Factors only. model_id hashed." (clearing.ts:12)  Level 2 is
\* left out: three methods send a reduced context there (witness.ts:2094-2103).
FactorsOnly ==
    level = 3 => \A i \in DOMAIN log : ~log[i].context /\ ~log[i].model
=============================================================================
