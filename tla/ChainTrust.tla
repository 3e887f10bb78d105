------------------------------- MODULE ChainTrust -------------------------------
(***************************************************************************)
(* The trust that is handed along a chain of agents, and the policy version *)
(* that may not go back (witness.ts).  The effective trust of a chain is    *)
(* the lowest level any agent of it was given.                              *)
(***************************************************************************)
EXTENDS WitnessSession, FiniteSetsExt

CONSTANTS
    TrustLevels,    \* the trust levels of the agents
    MinTrust,       \* config.chainMinTrustLevel
    Strict,         \* config.strict
    Versions,       \* policy versions
    MaxHandoffs     \* bound: length of trust

ASSUME TrustAssumption == TrustLevels \cup Versions \cup {MinTrust} \subseteq Nat
ASSUME StrictAssumption == Strict \in BOOLEAN

VARIABLES
    trust,          \* _chainTrustLevels
    lastKnownGood   \* _lastKnownGoodVersion

\* Definitions marked "Fault:" are the same code with one mistake in it.  They are no
\* part of the specification: each is what some property rules out.

\* Fault: the level of the last agent counts.
EffectiveOfLast(levels) == levels[Len(levels)]

Effective(levels) == Min({levels[i] : i \in DOMAIN levels})

\* A getter; 4 is the level of a chain without a handoff.
ChainEffectiveTrustLevel == IF trust = <<>> THEN 4 ELSE Effective(trust)

\* AI-CHAIN.1 carries the effective level.
HandoffAnchor(effective) ==
    [AnchorOf(MintOf("AI-CHAIN.1"), 1) EXCEPT !.value = effective]

\* AI-CHAIN.2, when there was a handoff before and this one lowers the level.
DegradationAnchors(before, effective) ==
    IF trust # <<>> /\ effective < before
    THEN <<[AnchorOf(MintOf("AI-CHAIN.2"), 2) EXCEPT !.value = effective, !.model = FALSE]>>
    ELSE <<>>

(* witnessChainTrustHandoff: the level is pushed before the minimum is enforced, so *)
(* that a handoff that throws has lowered the chain for good, without an anchor.    *)
HandOff(target) ==
    LET effective == Effective(Append(trust, target))
        anchors == <<HandoffAnchor(effective)>>
                       \o DegradationAnchors(ChainEffectiveTrustLevel, effective)
    IN  /\ Len(trust) < MaxHandoffs
        /\ trust' = Append(trust, target)
        /\ \/ /\ Strict /\ effective < MinTrust
              /\ UNCHANGED session
           \/ /\ ~(Strict /\ effective < MinTrust)
              /\ minted + Len(anchors) <= MaxMints
              /\ EnqueueSampled(anchors)
              /\ minted' = minted + Len(anchors)
              /\ noted' = noted \cup {"AI-CHAIN.1"}
              /\ UNCHANGED <<level, cycle, scopes, clock, stopped>>
        /\ UNCHANGED lastKnownGood

(* checkPolicyDowngrade: a version that is not lower is remembered; a lower one is *)
(* witnessed, and a strict caller is thrown at after that.                         *)
CheckPolicy(version) ==
    \/ /\ version >= lastKnownGood
       /\ lastKnownGood' = version
       /\ UNCHANGED <<session, trust>>
    \/ /\ version < lastKnownGood
       /\ minted < MaxMints
       /\ EnqueueSampled(<<[AnchorOf(MintOf("AI-METAGOV.3"), 1) EXCEPT !.value = version]>>)
       /\ minted' = minted + 1
       /\ noted' = noted \cup {"AI-METAGOV.3"}
       /\ UNCHANGED <<level, cycle, scopes, clock, stopped, trust, lastKnownGood>>

TrustInit == trust = <<>> /\ lastKnownGood = 0

TrustNext ==
    \/ \E t \in TrustLevels : HandOff(t)
    \/ \E v \in Versions : CheckPolicy(v)
---------------------------------------------------------------------------
\* The handoffs and degradations in the buffer; those of a lifecycle chain name it.
Positions(proc) == {i \in DOMAIN log : log[i].proc = proc /\ log[i].chain = 0}

\* The level of the chain after its first n handoffs.
EffectiveAfter(n) == Effective(SubSeq(trust, 1, n))

\* Where no rate hides a handoff and the program uses no witnessChainHandoff, which
\* mints AI-CHAIN.1 for something else, the trail in the buffer is that of the chain:
\* the effective level of the handoffs never rises, and a handoff that lowers it is
\* followed at once by its AI-CHAIN.2 and by nothing else is AI-CHAIN.2 preceded.
\* The last level witnessed is that of the chain after its first n handoffs; whatever
\* came later was refused, each with the level of the chain below the minimum.  Of
\* refused handoffs, which lower the chain all the same, the trail tells nothing.
TrustTrail ==
    LET handoffs == Positions("AI-CHAIN.1")
        Before(i) == {j \in handoffs : j < i}
        Degraded(i) == i + 1 \in Positions("AI-CHAIN.2") /\ log[i + 1].value = log[i].value
        others == Sampled \cup Never \cup {m.proc : m \in Methods}
    IN  {"AI-CHAIN.1", "AI-CHAIN.2"} \cap others = {} /\ ~stopped =>
            /\ \A i \in handoffs : Before(i) # {} =>
                LET previous == log[Max(Before(i))].value
                IN  log[i].value <= previous /\ (Degraded(i) <=> log[i].value < previous)
            /\ \A i \in Positions("AI-CHAIN.2") : i - 1 \in handoffs
            /\ \E n \in 0..Len(trust) :
                /\ n = 0 <=> handoffs = {}
                /\ n > 0 => /\ log[Max(handoffs)].value = EffectiveAfter(n)
                            /\ Strict => EffectiveAfter(n) >= MinTrust
                /\ \A m \in n + 1..Len(trust) : Strict /\ EffectiveAfter(m) < MinTrust
=============================================================================
