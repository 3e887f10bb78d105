----------------------------- MODULE WitnessProofs -----------------------------
(***************************************************************************)
(* Proofs about Witness, for every set of methods, every clearing level    *)
(* and every number of mints, scopes and handles.                          *)
(*                                                                         *)
(* FactorsOnly is inductive with TypeOK.  ParentsOlder is not: the parent  *)
(* of the next anchor is what a handle remembers, and that                 *)
(* this is in the buffer, as an anchor of the handle's chain, has to be    *)
(* carried along (HandlesKnow).                                            *)
(*                                                                         *)
(* TrustTrail and LineOfOneHandle compare anchors that follow each other   *)
(* in a trail or a chain.  Trail and Line say it of a sequence and its     *)
(* positions, so that one lemma covers all the anchors that do not belong  *)
(* to the trail (AsideKeeps) or the chain.  That no anchor names the chain *)
(* that is begun next is ChainsMinted.                                     *)
(*                                                                         *)
(* Accounted compares bags of counts with sums over the log.  Balance says *)
(* it with the number and the amount of anchors of a kind, both of which   *)
(* add up when a log is lengthened (NumberJoins, AmountJoins); a step then *)
(* has to show what it adds to either side (Entered).  That a fold is the  *)
(* sum of its parts is SummedOneByOne.                                     *)
(***************************************************************************)
EXTENDS Witness, OnceSequences, WellFoundedInduction, TLAPS

\* What clearing level 3 asks of an anchor.
Clear(a) == level = 3 => ~a.context /\ ~a.model

\* The last fingerprint of a handle is that of its chain's root, which may have been
\* sampled out, or that of an anchor of the chain in the buffer.
HandlesKnow ==
    \A h \in DOMAIN handles :
        /\ handles[h].chain <= minted /\ handles[h].last <= minted
        /\ \/ stopped
           \/ handles[h].last = handles[h].chain
           \/ \E j \in DOMAIN log :
                log[j].id = handles[h].last /\ log[j].chain = handles[h].chain

IdsMinted == \A i \in DOMAIN log : log[i].id <= minted

\* The rest of the type invariant that finite choices need.
SkipsFinite == IsFiniteSet(Skipped)

IInv == TypeOK /\ FactorsOnly /\ ParentsOlder /\ HandlesKnow /\ IdsMinted /\ SkipsFinite

AnchorProcs == Procs \cup Metas \cup {"AI-GRD.3", "AI-REV.1"}

-----------------------------------------------------------------------------
\* What a mint may let out, as far as the clearing levels are concerned.
Cautious(m) ==
    m.context \in Int /\ m.context <= 2 /\ m.model \in Int /\ m.model <= 2

LEMMA ShapedIsCautious ==
    ASSUME NEW procs, NEW meta, NEW context \in Int, context <= 2, NEW model \in Int, model <= 2
    PROVE  \A m \in Shaped(procs, meta, context, model) : Cautious(m)
BY DEF Shaped, Cautious

LEMMA PlainIsCautious ==
    ASSUME NEW procs
    PROVE  \A m \in Mint(procs) \cup Inline(procs) \cup Bare(procs) \cup Reduced(procs) :
               Cautious(m)
BY ShapedIsCautious DEF Mint, Inline, Bare, Reduced

LEMMA ReducedIsCautious ==
    \A m \in ContainmentMints \cup TrajectoryMints \cup CostMints : Cautious(m)
BY PlainIsCautious DEF ContainmentMints, TrajectoryMints, CostMints

LEMMA InferenceIsCautious ==
    \A m \in InferenceMints \cup CallMints \cup GateMints \cup RevocationMints : Cautious(m)
<1>1. \A m \in InferenceMints : Cautious(m)
  BY ShapedIsCautious DEF InferenceMints
<1>2. \A m \in CallMints : Cautious(m)
  BY PlainIsCautious DEF CallMints
<1>3. \A m \in GateMints \cup RevocationMints : Cautious(m)
  BY ShapedIsCautious DEF GateMints, RevocationMints
<1> QED
  BY <1>1, <1>2, <1>3

\* Every method of the class lets out only what the levels allow.
LEMMA SurfaceIsCautious == \A m \in Surface : Cautious(m)
<1>1. \A m \in UNION {SecurityMints, RagMints, WeightMints, SkillMints, HardwareMints,
             EnvironmentMints, ContentMints, ComponentMints, CampaignMints,
             DelegationMints, MonitorMints, DataMints} : Cautious(m)
  BY PlainIsCautious DEF SecurityMints, RagMints, WeightMints, SkillMints, HardwareMints,
     EnvironmentMints, ContentMints, ComponentMints, CampaignMints, DelegationMints,
     MonitorMints, DataMints
<1>2. \A m \in UNION {BenchmarkMints, DisclosureMints, DecisionMints, RiskMints, CredentialMints,
             CredentialEndMints, HardwareBillMints, ConstructionMints, SiteMints,
             BatteryMints, GridMints, OrchestrationMints} : Cautious(m)
  BY PlainIsCautious DEF BenchmarkMints, DisclosureMints, DecisionMints, RiskMints,
     CredentialMints, CredentialEndMints, HardwareBillMints, ConstructionMints, SiteMints,
     BatteryMints, GridMints, OrchestrationMints
<1>3. \A m \in UNION {SandboxMints, ReviewMints, SafetyMints, FairnessMints, GovernanceMints,
             OverrideMints, BoundaryMints, ServerMints, DiscoveryMints, TaskMints,
             ContextMints, ProvenanceMints} : Cautious(m)
  BY PlainIsCautious DEF SandboxMints, ReviewMints, SafetyMints, FairnessMints,
     GovernanceMints, OverrideMints, BoundaryMints, ServerMints, DiscoveryMints, TaskMints,
     ContextMints, ProvenanceMints
<1>4. \A m \in UNION {FrameworkMints, AccountabilityMints, ImpactMints, EngineeringMints,
             FabricationMints, TransactionMints, RoutingMints, OverseerMints,
             RetirementMints} : Cautious(m)
  BY PlainIsCautious DEF FrameworkMints, AccountabilityMints, ImpactMints,
     EngineeringMints, FabricationMints, TransactionMints, RoutingMints, OverseerMints,
     RetirementMints
<1> QED
  BY <1>1, <1>2, <1>3, <1>4, ReducedIsCautious, InferenceIsCautious DEF Surface

-----------------------------------------------------------------------------
LEMMA MadeAnchor ==
    ASSUME level \in 0..3, minted \in Nat, NEW m, m.proc \in AnchorProcs,
           NEW k \in Nat \ {0}, minted + k <= MaxMints
    PROVE  LET a == AnchorOf(m, k)
           IN  /\ a \in Anchor
               /\ a.id = minted + k /\ a.proc = m.proc
               /\ a.value = 0 /\ a.about = "none"
               /\ a.chain = 0 /\ a.parent = 0 /\ a.stage = "none"
               /\ Cautious(m) => Clear(a)
<1> DEFINE a == AnchorOf(m, k)
<1>1. MaxMints \in Nat /\ minted + k \in 1..MaxMints
  BY SessionAssumption
<1>2. (level <= m.context) \in BOOLEAN /\ (level <= m.model) \in BOOLEAN /\ (m.meta # "none") \in BOOLEAN
  OBVIOUS
<1>3. a \in Anchor
  BY <1>1, <1>2 DEF AnchorOf, Anchor, AnchorProcs, Stages
<1>4. Cautious(m) => Clear(a)
  <2> SUFFICES ASSUME Cautious(m) PROVE Clear(a)
    OBVIOUS
  <2>1. a.context = (level <= m.context) /\ a.model = (level <= m.model) /\ a.proc = m.proc
    BY DEF AnchorOf
  <2>2. level = 3 => ~(level <= m.context) /\ ~(level <= m.model)
    BY DEF Cautious
  <2> HIDE DEF a
  <2> QED
    BY <2>1, <2>2 DEF Clear
<1> QED
  BY <1>3, <1>4 DEF AnchorOf

LEMMA PlainMint ==
    ASSUME NEW p
    PROVE  Cautious(MintOf(p)) /\ MintOf(p).proc = p
BY DEF MintOf, Cautious

\* The log after some anchors were given to the buffer.
Grown(anchors) ==
    /\ log' \in Seq(Anchor)
    /\ Len(log) <= Len(log')
    /\ \A i \in DOMAIN log : i \in DOMAIN log' /\ log'[i] = log[i]
    /\ \A i \in DOMAIN log' \ DOMAIN log : \E j \in DOMAIN anchors : log'[i] = anchors[j]

LEMMA EnterGrows ==
    ASSUME log \in Seq(Anchor), NEW anchors \in Seq(Anchor), Enter(anchors)
    PROVE  Grown(anchors)
<1>1. CASE stopped
  BY <1>1 DEF Enter, Grown
<1>2. CASE ~stopped
  <2>1. log' = log \o anchors
    BY <1>2 DEF Enter
  <2>2. log' \in Seq(Anchor) /\ Len(log') = Len(log) + Len(anchors)
    BY <2>1
  <2>3. \A i \in 1..Len(log) : log'[i] = log[i]
    BY <2>1
  <2>4. ASSUME NEW i \in DOMAIN log' \ DOMAIN log
        PROVE  i - Len(log) \in DOMAIN anchors /\ log'[i] = anchors[i - Len(log)]
    BY <2>1, <2>2
  <2> QED
    BY <2>2, <2>3, <2>4 DEF Grown
<1> QED
  BY <1>1, <1>2

-----------------------------------------------------------------------------
LEMMA BagOfProcs ==
    ASSUME NEW anchors \in Seq(Anchor), NEW places \in SUBSET DOMAIN anchors
    PROVE  /\ IsABag(ProcsOf(anchors, places))
           /\ DOMAIN ProcsOf(anchors, places) = {anchors[i].proc : i \in places}
           /\ IsFiniteSet(DOMAIN ProcsOf(anchors, places))
<1> DEFINE procs == {anchors[i].proc : i \in places}
           At(p) == {i \in places : anchors[i].proc = p}
<1>1. IsFiniteSet(places)
  <2>1. DOMAIN anchors = 1..Len(anchors) /\ Len(anchors) \in Nat
    OBVIOUS
  <2>2. IsFiniteSet(DOMAIN anchors)
    BY <2>1, FS_Interval
  <2> QED
    BY <2>2, FS_Subset
<1>2. IsFiniteSet(procs)
  <2> DEFINE f == [i \in places |-> anchors[i].proc]
  <2>1. f \in [places -> procs] /\ \A p \in procs : \E i \in places : f[i] = p
    OBVIOUS
  <2>2. f \in Surjection(places, procs)
    BY <2>1 DEF Surjection
  <2> QED
    BY <1>1, <2>2, FS_Surjection
<1>3. ASSUME NEW p \in procs
      PROVE  Cardinality(At(p)) \in Nat /\ Cardinality(At(p)) > 0
  <2>1. IsFiniteSet(At(p)) /\ At(p) # {}
    BY <1>1, FS_Subset
  <2> QED
    BY <2>1, FS_CardinalityType, FS_EmptySet
<1>4. ProcsOf(anchors, places) = [p \in procs |-> Cardinality(At(p))]
  BY DEF ProcsOf
<1> HIDE DEF procs, At
<1> QED
  BY <1>2, <1>3, <1>4 DEF IsABag, procs

LEMMA BagSum ==
    ASSUME NEW A, NEW B, IsABag(A), IsABag(B)
    PROVE  IsABag(A (+) B) /\ DOMAIN (A (+) B) = DOMAIN A \cup DOMAIN B
BY DEF IsABag, (+)

LEMMA BagOneMore ==
    ASSUME NEW A, NEW p, IsABag(A)
    PROVE  IsABag(A (+) SetToBag({p})) /\ DOMAIN (A (+) SetToBag({p})) = DOMAIN A \cup {p}
BY DEF IsABag, SetToBag, (+)

\* What the session counts is well-formed.
Counts ==
    /\ IsABag(skips) /\ IsABag(called) /\ DOMAIN skips \cup DOMAIN called \subseteq Procs
    /\ SkipsFinite
    /\ density \in [anchors : Nat, tokens : 0..MaxTokens, started : 0..MaxTime,
                    attested : -1..MaxTime]

LEMMA CountsHold == IInv => Counts
BY DEF IInv, TypeOK, SessionTypeOK, Counts

LEMMA SampledGrows ==
    ASSUME IInv, NEW anchors \in Seq(Anchor),
           \A j \in DOMAIN anchors : anchors[j].proc \in Procs,
           EnqueueSampled(anchors)
    PROVE  Grown(anchors) /\ Counts'
<1>1. PICK enter \in Picks(Len(anchors)) :
        /\ Enter([k \in DOMAIN enter |-> anchors[enter[k]]])
        /\ density' = [density EXCEPT !.anchors = @ + Len(enter)]
        /\ skips' = skips (+) ProcsOf(anchors, DOMAIN anchors \ Range(enter))
        /\ called' = called (+) ProcsOf(anchors, DOMAIN anchors)
  BY DEF EnqueueSampled
<1>2. Len(anchors) \in Nat /\ DOMAIN anchors = 1..Len(anchors)
  OBVIOUS
<1>3. PICK n \in 0..Len(anchors) : enter \in [1..n -> 1..Len(anchors)]
  BY DEF Picks
<1>4. n \in Nat /\ Len(enter) = n /\ DOMAIN enter = 1..n
  BY <1>2, <1>3
<1> DEFINE entering == [k \in DOMAIN enter |-> anchors[enter[k]]]
<1>5. entering \in Seq(Anchor) /\ \A k \in DOMAIN entering : \E j \in DOMAIN anchors : entering[k] = anchors[j]
  BY <1>2, <1>3, <1>4
<1>6. log \in Seq(Anchor) /\ Counts
  BY CountsHold DEF IInv, TypeOK, SessionTypeOK
<1>7. Grown(anchors)
  <2> HIDE DEF entering
  <2>1. Grown(entering)
    BY <1>1, <1>5, <1>6, EnterGrows DEF entering
  <2> QED
    BY <2>1, <1>5 DEF Grown
<1>8. \A places \in SUBSET DOMAIN anchors :
        LET bag == ProcsOf(anchors, places)
        IN  IsABag(bag) /\ DOMAIN bag \subseteq Procs /\ IsFiniteSet(DOMAIN bag)
  <2> TAKE places \in SUBSET DOMAIN anchors
  <2>1. DOMAIN ProcsOf(anchors, places) \subseteq Procs
    BY DEF ProcsOf
  <2> QED
    BY <2>1, BagOfProcs
<1>9. IsABag(skips') /\ DOMAIN skips' \subseteq Procs /\ SkipsFinite'
  <2> DEFINE bag == ProcsOf(anchors, DOMAIN anchors \ Range(enter))
  <2>1. IsABag(bag) /\ DOMAIN bag \subseteq Procs /\ IsFiniteSet(DOMAIN bag)
    BY <1>8
  <2> HIDE DEF bag
  <2>2. IsABag(skips') /\ DOMAIN skips' = DOMAIN skips \cup DOMAIN bag
    BY <1>1, <1>6, <2>1, BagSum DEF Counts, bag
  <2>3. IsFiniteSet(DOMAIN skips) /\ DOMAIN skips \subseteq Procs
    BY <1>6 DEF Counts, SkipsFinite, Skipped
  <2>4. IsFiniteSet(DOMAIN skips \cup DOMAIN bag)
    BY <2>1, <2>3, FS_Union
  <2> QED
    BY <2>1, <2>2, <2>3, <2>4 DEF SkipsFinite, Skipped
<1>10. IsABag(called') /\ DOMAIN called' \subseteq Procs
  <2> DEFINE bag == ProcsOf(anchors, DOMAIN anchors)
  <2>1. IsABag(bag) /\ DOMAIN bag \subseteq Procs
    BY <1>8
  <2> HIDE DEF bag
  <2>2. IsABag(called') /\ DOMAIN called' = DOMAIN called \cup DOMAIN bag
    BY <1>1, <1>6, <2>1, BagSum DEF Counts, bag
  <2> QED
    BY <1>6, <2>1, <2>2 DEF Counts
<1>11. density' \in [anchors : Nat, tokens : 0..MaxTokens, started : 0..MaxTime,
                     attested : -1..MaxTime]
  <2>1. density \in [anchors : Nat, tokens : 0..MaxTokens, started : 0..MaxTime,
                     attested : -1..MaxTime]
    BY <1>6 DEF Counts
  <2>2. density.anchors + Len(enter) \in Nat
    BY <2>1, <1>4
  <2> QED
    BY <1>1, <2>1, <2>2
<1> QED
  BY <1>7, <1>9, <1>10, <1>11 DEF Counts

-----------------------------------------------------------------------------
\* Anchors that no level forbids, without a parent, with numbers given out by now.
Orphans(anchors) ==
    \A j \in DOMAIN anchors :
        Clear(anchors[j]) /\ anchors[j].parent = 0 /\ anchors[j].id <= minted'

\* Or with a parent that is the root of their chain or an anchor of it in the buffer.
Linked(anchors) ==
    \A j \in DOMAIN anchors :
        /\ Clear(anchors[j]) /\ anchors[j].id <= minted'
        /\ anchors[j].parent # 0 =>
            /\ anchors[j].parent < anchors[j].id
            /\ \/ anchors[j].parent = anchors[j].chain
               \/ \E k \in DOMAIN log :
                    /\ log[k].id = anchors[j].parent
                    /\ log[k].chain = anchors[j].chain

LEMMA OrphansAreLinked == ASSUME NEW anchors, Orphans(anchors) PROVE Linked(anchors)
BY DEF Orphans, Linked

\* A step that gives such anchors to the buffer, and leaves level and scopes alone.
MintStep(anchors) ==
    /\ Grown(anchors) /\ Linked(anchors) /\ Counts'
    /\ minted' \in 0..MaxMints /\ minted <= minted'
    /\ noted' \subseteq Procs \cup Metas
    /\ stopped' \in BOOLEAN /\ (stopped => stopped')
    /\ UNCHANGED <<level, cycle, scopes, clock>>

LEMMA TypesOf ==
    IInv => /\ level \in 0..3 /\ minted \in 0..MaxMints /\ MaxMints \in Nat
            /\ log \in Seq(Anchor) /\ stopped \in BOOLEAN
            /\ noted \subseteq Procs \cup Metas
BY SessionAssumption DEF IInv, TypeOK, SessionTypeOK

LEMMA MintsKeep ==
    ASSUME IInv, NEW anchors, MintStep(anchors)
    PROVE  /\ SessionTypeOK' /\ SkipsFinite'
           /\ FactorsOnly' /\ ParentsOlder' /\ IdsMinted'
<1> USE TypesOf DEF MintStep
<1>1. SessionTypeOK' /\ SkipsFinite'
  BY DEF IInv, TypeOK, SessionTypeOK, Counts, Grown
<1>3. \A i \in DOMAIN log' :
        \/ i \in DOMAIN log /\ log'[i] = log[i]
        \/ /\ i \notin DOMAIN log /\ Clear(log'[i]) /\ log'[i].id <= minted'
           /\ log'[i].parent # 0 =>
                /\ log'[i].parent < log'[i].id
                /\ \/ log'[i].parent = log'[i].chain
                   \/ \E k \in DOMAIN log :
                        log[k].id = log'[i].parent /\ log[k].chain = log'[i].chain
  BY DEF Grown, Linked
<1>4. \A i \in DOMAIN log : Clear(log[i]) /\ log[i].id <= minted /\ log[i].id \in Nat
  <2>1. \A i \in DOMAIN log : log[i] \in Anchor
    OBVIOUS
  <2>2. \A i \in DOMAIN log : log[i].id \in Nat
    BY <2>1 DEF Anchor
  <2> QED
    BY <2>2 DEF IInv, FactorsOnly, IdsMinted, Clear
<1>5. FactorsOnly'
  <2> SUFFICES ASSUME NEW i \in DOMAIN log'
               PROVE  level = 3 => ~log'[i].context /\ ~log'[i].model
    BY DEF FactorsOnly
  <2> QED
    BY <1>3, <1>4 DEF Clear
<1>6. IdsMinted'
  BY <1>3, <1>4 DEF IdsMinted
<1>7. ParentsOlder'
  <2> SUFFICES ASSUME NEW i \in DOMAIN log', log'[i].parent # 0
               PROVE  /\ log'[i].parent < log'[i].id
                      /\ log'[i].parent = log'[i].chain
                          \/ \E j \in 1..i - 1 : /\ log'[j].id = log'[i].parent
                                                 /\ log'[j].chain = log'[i].chain
    BY DEF ParentsOlder
  <2>1. CASE i \in DOMAIN log /\ log'[i] = log[i]
    <3>1. \A j \in 1..i - 1 : j \in DOMAIN log /\ log'[j] = log[j]
      BY <2>1 DEF Grown
    <3> QED
      BY <2>1, <3>1 DEF IInv, ParentsOlder
  <2>2. CASE i \notin DOMAIN log
    <3>1. \A k \in DOMAIN log : k \in 1..i - 1 /\ log'[k] = log[k]
      BY <2>2 DEF Grown
    <3> QED
      BY <1>3, <2>2, <3>1
  <2> QED
    BY <1>3, <2>1, <2>2
<1> QED
  BY <1>1, <1>5, <1>6, <1>7

\* What a handle knows, after a step.
KnownAfter(handle) ==
    /\ handle.chain <= minted' /\ handle.last <= minted'
    /\ \/ stopped'
       \/ handle.last = handle.chain
       \/ \E j \in DOMAIN log' : log'[j].id = handle.last /\ log'[j].chain = handle.chain

LEMMA StillKnown ==
    ASSUME IInv, NEW anchors, Grown(anchors), NEW h \in DOMAIN handles,
           minted' \in Nat, minted <= minted', stopped => stopped'
    PROVE  KnownAfter(handles[h])
<1>1. handles[h] \in Handle
  BY DEF IInv, TypeOK
<1>2. handles[h].chain \in Nat /\ handles[h].last \in Nat
  BY <1>1, SessionAssumption DEF Handle
<1>3. handles[h].chain <= minted' /\ handles[h].last <= minted'
  BY <1>2, TypesOf DEF IInv, HandlesKnow
<1> QED
  BY <1>3 DEF IInv, HandlesKnow, Grown, KnownAfter

LEMMA KnowAfter ==
    ASSUME \A h \in DOMAIN handles' : KnownAfter(handles'[h])
    PROVE  HandlesKnow'
BY DEF HandlesKnow, KnownAfter

LEMMA HandlesStay ==
    ASSUME IInv, NEW anchors, Grown(anchors), UNCHANGED handles,
           minted' \in Nat, minted <= minted', stopped => stopped'
    PROVE  HandlesKnow'
BY StillKnown, KnowAfter

\* A step that mints, and nothing else.
LEMMA MintOnly ==
    ASSUME IInv, NEW anchors, MintStep(anchors), UNCHANGED handles,
           trust' \in Seq(TrustLevels), lastKnownGood' \in Versions \cup {0}
    PROVE  IInv'
<1>1. HandlesKnow'
  BY HandlesStay, TypesOf DEF MintStep
<1>2. handles' \in Seq(Handle)
  BY DEF IInv, TypeOK
<1> QED
  BY <1>1, <1>2, MintsKeep DEF IInv, TypeOK

-----------------------------------------------------------------------------
LEMMA SampledMint ==
    ASSUME IInv, NEW anchors \in Seq(Anchor), EnqueueSampled(anchors), Orphans(anchors),
           \A j \in DOMAIN anchors : anchors[j].proc \in Procs,
           minted' \in 0..MaxMints, minted <= minted', noted' \subseteq Procs \cup Metas,
           UNCHANGED <<level, cycle, scopes, clock, stopped>>
    PROVE  MintStep(anchors)
BY SampledGrows, OrphansAreLinked, TypesOf DEF MintStep

\* The anchor of a mint that every level allows, as the k-th of a call.
LEMMA OrphanMade ==
    ASSUME IInv, NEW m, Cautious(m), m.proc \in AnchorProcs,
           NEW k \in Nat \ {0}, minted + k <= minted', minted' \in 0..MaxMints
    PROVE  LET a == AnchorOf(m, k)
           IN  /\ a \in Anchor /\ Clear(a) /\ a.parent = 0 /\ a.id = minted + k
               /\ a.id <= minted' /\ a.proc = m.proc /\ a.chain = 0 /\ a.value = 0
BY MadeAnchor, TypesOf

LEMMA WitnessKeeps ==
    ASSUME IInv, NEW m \in Methods, Witness(m), UNCHANGED <<handles, trust, lastKnownGood>>
    PROVE  IInv'
<1> DEFINE a == AnchorOf(m, 1)
<1>1. m \in Surface /\ Cautious(m) /\ m.proc \in Procs
  BY MethodsAssumption, SurfaceIsCautious DEF Procs
<1>2. minted' = minted + 1 /\ minted' \in 0..MaxMints
  BY TypesOf DEF Witness
<1>3. a \in Anchor /\ Clear(a) /\ a.parent = 0 /\ a.id <= minted' /\ a.proc = m.proc
  BY <1>1, <1>2, OrphanMade, TypesOf DEF AnchorProcs
<1> HIDE DEF a
<1>4. <<a>> \in Seq(Anchor) /\ Orphans(<<a>>) /\ \A j \in DOMAIN <<a>> : <<a>>[j].proc \in Procs
  BY <1>1, <1>3 DEF Orphans
<1>5. noted' \subseteq Procs \cup Metas
  BY <1>1, TypesOf DEF Witness, Note
<1>6. EnqueueSampled(<<a>>) /\ UNCHANGED <<level, cycle, scopes, clock, stopped>>
  BY DEF Witness, a
<1>7. MintStep(<<a>>)
  <2> DEFINE anchors == <<a>>
  <2>1. /\ anchors \in Seq(Anchor) /\ Orphans(anchors) /\ EnqueueSampled(anchors)
        /\ \A j \in DOMAIN anchors : anchors[j].proc \in Procs
    BY <1>4, <1>6
  <2> HIDE DEF anchors
  <2>2. MintStep(anchors)
    BY <1>2, <1>5, <1>6, <2>1, SampledMint, TypesOf
  <2> QED
    BY <2>2 DEF anchors
<1> QED
  BY <1>7, MintOnly DEF IInv, TypeOK

LEMMA RecordKeeps ==
    ASSUME IInv, Record, UNCHANGED <<handles, trust, lastKnownGood>>
    PROVE  IInv'
<1> DEFINE anchors == [k \in DOMAIN Inference |-> AnchorOf(Inference[k], k)]
<1>1. Len(Inference) \in Nat /\ DOMAIN Inference = 1..Len(Inference)
  BY InferenceAssumption
<1>2. minted' = minted + Len(Inference) /\ minted' \in 0..MaxMints
  BY <1>1, TypesOf DEF Record
<1>3. \A k \in DOMAIN Inference : /\ Cautious(Inference[k])
                                  /\ Inference[k].proc \in Procs
  <2>1. \A k \in DOMAIN Inference : Inference[k] \in InferenceMints
    BY InferenceAssumption
  <2>2. InferenceMints \subseteq Surface
    BY DEF Surface
  <2> QED
    BY <2>1, <2>2, InferenceIsCautious DEF Procs
<1>4. \A k \in DOMAIN Inference :
        LET a == AnchorOf(Inference[k], k)
        IN  a \in Anchor /\ Clear(a) /\ a.parent = 0 /\ a.id <= minted' /\ a.proc \in Procs
  <2> TAKE k \in DOMAIN Inference
  <2>1. k \in Nat \ {0} /\ minted + k <= minted'
    BY <1>1, <1>2, TypesOf
  <2> QED
    BY <1>2, <1>3, <2>1, OrphanMade DEF AnchorProcs
<1>5. /\ anchors \in Seq(Anchor) /\ Orphans(anchors)
      /\ \A j \in DOMAIN anchors : anchors[j].proc \in Procs
  BY <1>1, <1>4 DEF Orphans
<1>6. EnqueueSampled(anchors) /\ UNCHANGED <<level, noted, cycle, scopes, clock, stopped>>
  BY DEF Record
<1> HIDE DEF anchors
<1>7. MintStep(anchors)
  BY <1>1, <1>2, <1>5, <1>6, SampledMint, TypesOf
<1> QED
  BY <1>7, MintOnly DEF IInv, TypeOK

LEMMA VerifyTrustKeeps ==
    ASSUME IInv, VerifyTrust, UNCHANGED <<handles, trust, lastKnownGood>>
    PROVE  IInv'
<1> DEFINE a == AnchorOf(MintOf("AI-TRUST.1"), 1)
           b == AnchorOf(MintOf("AI-TRUST.2"), 2)
<1>1. {"AI-TRUST.1", "AI-TRUST.2"} \subseteq Procs
  BY DEF Procs
<1>2. minted' = minted + 2 /\ minted' \in 0..MaxMints
  BY TypesOf DEF VerifyTrust
<1>3. a \in Anchor /\ Clear(a) /\ a.parent = 0 /\ a.id <= minted' /\ a.proc \in Procs
  BY <1>1, <1>2, OrphanMade, PlainMint, TypesOf DEF AnchorProcs
<1>4. b \in Anchor /\ Clear(b) /\ b.parent = 0 /\ b.id <= minted' /\ b.proc \in Procs
  BY <1>1, <1>2, OrphanMade, PlainMint, TypesOf DEF AnchorProcs
<1>5. noted' \subseteq Procs \cup Metas
  BY <1>1, TypesOf, PlainMint DEF VerifyTrust, Note
<1>6. EnqueueSampled(<<a, b>>) /\ UNCHANGED <<level, cycle, scopes, clock, stopped>>
  BY DEF VerifyTrust
<1> HIDE DEF a, b
<1> DEFINE anchors == <<a, b>>
<1>7. /\ anchors \in Seq(Anchor) /\ Orphans(anchors) /\ EnqueueSampled(anchors)
      /\ \A j \in DOMAIN anchors : anchors[j].proc \in Procs
  BY <1>3, <1>4, <1>6 DEF Orphans
<1> HIDE DEF anchors
<1>8. MintStep(anchors)
  BY <1>2, <1>5, <1>6, <1>7, SampledMint, TypesOf
<1> QED
  BY <1>8, MintOnly DEF IInv, TypeOK

LEMMA DirectKeeps ==
    ASSUME IInv, NEW m \in GateMints \cup RevocationMints, EnqueueDirect(m),
           UNCHANGED <<handles, trust, lastKnownGood>>
    PROVE  IInv'
<1> DEFINE a == AnchorOf(m, 1)
<1>1. Cautious(m) /\ m.proc \in {"AI-GRD.3", "AI-REV.1"}
  BY InferenceIsCautious DEF GateMints, RevocationMints, Shaped
<1>2. minted' = minted + 1 /\ minted' \in 0..MaxMints
  BY TypesOf DEF EnqueueDirect
<1>3. a \in Anchor /\ Clear(a) /\ a.parent = 0 /\ a.id <= minted'
  BY <1>1, <1>2, OrphanMade, TypesOf DEF AnchorProcs
<1>4. Enter(<<a>>)
  BY DEF EnqueueDirect
<1> HIDE DEF a
<1>5. <<a>> \in Seq(Anchor) /\ Orphans(<<a>>)
  BY <1>3 DEF Orphans
<1>6. Grown(<<a>>)
  BY <1>4, <1>5, EnterGrows, TypesOf
<1>7. Counts'
  BY CountsHold DEF Counts, EnqueueDirect, SkipsFinite, Skipped
<1>8. MintStep(<<a>>)
  BY <1>2, <1>5, <1>6, <1>7, OrphansAreLinked, TypesOf DEF MintStep, EnqueueDirect
<1> QED
  BY <1>8, MintOnly DEF IInv, TypeOK

-----------------------------------------------------------------------------
\* The anchors that a Witness mints for its own bookkeeping.
Unchained(anchors) ==
    \A j \in DOMAIN anchors : anchors[j].chain = 0 /\ anchors[j].proc \in Metas

LEMMA SummariesMade ==
    ASSUME IInv, NEW order \in Orders(Skipped), NEW k \in Nat,
           minted + k + Cardinality(Skipped) <= minted', minted' \in 0..MaxMints
    PROVE  /\ Summaries(order, k) \in Seq(Anchor) /\ Orphans(Summaries(order, k))
           /\ Unchained(Summaries(order, k))
<1> DEFINE n == Cardinality(Skipped)
           made(i) == [AnchorOf(MintOf("AI-SAMPLE.1"), k + i) EXCEPT
                          !.value = skips[order[i]], !.about = order[i]]
<1>1. n \in Nat /\ order \in [1..n -> Skipped]
  BY FS_CardinalityType DEF Orders, IInv, SkipsFinite
<1>2. Len(order) = n /\ order \in Seq(Skipped)
  BY <1>1
<1>3. ASSUME NEW i \in 1..n
      PROVE  /\ made(i) \in Anchor /\ Clear(made(i))
             /\ made(i).parent = 0 /\ made(i).id <= minted'
             /\ made(i).chain = 0 /\ made(i).proc \in Metas
  <2> DEFINE a == AnchorOf(MintOf("AI-SAMPLE.1"), k + i)
  <2>1. k + i \in Nat \ {0} /\ minted + (k + i) <= minted'
    BY <1>1, TypesOf
  <2>2. /\ a \in Anchor /\ Clear(a) /\ a.parent = 0 /\ a.id <= minted'
        /\ a.proc = "AI-SAMPLE.1" /\ a.chain = 0
    BY <2>1, OrphanMade, PlainMint DEF AnchorProcs, Metas
  <2>3. order[i] \in Skipped /\ skips[order[i]] \in Nat /\ order[i] \in Procs
    BY <1>1, CountsHold DEF Counts, Skipped, IsABag
  <2> HIDE DEF a
  <2>4. [a EXCEPT !.value = skips[order[i]], !.about = order[i]] \in Anchor
    BY <2>2, <2>3 DEF Anchor
  <2>5. Clear([a EXCEPT !.value = skips[order[i]], !.about = order[i]])
    BY <2>2, <2>3 DEF Anchor, Clear
  <2>6. /\ [a EXCEPT !.value = skips[order[i]], !.about = order[i]].parent = 0
        /\ [a EXCEPT !.value = skips[order[i]], !.about = order[i]].id <= minted'
        /\ [a EXCEPT !.value = skips[order[i]], !.about = order[i]].chain = 0
        /\ [a EXCEPT !.value = skips[order[i]], !.about = order[i]].proc \in Metas
    BY <2>2, <2>3 DEF Anchor, Metas
  <2> QED
    BY <2>4, <2>5, <2>6 DEF a
<1>4. Summaries(order, k) = [i \in 1..n |-> made(i)]
  BY <1>2 DEF Summaries
<1> HIDE DEF made
<1> QED
  BY <1>1, <1>3, <1>4 DEF Orphans, Unchained

LEMMA AttestationMade ==
    ASSUME IInv, minted + Len(Attestation) <= minted', minted' \in 0..MaxMints
    PROVE  Attestation \in Seq(Anchor) /\ Orphans(Attestation) /\ Unchained(Attestation)
<1>1. CASE Expected = 0
  BY <1>1 DEF Attestation, Orphans, Unchained
<1>2. CASE Expected # 0
  <2> DEFINE a == AnchorOf(MintOf("AI-DENSITY.1"), 1)
             b == [a EXCEPT !.value = density.anchors]
  <2>1. Attestation = <<b>>
    BY <1>2 DEF Attestation
  <2>2. Len(Attestation) = 1
    BY <2>1
  <2>3. /\ a \in Anchor /\ Clear(a) /\ a.parent = 0 /\ a.id <= minted'
        /\ a.proc = "AI-DENSITY.1" /\ a.chain = 0
    BY <2>2, OrphanMade, PlainMint, TypesOf DEF AnchorProcs, Metas
  <2>4. density.anchors \in Nat
    BY CountsHold DEF Counts
  <2> HIDE DEF a
  <2>5. /\ b \in Anchor /\ Clear(b) /\ b.parent = 0 /\ b.id <= minted'
        /\ b.chain = 0 /\ b.proc \in Metas
    BY <2>3, <2>4 DEF Anchor, Clear, Metas
  <2> HIDE DEF b
  <2> QED
    BY <2>1, <2>5 DEF Orphans, Unchained
<1> QED
  BY <1>1, <1>2

LEMMA FlushKeeps ==
    ASSUME IInv, Flush, UNCHANGED <<handles, trust, lastKnownGood>>
    PROVE  IInv'
<1>1. PICK order \in Orders(Skipped) : Enter(Attestation \o Summaries(order, Len(Attestation)))
  BY DEF Flush
<1>2. Len(Attestation) \in Nat /\ Cardinality(Skipped) \in Nat
  BY FS_CardinalityType DEF IInv, SkipsFinite, Attestation
<1>3. /\ minted' = minted + Len(Attestation) + Cardinality(Skipped)
      /\ minted' \in 0..MaxMints /\ minted <= minted'
  BY <1>2, TypesOf DEF Flush
<1> DEFINE head == Attestation
           tail == Summaries(order, Len(Attestation))
<1>4. head \in Seq(Anchor) /\ Orphans(head)
  BY <1>2, <1>3, AttestationMade, TypesOf
<1>5. tail \in Seq(Anchor) /\ Orphans(tail)
  BY <1>2, <1>3, SummariesMade, TypesOf
<1>6. Enter(head \o tail)
  BY <1>1
<1> HIDE DEF head, tail
<1> DEFINE anchors == head \o tail
<1>7. anchors \in Seq(Anchor) /\ Orphans(anchors)
  <2>1. anchors \in Seq(Anchor) /\ DOMAIN anchors = 1..(Len(head) + Len(tail))
    BY <1>4, <1>5
  <2>2. \A j \in DOMAIN anchors :
            \/ j \in DOMAIN head /\ anchors[j] = head[j]
            \/ j - Len(head) \in DOMAIN tail /\ anchors[j] = tail[j - Len(head)]
    BY <1>4, <1>5, <2>1
  <2> QED
    BY <1>4, <1>5, <2>1, <2>2 DEF Orphans
<1> HIDE DEF anchors
<1>8. Grown(anchors)
  BY <1>6, <1>7, EnterGrows, TypesOf DEF anchors
<1>9. Counts'
  <2>1. IsABag(skips') /\ DOMAIN skips' = {} /\ SkipsFinite'
    BY FS_EmptySet DEF Flush, EmptyBag, SetToBag, IsABag, SkipsFinite, Skipped
  <2>2. clock \in 0..MaxTime /\ MaxTokens \in Nat /\ MaxTime \in Nat
    BY SessionAssumption DEF IInv, TypeOK, SessionTypeOK
  <2>3. density' = density \/ density' = [anchors |-> 0, tokens |-> 0, started |-> clock, attested |-> clock]
    BY DEF Flush
  <2>4. density' \in [anchors : Nat, tokens : 0..MaxTokens, started : 0..MaxTime,
                      attested : -1..MaxTime]
    BY <2>2, <2>3, CountsHold DEF Counts
  <2>5. UNCHANGED called
    BY DEF Flush
  <2> QED
    BY <2>1, <2>4, <2>5, CountsHold DEF Counts
<1>10. noted' \subseteq Procs \cup Metas
  BY TypesOf DEF Flush, Metas
<1>11. MintStep(anchors)
  BY <1>3, <1>7, <1>8, <1>9, <1>10, OrphansAreLinked, TypesOf DEF MintStep, Flush
<1> QED
  BY <1>11, MintOnly DEF IInv, TypeOK

LEMMA StopKeeps ==
    ASSUME IInv, Stop, UNCHANGED <<handles, trust, lastKnownGood>>
    PROVE  IInv'
<1>1. PICK order \in Orders(Skipped) : Enter(Summaries(order, 0))
  BY DEF Stop
<1>2. Cardinality(Skipped) \in Nat
  BY FS_CardinalityType DEF IInv, SkipsFinite
<1>3. /\ minted' = minted + Cardinality(Skipped)
      /\ minted' \in 0..MaxMints /\ minted <= minted'
  BY <1>2, TypesOf DEF Stop
<1> DEFINE anchors == Summaries(order, 0)
<1>4. anchors \in Seq(Anchor) /\ Orphans(anchors)
  BY <1>2, <1>3, SummariesMade, TypesOf
<1> HIDE DEF anchors
<1>5. Grown(anchors)
  BY <1>1, <1>4, EnterGrows, TypesOf DEF anchors
<1>6. Counts'
  <2>1. IsABag(skips') /\ DOMAIN skips' = {} /\ SkipsFinite'
    BY FS_EmptySet DEF Stop, EmptyBag, SetToBag, IsABag, SkipsFinite, Skipped
  <2> QED
    BY <2>1, CountsHold DEF Counts, Stop
<1>7. noted' \subseteq Procs \cup Metas
  BY TypesOf DEF Stop, Metas
<1>8. MintStep(anchors)
  BY <1>3, <1>4, <1>5, <1>6, <1>7, OrphansAreLinked, TypesOf DEF MintStep, Stop
<1> QED
  BY <1>8, MintOnly DEF IInv, TypeOK

-----------------------------------------------------------------------------
\* A step that mints nothing and changes no handle.
LEMMA QuietKeeps ==
    ASSUME IInv, SessionTypeOK',
           UNCHANGED <<level, minted, log, skips, stopped, handles>>,
           trust' \in Seq(TrustLevels), lastKnownGood' \in Versions \cup {0}
    PROVE  IInv'
<1>1. FactorsOnly' /\ ParentsOlder' /\ HandlesKnow' /\ IdsMinted' /\ SkipsFinite'
  BY DEF IInv, FactorsOnly, ParentsOlder, HandlesKnow, IdsMinted, SkipsFinite, Skipped
<1>2. handles' \in Seq(Handle)
  BY DEF IInv, TypeOK
<1> QED
  BY <1>1, <1>2 DEF IInv, TypeOK

LEMMA ClocksKeep ==
    ASSUME IInv, RecordSessionTokens \/ Tick, UNCHANGED <<handles, trust, lastKnownGood>>
    PROVE  IInv'
<1>1. MaxTokens \in Nat /\ MaxTime \in Nat /\ SessionTypeOK
  BY SessionAssumption DEF IInv, TypeOK
<1>2. density' \in [anchors : Nat, tokens : 0..MaxTokens, started : 0..MaxTime,
                    attested : -1..MaxTime]
  BY <1>1 DEF RecordSessionTokens, Tick, SessionTypeOK
<1>3. clock' \in 0..MaxTime
  BY <1>1 DEF RecordSessionTokens, Tick, SessionTypeOK
<1>4. UNCHANGED <<level, minted, log, skips, noted, cycle, scopes, stopped, called>>
  BY DEF RecordSessionTokens, Tick
<1>5. SessionTypeOK'
  BY <1>1, <1>2, <1>3, <1>4 DEF SessionTypeOK
<1> QED
  BY <1>4, <1>5, QuietKeeps DEF IInv, TypeOK

ScopeRecord == [cycle : Scopes, previous : Scopes \cup {BaseCycle}]

LEMMA ScopesTyped ==
    IInv => scopes \in Seq(ScopeRecord) /\ cycle \in Scopes \cup {BaseCycle}
BY DEF IInv, TypeOK, SessionTypeOK, ScopeRecord

LEMMA BeginScopeKeeps ==
    ASSUME IInv, NEW s \in Scopes, BeginScope(s), UNCHANGED <<handles, trust, lastKnownGood>>
    PROVE  IInv'
<1> DEFINE new == [cycle |-> s, previous |-> cycle]
<1>1. new \in ScopeRecord
  BY ScopesTyped DEF ScopeRecord
<1>2. scopes' = Append(scopes, new) /\ cycle' = s
  BY DEF BeginScope
<1>3. new.cycle = s /\ new.previous = cycle
  OBVIOUS
<1> HIDE DEF new
<1>4. /\ scopes' \in Seq(ScopeRecord) /\ Len(scopes') = Len(scopes) + 1
      /\ scopes'[Len(scopes')] = new /\ \A i \in DOMAIN scopes : scopes'[i] = scopes[i]
  BY <1>1, <1>2, ScopesTyped
<1>5. SessionTypeOK'
  BY <1>2, <1>4 DEF IInv, TypeOK, SessionTypeOK, BeginScope, ScopeRecord
<1>7. UNCHANGED <<level, minted, log, skips, stopped>>
  BY DEF BeginScope
<1> QED
  BY <1>5, <1>7, QuietKeeps DEF IInv, TypeOK

\* What is left of a sequence without its i-th element.
LEMMA RemoveAtKeeps ==
    ASSUME NEW S, NEW seq \in Seq(S), NEW i \in DOMAIN seq
    PROVE  /\ RemoveAt(seq, i) \in Seq(S) /\ Len(RemoveAt(seq, i)) = Len(seq) - 1
           /\ \A j \in 1..i - 1 : RemoveAt(seq, i)[j] = seq[j]
<1> DEFINE head == SubSeq(seq, 1, i - 1)
           tail == SubSeq(seq, i + 1, Len(seq))
<1>1. i \in 1..Len(seq) /\ Len(seq) \in Nat
  OBVIOUS
<1>2. head \in Seq(S) /\ Len(head) = i - 1 /\ \A j \in 1..i - 1 : head[j] = seq[j]
  BY <1>1
<1>3. tail \in Seq(S) /\ Len(tail) = Len(seq) - i
  <2>1. CASE i = Len(seq)
    BY <1>1, <2>1
  <2>2. CASE i < Len(seq)
    BY <1>1, <2>2
  <2> QED
    BY <1>1, <2>1, <2>2
<1>4. RemoveAt(seq, i) = head \o tail
  BY DEF RemoveAt
<1> HIDE DEF head, tail
<1> QED
  BY <1>1, <1>2, <1>3, <1>4

LEMMA EndScopeKeeps ==
    ASSUME IInv, NEW i \in DOMAIN scopes, EndScope(i), UNCHANGED <<handles, trust, lastKnownGood>>
    PROVE  IInv'
<1>1. i \in 1..Len(scopes) /\ Len(scopes) \in Nat /\ scopes[i] \in ScopeRecord
  BY ScopesTyped
<1>2. /\ scopes' \in Seq(ScopeRecord) /\ Len(scopes') = Len(scopes) - 1
      /\ \A j \in 1..i - 1 : scopes'[j] = scopes[j]
  BY ScopesTyped, RemoveAtKeeps DEF EndScope
<1>3. cycle' = scopes[i].previous
  BY DEF EndScope
<1>4. SessionTypeOK'
  <2>1. cycle' \in Scopes \cup {BaseCycle}
    BY <1>1, <1>3, ScopesTyped DEF ScopeRecord
  <2> QED
    BY <1>2, <2>1 DEF IInv, TypeOK, SessionTypeOK, EndScope, ScopeRecord
<1>6. UNCHANGED <<level, minted, log, skips, stopped>>
  BY DEF EndScope
<1> QED
  BY <1>4, <1>6, QuietKeeps DEF IInv, TypeOK

LEMMA SessionKeeps ==
    ASSUME IInv, SessionNext, UNCHANGED <<handles, trust, lastKnownGood>>
    PROVE  IInv'
<1>1. CASE \E m \in Methods : Witness(m)
  BY <1>1, WitnessKeeps
<1>2. CASE Record \/ VerifyTrust
  BY <1>2, RecordKeeps, VerifyTrustKeeps
<1>3. CASE GateCheck \/ Revoke
  BY <1>3, DirectKeeps DEF GateCheck, Revoke
<1>4. CASE RecordSessionTokens \/ Tick
  BY <1>4, ClocksKeep
<1>5. CASE Flush \/ Stop
  BY <1>5, FlushKeeps, StopKeeps
<1>6. CASE \E s \in Scopes : BeginScope(s)
  BY <1>6, BeginScopeKeeps
<1>7. CASE \E i \in DOMAIN scopes : EndScope(i)
  BY <1>7, EndScopeKeeps
<1> QED
  BY <1>1, <1>2, <1>3, <1>4, <1>5, <1>6, <1>7 DEF SessionNext

-----------------------------------------------------------------------------
\* The trust levels of a chain have a lowest one.
LEMMA LowestExists ==
    ASSUME NEW S, S \subseteq Nat, S # {}
    PROVE  Min(S) \in S /\ \A y \in S : Min(S) <= y
<1> DEFINE R == OpToRel(<, Nat)
<1>1. IsWellFoundedOn(R, Nat)
  BY NatLessThanWellFounded, Zenon
<1>2. \A x, y \in Nat : y < x => <<y, x>> \in R
  BY DEF OpToRel
<1> HIDE DEF R
<1>3. PICK x \in S : \A y \in S : ~ (<<y, x>> \in R)
  BY <1>1, WFMin
<1>4. \A y \in S : x <= y
  <2> TAKE y \in S
  <2>1. x \in Nat /\ y \in Nat /\ ~(y < x)
    BY <1>2, <1>3
  <2> QED
    BY <2>1
<1> QED
  BY <1>4 DEF Min

LEMMA EffectiveTyped ==
    ASSUME NEW levels \in Seq(TrustLevels), levels # <<>>
    PROVE  Effective(levels) \in Nat
<1> DEFINE S == {levels[i] : i \in DOMAIN levels}
<1>1. TrustLevels \subseteq Nat
  BY TrustAssumption
<1>2. S \subseteq TrustLevels
  OBVIOUS
<1>3. 1 \in DOMAIN levels
  OBVIOUS
<1>4. levels[1] \in S
  BY <1>3
<1> HIDE DEF S
<1>5. Min(S) \in Nat
  BY <1>1, <1>2, <1>4, LowestExists
<1> QED
  BY <1>5 DEF Effective, S

\* The anchors of a handoff, of a downgrade: orphans with a value.
Valued(p, k, v) == [AnchorOf(MintOf(p), k) EXCEPT !.value = v]
Lowered(p, k, v) == [AnchorOf(MintOf(p), k) EXCEPT !.value = v, !.model = FALSE]

LEMMA ValuedMade ==
    ASSUME IInv, NEW p \in Procs, NEW v \in Nat,
           NEW k \in Nat \ {0}, minted + k <= minted', minted' \in 0..MaxMints
    PROVE  \A a \in {Valued(p, k, v), Lowered(p, k, v)} :
               /\ a \in Anchor /\ Clear(a) /\ a.parent = 0 /\ a.id <= minted' /\ a.proc = p
               /\ a.chain = 0 /\ a.value = v
<1> DEFINE c == AnchorOf(MintOf(p), k)
<1>1. /\ c \in Anchor /\ Clear(c) /\ c.parent = 0 /\ c.id <= minted' /\ c.proc = p
      /\ c.chain = 0
  BY PlainMint, OrphanMade DEF AnchorProcs
<1>2. Valued(p, k, v) = [c EXCEPT !.value = v]
  BY Zenon DEF Valued
<1>3. Lowered(p, k, v) = [c EXCEPT !.value = v, !.model = FALSE]
  BY Zenon DEF Lowered
<1> HIDE DEF c
<1>4. LET a == [c EXCEPT !.value = v]
      IN  /\ a \in Anchor /\ Clear(a) /\ a.parent = 0 /\ a.id <= minted' /\ a.proc = p
          /\ a.chain = 0 /\ a.value = v
  BY <1>1 DEF Anchor, Clear
<1>5. LET b == [c EXCEPT !.value = v, !.model = FALSE]
      IN  /\ b \in Anchor /\ Clear(b) /\ b.parent = 0 /\ b.id <= minted' /\ b.proc = p
          /\ b.chain = 0 /\ b.value = v
  BY <1>1 DEF Anchor, Clear
<1> QED
  BY <1>2, <1>3, <1>4, <1>5

LEMMA TrustProcs == {"AI-CHAIN.1", "AI-CHAIN.2", "AI-METAGOV.3"} \subseteq Procs
BY DEF Procs

LEMMA TrustTyped ==
    IInv => trust \in Seq(TrustLevels) /\ lastKnownGood \in Versions \cup {0}
BY DEF IInv, TypeOK

LEMMA HandOffKeeps ==
    ASSUME IInv, NEW t \in TrustLevels, HandOff(t), UNCHANGED handles
    PROVE  IInv'
<1>1. /\ trust' = Append(trust, t) /\ trust' \in Seq(TrustLevels) /\ trust' # <<>>
      /\ lastKnownGood' \in Versions \cup {0}
  BY TrustTyped DEF HandOff
<1> DEFINE effective == Effective(Append(trust, t))
           head == HandoffAnchor(effective)
           tail == DegradationAnchors(ChainEffectiveTrustLevel, effective)
           anchors == <<head>> \o tail
<1>2. effective \in Nat
  BY <1>1, EffectiveTyped
<1>3. CASE UNCHANGED session
  <2>1. SessionTypeOK'
    BY <1>3 DEF IInv, TypeOK, session, SessionTypeOK
  <2> QED
    BY <1>1, <1>3, <2>1, QuietKeeps DEF session
<1>4. CASE /\ minted + Len(anchors) <= MaxMints
           /\ EnqueueSampled(anchors)
           /\ minted' = minted + Len(anchors)
           /\ noted' = noted \cup {"AI-CHAIN.1"}
           /\ UNCHANGED <<level, cycle, scopes, clock, stopped>>
  <2>1. tail = <<>> \/ tail = <<Lowered("AI-CHAIN.2", 2, effective)>>
    BY Zenon DEF DegradationAnchors, Lowered
  <2>2. /\ Len(anchors) = 1 + Len(tail) /\ Len(tail) \in {0, 1}
    BY <2>1
  <2>3. minted' \in 0..MaxMints /\ minted + 1 <= minted' /\ minted + 1 + Len(tail) <= minted'
    BY <1>4, <2>2, TypesOf
  <2>4. /\ head \in Anchor /\ Clear(head) /\ head.parent = 0 /\ head.id <= minted'
        /\ head.proc \in Procs
    <3>1. head = Valued("AI-CHAIN.1", 1, effective)
      BY Zenon DEF HandoffAnchor, Valued
    <3> HIDE DEF effective, head, tail
    <3> QED
      BY <1>2, <2>3, <3>1, ValuedMade, TrustProcs
  <2>5. \A j \in DOMAIN tail :
            /\ tail[j] \in Anchor /\ Clear(tail[j]) /\ tail[j].parent = 0
            /\ tail[j].id <= minted' /\ tail[j].proc \in Procs
    <3>1. CASE tail = <<>>
      BY <3>1
    <3>2. CASE tail = <<Lowered("AI-CHAIN.2", 2, effective)>>
      <4> DEFINE b == Lowered("AI-CHAIN.2", 2, effective)
      <4> HIDE DEF effective
      <4>1. Len(tail) = 1
        BY <3>2
      <4>2. minted + 2 <= minted'
        BY <2>3, <4>1, TypesOf
      <4>3. b \in Anchor /\ Clear(b) /\ b.parent = 0 /\ b.id <= minted' /\ b.proc = "AI-CHAIN.2"
        BY <1>2, <2>3, <4>2, ValuedMade, TrustProcs
      <4>4. tail = <<b>>
        BY <3>2
      <4> HIDE DEF b, tail
      <4> QED
        BY <4>3, <4>4, TrustProcs
    <3> QED
      BY <2>1, <3>1, <3>2
  <2> HIDE DEF effective, head, tail
  <2>6. tail = <<>> \/ \E x : tail = <<x>>
    BY <2>1
  <2>7. tail \in Seq(Anchor)
    <3>1. CASE tail = <<>>
      BY <3>1
    <3>2. ASSUME NEW x, tail = <<x>> PROVE tail \in Seq(Anchor)
      <4>1. 1 \in DOMAIN tail /\ tail[1] = x
        BY <3>2
      <4>2. x \in Anchor
        BY <2>5, <4>1
      <4> QED
        BY <3>2, <4>2
    <3> QED
      BY <2>6, <3>1, <3>2
  <2>8. /\ anchors \in Seq(Anchor)
        /\ \A j \in DOMAIN anchors :
             anchors[j] = head \/ (j - 1 \in DOMAIN tail /\ anchors[j] = tail[j - 1])
    BY <2>4, <2>7
  <2>9. Orphans(anchors) /\ \A j \in DOMAIN anchors : anchors[j].proc \in Procs
    BY <2>4, <2>5, <2>8 DEF Orphans
  <2>10. noted' \subseteq Procs \cup Metas
    BY <1>4, TypesOf, TrustProcs
  <2>11. minted <= minted'
    BY <2>3, TypesOf
  <2>12. MintStep(anchors)
    <3> HIDE DEF anchors
    <3> QED
      BY <1>4, <2>3, <2>8, <2>9, <2>10, <2>11, SampledMint, TypesOf
  <2> HIDE DEF anchors
  <2> QED
    BY <1>1, <2>12, MintOnly
<1> QED
  BY <1>3, <1>4 DEF HandOff

LEMMA CheckPolicyKeeps ==
    ASSUME IInv, NEW v \in Versions, CheckPolicy(v), UNCHANGED handles
    PROVE  IInv'
<1>1. CASE lastKnownGood' = v /\ UNCHANGED <<session, trust>>
  <2>1. SessionTypeOK'
    BY <1>1 DEF IInv, TypeOK, session, SessionTypeOK
  <2> QED
    BY <1>1, <2>1, QuietKeeps, TrustTyped DEF session
<1> DEFINE a == [AnchorOf(MintOf("AI-METAGOV.3"), 1) EXCEPT !.value = v]
<1>2. CASE /\ minted < MaxMints
           /\ EnqueueSampled(<<a>>)
           /\ minted' = minted + 1
           /\ noted' = noted \cup {"AI-METAGOV.3"}
           /\ UNCHANGED <<level, cycle, scopes, clock, stopped, trust, lastKnownGood>>
  <2>1. minted' \in 0..MaxMints /\ minted + 1 <= minted' /\ minted <= minted' /\ v \in Nat
    BY <1>2, TypesOf, TrustAssumption
  <2>2. a \in Anchor /\ Clear(a) /\ a.parent = 0 /\ a.id <= minted' /\ a.proc = "AI-METAGOV.3"
    <3>1. a = Valued("AI-METAGOV.3", 1, v)
      BY Zenon DEF Valued
    <3> HIDE DEF a
    <3> QED
      BY <2>1, <3>1, ValuedMade, TrustProcs
  <2> HIDE DEF a
  <2> DEFINE anchors == <<a>>
  <2>3. /\ anchors \in Seq(Anchor) /\ Orphans(anchors) /\ EnqueueSampled(anchors)
        /\ \A j \in DOMAIN anchors : anchors[j].proc \in Procs
    BY <1>2, <2>2, TrustProcs DEF Orphans
  <2>4. noted' \subseteq Procs \cup Metas
    BY <1>2, TypesOf, TrustProcs
  <2> HIDE DEF anchors
  <2>5. MintStep(anchors)
    BY <1>2, <2>1, <2>3, <2>4, SampledMint, TypesOf
  <2> QED
    BY <1>2, <2>5, MintOnly, TrustTyped
<1> QED
  BY <1>1, <1>2 DEF CheckPolicy

LEMMA TrustKeeps ==
    ASSUME IInv, TrustNext, UNCHANGED handles
    PROVE  IInv'
BY HandOffKeeps, CheckPolicyKeeps DEF TrustNext

-----------------------------------------------------------------------------
LEMMA HandleTyped ==
    ASSUME IInv, NEW h \in DOMAIN handles
    PROVE  /\ handles[h] \in Handle
           /\ handles[h].chain \in 1..MaxMints /\ handles[h].last \in 1..MaxMints
           /\ handles[h].chain \in Nat /\ handles[h].last \in Nat
           /\ handles[h].count \in Nat /\ handles[h].proc \in Procs
           /\ handles[h].chain <= minted /\ handles[h].last <= minted
<1>1. handles[h] \in Handle
  BY DEF IInv, TypeOK
<1> QED
  BY <1>1, SessionAssumption DEF Handle, IInv, HandlesKnow

LEMMA BegunProcs == Begun \cup {"AI-INCIDENT.1"} \subseteq Procs
<1> DEFINE incident == [proc |-> "AI-INCIDENT.1", meta |-> "applied", context |-> 1, model |-> 1]
<1>1. incident \in MonitorMints /\ incident.proc = "AI-INCIDENT.1"
  BY DEF MonitorMints, Mint, Shaped
<1>2. MonitorMints \subseteq Surface
  BY DEF Surface
<1> QED
  BY <1>1, <1>2, BegunAssumption DEF Procs

LEMMA RootMade ==
    ASSUME IInv, NEW p \in Procs, minted + 1 <= minted', minted' \in 0..MaxMints
    PROVE  /\ Root(p) \in Anchor /\ Clear(Root(p)) /\ Root(p).parent = 0
           /\ Root(p).id <= minted' /\ Root(p).proc = p
           /\ Root(p).id = minted + 1 /\ Root(p).chain = minted + 1 /\ Root(p).stage = "initiated"
<1> DEFINE c == AnchorOf(MintOf(p), 1)
<1>1. /\ c \in Anchor /\ Clear(c) /\ c.parent = 0 /\ c.id <= minted' /\ c.proc = p
      /\ c.id = minted + 1
  BY PlainMint, OrphanMade DEF AnchorProcs
<1>2. Root(p) = [c EXCEPT !.chain = minted + 1, !.stage = "initiated"]
  BY Zenon DEF Root
<1>3. minted + 1 \in 0..MaxMints
  BY TypesOf
<1> HIDE DEF c
<1> QED
  BY <1>1, <1>2, <1>3 DEF Anchor, Clear, Stages

LEMMA NewHandleMade ==
    ASSUME IInv, NEW p \in Procs, NEW incident \in BOOLEAN, minted < MaxMints, minted + 1 <= minted'
    PROVE  NewHandle(p, incident) \in Handle /\ KnownAfter(NewHandle(p, incident))
<1>1. minted + 1 \in 1..MaxMints
  BY TypesOf
<1> QED
  BY <1>1 DEF NewHandle, Handle, KnownAfter

\* A mint of the chains: the trust of handoffs is left alone.
LEMMA ChainMint ==
    ASSUME IInv, NEW anchors, MintStep(anchors), UNCHANGED <<trust, lastKnownGood>>,
           handles' \in Seq(Handle), \A h \in DOMAIN handles' : KnownAfter(handles'[h])
    PROVE  IInv'
BY MintsKeep, KnowAfter, TrustTyped DEF IInv, TypeOK

LEMMA BeginKeeps ==
    ASSUME IInv, NEW p \in Begun \cup {"AI-INCIDENT.1"}, NEW incident \in BOOLEAN,
           BeginLifecycle(p, incident), UNCHANGED <<trust, lastKnownGood>>
    PROVE  IInv'
<1>1. p \in Procs
  BY BegunProcs
<1>2. minted' = minted + 1 /\ minted' \in 0..MaxMints /\ minted < MaxMints /\ minted <= minted'
  BY TypesOf DEF BeginLifecycle
<1> DEFINE anchors == <<Root(p)>>
<1>3. /\ anchors \in Seq(Anchor) /\ Orphans(anchors)
      /\ \A j \in DOMAIN anchors : anchors[j].proc \in Procs
  <2> DEFINE r == Root(p)
  <2>1. r \in Anchor /\ Clear(r) /\ r.parent = 0 /\ r.id <= minted' /\ r.proc \in Procs
    BY <1>1, <1>2, RootMade, TypesOf
  <2> HIDE DEF r
  <2>2. <<r>> \in Seq(Anchor) /\ Orphans(<<r>>) /\ \A j \in DOMAIN <<r>> : <<r>>[j].proc \in Procs
    BY <2>1 DEF Orphans
  <2> QED
    BY <2>2 DEF r
<1>4. EnqueueSampled(anchors) /\ UNCHANGED <<level, cycle, scopes, clock, stopped>>
  BY DEF BeginLifecycle
<1>5. noted' \subseteq Procs \cup Metas
  BY <1>1, TypesOf, PlainMint DEF BeginLifecycle, Note
<1> HIDE DEF anchors
<1>6. MintStep(anchors)
  BY <1>2, <1>3, <1>4, <1>5, SampledMint, TypesOf
<1> DEFINE new == NewHandle(p, incident)
<1>7. new \in Handle /\ KnownAfter(new)
  BY <1>1, <1>2, NewHandleMade, TypesOf
<1>8. handles' = Append(handles, new) /\ handles \in Seq(Handle)
  BY DEF BeginLifecycle, IInv, TypeOK
<1>9. \A h \in DOMAIN handles : KnownAfter(handles[h])
  BY <1>2, <1>6, StillKnown, TypesOf DEF MintStep
<1> HIDE DEF new
<1>10. handles' \in Seq(Handle) /\ \A h \in DOMAIN handles' : KnownAfter(handles'[h])
  <2>1. /\ handles' \in Seq(Handle) /\ DOMAIN handles' = DOMAIN handles \cup {Len(handles) + 1}
        /\ handles'[Len(handles) + 1] = new /\ \A h \in DOMAIN handles : handles'[h] = handles[h]
    BY <1>7, <1>8
  <2> QED
    BY <1>7, <1>9, <2>1
<1> QED
  BY <1>6, <1>10, ChainMint

LEMMA ResumeKeeps ==
    ASSUME IInv, NEW h \in DOMAIN handles, NEW last, NEW count, Resume(h, last, count),
           UNCHANGED <<trust, lastKnownGood>>
    PROVE  IInv'
<1> DEFINE new == [handles[h] EXCEPT !.last = last, !.count = count,
                                     !.closed = FALSE, !.incident = FALSE]
<1>1. /\ new \in Handle /\ new.chain = handles[h].chain
      /\ new.last = handles[h].chain \/ new.last = handles[h].last
  <2>1. /\ last \in {handles[h].chain, handles[h].last}
        /\ last \in 1..MaxMints /\ count \in Nat
    BY HandleTyped DEF Resume
  <2>2. \A g \in Handle :
            LET r == [g EXCEPT !.last = last, !.count = count,
                               !.closed = FALSE, !.incident = FALSE]
            IN  r \in Handle /\ r.chain = g.chain /\ r.last = last
    BY <2>1 DEF Handle
  <2> QED
    BY <2>1, <2>2, HandleTyped
<1>2. handles' = Append(handles, new) /\ handles \in Seq(Handle)
  BY DEF Resume, IInv, TypeOK
<1>3. UNCHANGED <<level, minted, log, skips, noted, cycle, scopes, clock, density, stopped,
                  called>>
  BY DEF Resume, session
<1>4. \A g \in DOMAIN handles : KnownAfter(handles[g])
  BY <1>3 DEF IInv, HandlesKnow, KnownAfter
<1>5. KnownAfter(new)
  <2>1. KnownAfter(handles[h])
    BY <1>4
  <2> HIDE DEF new
  <2> QED
    BY <1>1, <1>3, <2>1, HandleTyped DEF KnownAfter
<1> HIDE DEF new
<1>6. handles' \in Seq(Handle) /\ \A g \in DOMAIN handles' : KnownAfter(handles'[g])
  <2>1. /\ handles' \in Seq(Handle) /\ DOMAIN handles' = DOMAIN handles \cup {Len(handles) + 1}
        /\ handles'[Len(handles) + 1] = new /\ \A g \in DOMAIN handles : handles'[g] = handles[g]
    BY <1>1, <1>2
  <2> QED
    BY <1>4, <1>5, <2>1
<1>7. SessionTypeOK' /\ FactorsOnly' /\ ParentsOlder' /\ IdsMinted' /\ SkipsFinite'
  BY <1>3 DEF IInv, TypeOK, SessionTypeOK, FactorsOnly, ParentsOlder, IdsMinted,
              SkipsFinite, Skipped
<1> QED
  BY <1>6, <1>7, KnowAfter, TrustTyped DEF IInv, TypeOK

LEMMA StageMade ==
    ASSUME IInv, NEW h \in DOMAIN handles, NEW stage \in Stages,
           NEW k \in Nat \ {0}, minted + k <= minted', minted' \in 0..MaxMints
    PROVE  LET a == StageAnchor(h, stage, k)
           IN  /\ a \in Anchor /\ Clear(a) /\ a.id = minted + k /\ a.id <= minted'
               /\ a.chain = handles[h].chain /\ a.parent = handles[h].last /\ a.stage = stage
<1> DEFINE c == AnchorOf(MintOf(handles[h].proc), k)
<1>1. /\ c \in Anchor /\ Clear(c) /\ c.id = minted + k /\ c.id <= minted'
  BY PlainMint, OrphanMade, HandleTyped DEF AnchorProcs
<1>2. StageAnchor(h, stage, k) = [c EXCEPT !.model = FALSE, !.chain = handles[h].chain,
                                           !.parent = handles[h].last, !.stage = stage]
  BY Zenon DEF StageAnchor
<1>3. handles[h].chain \in 0..MaxMints /\ handles[h].last \in 0..MaxMints
  BY HandleTyped
<1> HIDE DEF c
<1> QED
  BY <1>1, <1>2, <1>3 DEF Anchor, Clear

\* What a handle knows makes the parent of its next anchor a good one.
LEMMA StageIsLinked ==
    ASSUME IInv, ~stopped, NEW h \in DOMAIN handles, NEW stage \in Stages,
           NEW k \in Nat \ {0}, minted + k <= minted', minted' \in 0..MaxMints
    PROVE  Linked(<<StageAnchor(h, stage, k)>>)
<1> DEFINE a == StageAnchor(h, stage, k)
<1>1. /\ Clear(a) /\ a.id = minted + k /\ a.id <= minted'
      /\ a.chain = handles[h].chain /\ a.parent = handles[h].last
  BY StageMade
<1>2. handles[h].last < minted + k
  BY HandleTyped, TypesOf
<1>3. \/ handles[h].last = handles[h].chain
      \/ \E j \in DOMAIN log : log[j].id = handles[h].last /\ log[j].chain = handles[h].chain
  BY DEF IInv, HandlesKnow
<1> HIDE DEF a
<1>4. Linked(<<a>>)
  BY <1>1, <1>2, <1>3 DEF Linked
<1> QED
  BY <1>4 DEF a

LEMMA AdvancedTyped ==
    ASSUME IInv, NEW h \in DOMAIN handles, NEW stage, NEW id \in 1..MaxMints
    PROVE  /\ Advanced(h, stage, id) \in Seq(Handle)
           /\ DOMAIN Advanced(h, stage, id) = DOMAIN handles
           /\ Len(Advanced(h, stage, id)) = Len(handles)
           /\ Advanced(h, stage, id)[h].last = id
           /\ Advanced(h, stage, id)[h].chain = handles[h].chain
           /\ Advanced(h, stage, id)[h].proc = handles[h].proc
           /\ Advanced(h, stage, id)[h].count = handles[h].count + 1
           /\ Advanced(h, stage, id)[h].closed = (handles[h].closed \/ stage \in TerminalStages)
           /\ \A g \in DOMAIN handles \ {h} : Advanced(h, stage, id)[g] = handles[g]
<1> DEFINE r == [handles[h] EXCEPT !.last = id, !.count = @ + 1,
                                   !.closed = @ \/ stage \in TerminalStages]
<1>1. handles \in Seq(Handle) /\ handles[h] \in Handle
  BY DEF IInv, TypeOK
<1>2. /\ r \in Handle /\ r.last = id /\ r.chain = handles[h].chain
      /\ r.proc = handles[h].proc /\ r.count = handles[h].count + 1
      /\ r.closed = (handles[h].closed \/ stage \in TerminalStages)
  <2>1. \A g \in Handle :
            LET x == [g EXCEPT !.last = id, !.count = @ + 1,
                               !.closed = @ \/ stage \in TerminalStages]
            IN  /\ x \in Handle /\ x.last = id /\ x.chain = g.chain
                /\ x.proc = g.proc /\ x.count = g.count + 1
                /\ x.closed = (g.closed \/ stage \in TerminalStages)
    <3> TAKE g \in Handle
    <3> DEFINE more == g.count + 1
               shut == g.closed \/ stage \in TerminalStages
    <3>1. more \in Nat
      BY DEF Handle
    <3>2. shut \in BOOLEAN
      BY Zenon
    <3> HIDE DEF more, shut
    <3>3. LET x == [g EXCEPT !.last = id, !.count = more, !.closed = shut]
          IN  /\ x \in Handle /\ x.last = id /\ x.chain = g.chain
              /\ x.proc = g.proc /\ x.count = more /\ x.closed = shut
      BY <3>1, <3>2 DEF Handle
    <3> QED
      BY <3>3, Zenon DEF more, shut
  <2> QED
    BY <1>1, <2>1
<1>3. Advanced(h, stage, id) = [handles EXCEPT ![h] = r]
  BY <1>1 DEF Advanced
<1> HIDE DEF r
<1> QED
  BY <1>1, <1>2, <1>3

LEMMA StageKeeps ==
    ASSUME IInv, NEW h \in DOMAIN handles, NEW stage \in Stages, MintStage(h, stage),
           UNCHANGED <<trust, lastKnownGood>>
    PROVE  IInv'
<1>1. /\ minted' = minted + 1 /\ minted' \in 0..MaxMints /\ minted <= minted'
      /\ minted + 1 \in 1..MaxMints
  BY TypesOf DEF MintStage
<1> DEFINE a == StageAnchor(h, stage, 1)
<1>2. /\ a \in Anchor /\ a.id = minted + 1 /\ a.chain = handles[h].chain
  BY <1>1, StageMade, TypesOf
<1>3. ~stopped => Linked(<<a>>)
  BY <1>1, StageIsLinked, TypesOf
<1>4. Enter(<<a>>) /\ handles' = Advanced(h, stage, minted + 1)
  BY DEF MintStage
<1>5. UNCHANGED <<level, skips, cycle, scopes, clock, density, stopped, called>>
  BY DEF MintStage
<1> HIDE DEF a
<1>6. Counts'
  BY <1>5, CountsHold DEF Counts, SkipsFinite, Skipped
<1>7. noted' \subseteq Procs \cup Metas
  BY HandleTyped, TypesOf DEF MintStage
<1>8. Grown(<<a>>)
  <2>1. <<a>> \in Seq(Anchor)
    BY <1>2
  <2> QED
    BY <1>4, <2>1, EnterGrows, TypesOf
<1>9. \E anchors : MintStep(anchors)
  <2>1. CASE stopped
    <3>1. Grown(<<>>)
      BY <1>4, <2>1, TypesOf DEF Enter, Grown
    <3>2. Linked(<<>>)
      BY DEF Linked
    <3>3. MintStep(<<>>)
      BY <1>1, <1>5, <1>6, <1>7, <3>1, <3>2, TypesOf DEF MintStep
    <3> QED
      BY <3>3
  <2>2. CASE ~stopped
    <3>1. MintStep(<<a>>)
      BY <1>1, <1>3, <1>5, <1>6, <1>7, <1>8, <2>2, TypesOf DEF MintStep
    <3> QED
      BY <3>1
  <2> QED
    BY <2>1, <2>2
<1>10. \A g \in DOMAIN handles : KnownAfter(handles[g])
  BY <1>1, <1>5, <1>8, StillKnown, TypesOf
<1>11. KnownAfter(handles'[h])
  <2>1. handles'[h].last = minted + 1 /\ handles'[h].chain = handles[h].chain
    BY <1>1, <1>4, AdvancedTyped
  <2>2. ~stopped => \E j \in DOMAIN log' : log'[j] = a
    <3> SUFFICES ASSUME ~stopped PROVE \E j \in DOMAIN log' : log'[j] = a
      OBVIOUS
    <3>1. log' = Append(log, a) /\ log \in Seq(Anchor)
      BY <1>2, <1>4, TypesOf DEF Enter
    <3>2. Len(log) + 1 \in DOMAIN log' /\ log'[Len(log) + 1] = a
      BY <1>2, <3>1
    <3> QED
      BY <3>2
  <2> QED
    BY <1>1, <1>2, <1>5, <2>1, <2>2, HandleTyped, TypesOf DEF KnownAfter
<1>12. handles' \in Seq(Handle) /\ \A g \in DOMAIN handles' : KnownAfter(handles'[g])
  <2>1. /\ handles' \in Seq(Handle) /\ DOMAIN handles' = DOMAIN handles
        /\ \A g \in DOMAIN handles \ {h} : handles'[g] = handles[g]
    BY <1>1, <1>4, AdvancedTyped
  <2> QED
    BY <1>10, <1>11, <2>1
<1> QED
  BY <1>9, <1>12, ChainMint

LEMMA Joined ==
    ASSUME NEW a \in Seq(Anchor), NEW b \in Seq(Anchor)
    PROVE  /\ a \o b \in Seq(Anchor)
           /\ Linked(a) /\ Linked(b) => Linked(a \o b)
<1>1. a \o b \in Seq(Anchor) /\ DOMAIN (a \o b) = 1..(Len(a) + Len(b))
  OBVIOUS
<1>2. \A j \in DOMAIN (a \o b) :
        \/ j \in DOMAIN a /\ (a \o b)[j] = a[j]
        \/ j - Len(a) \in DOMAIN b /\ (a \o b)[j] = b[j - Len(a)]
  BY <1>1
<1> DEFINE c == a \o b
<1> HIDE DEF c
<1>3. Linked(a) /\ Linked(b) => Linked(c)
  BY <1>2, SMTT(30) DEF Linked, c
<1> QED
  BY <1>1, <1>3 DEF c

\* The root of the target chain, if it is not sampled out, and the stage of one's own.
LEMMA EscalateKeeps ==
    ASSUME IInv, NEW h \in DOMAIN handles, NEW p \in Begun, Escalate(h, p),
           UNCHANGED <<trust, lastKnownGood>>
    PROVE  IInv'
<1> DEFINE RootIn(fate) == IF fate = "enter" THEN <<Root(p)>> ELSE <<>>
           own == IF handles[h].closed THEN <<>> ELSE <<StageAnchor(h, "escalated", 2)>>
<1>1. PICK fate \in Fates(p) :
        /\ Enter(RootIn(fate) \o own)
        /\ density' = [density EXCEPT !.anchors = @ + Len(RootIn(fate))]
        /\ skips' = IF RootIn(fate) = <<>> THEN skips (+) SetToBag({p}) ELSE skips
        /\ minted' = minted + 1 + Len(own)
        /\ handles' = IF handles[h].closed THEN handles
                      ELSE Append(Advanced(h, "escalated", minted + 2), NewHandle(p, FALSE))
  BY DEF Escalate
<1> DEFINE root == RootIn(fate)
<1>2. p \in Procs
  BY BegunProcs
<1>3. (handles[h].closed => own = <<>>) /\ (~handles[h].closed => own = <<StageAnchor(h, "escalated", 2)>>)
  OBVIOUS
<1>4. root = <<Root(p)>> \/ root = <<>>
  OBVIOUS
<1>5. minted + 2 <= MaxMints /\ minted + 2 \in 1..MaxMints /\ minted + 1 <= MaxMints
  BY TypesOf DEF Escalate
<1>6. /\ minted' \in 0..MaxMints /\ minted <= minted' /\ minted + 1 <= minted'
      /\ ~handles[h].closed => minted + 2 <= minted'
  <2>1. CASE handles[h].closed
    <3>1. Len(own) = 0
      BY <1>3, <2>1
    <3> QED
      BY <1>1, <1>5, <2>1, <3>1, TypesOf
  <2>2. CASE ~handles[h].closed
    <3>1. Len(own) = 1
      BY <1>3, <2>2
    <3> QED
      BY <1>1, <1>5, <2>2, <3>1, TypesOf
  <2> QED
    BY <2>1, <2>2
<1>7. root \in Seq(Anchor) /\ Linked(root)
  <2> DEFINE r == Root(p)
  <2>1. r \in Anchor /\ Clear(r) /\ r.parent = 0 /\ r.id <= minted'
    BY <1>2, <1>6, RootMade, TypesOf
  <2>2. root = <<r>> \/ root = <<>>
    BY <1>4
  <2> HIDE DEF r, root
  <2>3. Orphans(root) /\ root \in Seq(Anchor)
    <3>1. CASE root = <<r>>
      BY <2>1, <3>1 DEF Orphans
    <3>2. CASE root = <<>>
      BY <3>2 DEF Orphans
    <3> QED
      BY <2>2, <3>1, <3>2
  <2> QED
    BY <2>3, OrphansAreLinked
<1>8. own \in Seq(Anchor) /\ (~stopped => Linked(own))
  <2>1. CASE handles[h].closed
    <3>1. own = <<>>
      BY <2>1
    <3> HIDE DEF own
    <3> QED
      BY <3>1 DEF Linked
  <2>2. CASE ~handles[h].closed
    <3> DEFINE a == StageAnchor(h, "escalated", 2)
    <3>1. a \in Anchor /\ (~stopped => Linked(<<a>>))
      BY <1>6, <2>2, StageMade, StageIsLinked, TypesOf DEF Stages
    <3>2. own = <<a>>
      BY <2>2
    <3> HIDE DEF a, own
    <3> QED
      BY <3>1, <3>2
  <2> QED
    BY <2>1, <2>2
<1>9. IF handles[h].closed
      THEN UNCHANGED handles
      ELSE handles' = Append(Advanced(h, "escalated", minted + 2), NewHandle(p, FALSE))
  BY <1>1
<1>10. ~handles[h].closed => own = <<StageAnchor(h, "escalated", 2)>>
  OBVIOUS
<1>11. Enter(root \o own) /\ density' = [density EXCEPT !.anchors = @ + Len(root)]
  BY <1>1
<1>12. skips' = skips (+) SetToBag({p}) \/ UNCHANGED skips
  BY <1>1
<1> HIDE DEF root, own
<1>13. Grown(root \o own) /\ root \o own \in Seq(Anchor)
  BY <1>7, <1>8, <1>11, Joined, EnterGrows, TypesOf
<1>14. Counts'
  <2>1. called' = called (+) SetToBag({p})
    BY DEF Escalate
  <2>2. IsABag(called') /\ DOMAIN called' \subseteq Procs
    <3>1. IsABag(called) /\ DOMAIN called \subseteq Procs
      BY CountsHold DEF Counts
    <3>2. IsABag(called') /\ DOMAIN called' = DOMAIN called \cup {p}
      BY <2>1, <3>1, BagOneMore
    <3> QED
      BY <1>2, <3>1, <3>2
  <2>3. IsABag(skips') /\ DOMAIN skips' \subseteq Procs /\ SkipsFinite'
    <3>1. CASE UNCHANGED skips
      BY <3>1, CountsHold DEF Counts, SkipsFinite, Skipped
    <3>2. CASE skips' = skips (+) SetToBag({p})
      <4>1. IsABag(skips') /\ DOMAIN skips' = DOMAIN skips \cup {p}
        BY <3>2, BagOneMore, CountsHold DEF Counts
      <4>2. IsFiniteSet(DOMAIN skips \cup {p})
        BY FS_AddElement, CountsHold DEF Counts, SkipsFinite, Skipped
      <4> QED
        BY <1>2, <4>1, <4>2, CountsHold DEF Counts, SkipsFinite, Skipped
    <3> QED
      BY <1>12, <3>1, <3>2
  <2>4. density' \in [anchors : Nat, tokens : 0..MaxTokens, started : 0..MaxTime,
                      attested : -1..MaxTime]
    <3>1. Len(root) \in Nat
      BY <1>7
    <3> QED
      BY <1>11, <3>1, CountsHold DEF Counts
  <2> QED
    BY <2>2, <2>3, <2>4 DEF Counts
<1>15. /\ noted' \subseteq Procs \cup Metas
       /\ UNCHANGED <<level, cycle, scopes, clock, stopped>>
  BY <1>2, HandleTyped, TypesOf DEF Escalate
<1>16. \E anchors : MintStep(anchors)
  <2>1. CASE stopped
    <3>1. Grown(<<>>)
      BY <1>11, <2>1, TypesOf DEF Enter, Grown
    <3>2. Linked(<<>>)
      BY DEF Linked
    <3>3. MintStep(<<>>)
      BY <1>6, <1>14, <1>15, <3>1, <3>2, TypesOf DEF MintStep
    <3> QED
      BY <3>3
  <2>2. CASE ~stopped
    <3>1. Linked(root \o own)
      BY <1>7, <1>8, <2>2, Joined
    <3>2. MintStep(root \o own)
      BY <1>6, <1>13, <1>14, <1>15, <3>1, TypesOf DEF MintStep
    <3> QED
      BY <3>2
  <2> QED
    BY <2>1, <2>2
<1>17. \A g \in DOMAIN handles : KnownAfter(handles[g])
  BY <1>6, <1>13, <1>15, StillKnown, TypesOf
<1>18. handles \in Seq(Handle)
  BY DEF IInv, TypeOK
<1>19. CASE handles[h].closed
  BY <1>9, <1>16, <1>17, <1>18, <1>19, ChainMint
<1>20. CASE ~handles[h].closed
  <2> DEFINE moved == Advanced(h, "escalated", minted + 2)
             new == NewHandle(p, FALSE)
             a == StageAnchor(h, "escalated", 2)
  <2>1. new \in Handle /\ KnownAfter(new)
    <3>1. minted < MaxMints /\ minted + 1 <= minted'
      BY <1>5, <1>6, TypesOf
    <3>2. FALSE \in BOOLEAN
      OBVIOUS
    <3> QED
      BY <1>2, <3>1, <3>2, NewHandleMade
  <2>2. /\ moved \in Seq(Handle) /\ DOMAIN moved = DOMAIN handles /\ Len(moved) = Len(handles)
        /\ moved[h].last = minted + 2 /\ moved[h].chain = handles[h].chain
        /\ \A g \in DOMAIN handles \ {h} : moved[g] = handles[g]
    BY <1>5, AdvancedTyped
  <2>3. a \in Anchor /\ a.id = minted + 2 /\ a.chain = handles[h].chain
    BY <1>6, <1>20, StageMade, TypesOf DEF Stages
  <2>4. own = <<a>> /\ handles' = Append(moved, new)
    BY <1>9, <1>10, <1>20
  <2> HIDE DEF moved, new, a
  <2>5. ~stopped => \E j \in DOMAIN log' : log'[j] = a
    <3> SUFFICES ASSUME ~stopped PROVE \E j \in DOMAIN log' : log'[j] = a
      OBVIOUS
    <3>1. log' = log \o (root \o own) /\ log \in Seq(Anchor)
      BY <1>11, TypesOf DEF Enter
    <3>2. /\ root \o own \in Seq(Anchor) /\ Len(root \o own) = Len(root) + 1
          /\ (root \o own)[Len(root) + 1] = a /\ Len(root) \in Nat
      BY <1>7, <2>3, <2>4
    <3> DEFINE anchors == root \o own
    <3> HIDE DEF anchors
    <3>3. log' = log \o anchors /\ anchors \in Seq(Anchor) /\ Len(anchors) = Len(root) + 1
          /\ anchors[Len(root) + 1] = a
      BY <3>1, <3>2 DEF anchors
    <3>4. LET j == Len(log) + Len(root) + 1 IN j \in DOMAIN log' /\ log'[j] = a
      BY <3>1, <3>2, <3>3
    <3> QED
      BY <3>4
  <2>6. KnownAfter(moved[h])
    BY <1>6, <1>15, <1>20, <2>2, <2>3, <2>5, HandleTyped, TypesOf, SMTT(30) DEF KnownAfter
  <2>7. handles' \in Seq(Handle) /\ \A g \in DOMAIN handles' : KnownAfter(handles'[g])
    <3>1. /\ handles' \in Seq(Handle) /\ DOMAIN handles' = DOMAIN handles \cup {Len(handles) + 1}
          /\ handles'[Len(handles) + 1] = new /\ \A g \in DOMAIN handles : handles'[g] = moved[g]
      BY <1>18, <2>1, <2>2, <2>4
    <3> QED
      BY <1>17, <2>1, <2>2, <2>6, <3>1
  <2> QED
    BY <1>16, <2>7, ChainMint
<1> QED
  BY <1>19, <1>20

LEMMA LifecycleKeeps ==
    ASSUME IInv, LifecycleNext, UNCHANGED <<trust, lastKnownGood>>
    PROVE  IInv'
<1>1. CASE \E p \in Begun : BeginLifecycle(p, FALSE)
  BY <1>1, BeginKeeps
<1>2. CASE BeginLifecycle("AI-INCIDENT.1", TRUE)
  BY <1>2, BeginKeeps
<1>3. ASSUME NEW h \in DOMAIN handles, NEW last, NEW count, Resume(h, last, count)
      PROVE  IInv'
  BY <1>3, ResumeKeeps
<1>4. ASSUME NEW h \in DOMAIN handles,
             Checkpoint(h) \/ Resolve(h) \/ Abandon(h) \/ EscalateIncident(h)
      PROVE  IInv'
  BY <1>4, StageKeeps DEF Checkpoint, Resolve, Abandon, EscalateIncident, Stages
<1>5. ASSUME NEW h \in DOMAIN handles, NEW p \in Begun, Escalate(h, p)
      PROVE  IInv'
  BY <1>5, EscalateKeeps
<1> QED
  BY <1>1, <1>2, <1>3, <1>4, <1>5 DEF LifecycleNext

-----------------------------------------------------------------------------
LEMMA InitHolds == WitnessInit => IInv
<1> SUFFICES ASSUME WitnessInit PROVE IInv
  OBVIOUS
<1> USE DEF WitnessInit, Init, LifecycleInit, TrustInit
<1>1. log = <<>> /\ handles = <<>> /\ trust = <<>> /\ scopes = <<>> /\ lastKnownGood = 0
  OBVIOUS
<1>2. IsABag(skips) /\ IsABag(called) /\ DOMAIN skips = {} /\ DOMAIN called = {}
  BY DEF EmptyBag, SetToBag, IsABag
<1>3. SessionTypeOK
  <2>1. MaxMints \in Nat /\ MaxTime \in Nat /\ MaxTokens \in Nat
    BY SessionAssumption
  <2>2. density \in [anchors : Nat, tokens : 0..MaxTokens, started : 0..MaxTime,
                     attested : -1..MaxTime]
    BY <2>1
  <2>3. DOMAIN skips \cup DOMAIN called \subseteq Procs
    BY <1>2
  <2>4. <<>> \in Seq(Anchor) /\ <<>> \in Seq(ScopeRecord)
    OBVIOUS
  <2>5. log \in Seq(Anchor) /\ scopes \in Seq([cycle : Scopes, previous : Scopes \cup {BaseCycle}])
    BY <1>1, <2>4, Zenon DEF ScopeRecord
  <2>6. 0 \in 0..MaxMints /\ 0 \in 0..MaxTime
    BY <2>1
  <2> QED
    BY <1>2, <2>2, <2>3, <2>5, <2>6 DEF SessionTypeOK
<1>4. TypeOK
  BY <1>1, <1>3 DEF TypeOK
<1>5. FactorsOnly /\ ParentsOlder /\ HandlesKnow /\ IdsMinted
  BY <1>1 DEF FactorsOnly, ParentsOlder, HandlesKnow, IdsMinted
<1>6. SkipsFinite
  BY <1>2, FS_EmptySet DEF SkipsFinite, Skipped
<1> QED
  BY <1>4, <1>5, <1>6 DEF IInv

LEMMA NextKeeps == IInv /\ [WitnessNext]_vars => IInv'
<1> SUFFICES ASSUME IInv, [WitnessNext]_vars PROVE IInv'
  OBVIOUS
<1>1. CASE UNCHANGED vars
  <2>1. SessionTypeOK'
    BY <1>1 DEF IInv, TypeOK, vars, session, SessionTypeOK
  <2> QED
    BY <1>1, <2>1, QuietKeeps, TrustTyped DEF vars, session
<1>2. CASE SessionNext /\ UNCHANGED <<handles, trust, lastKnownGood>>
  BY <1>2, SessionKeeps
<1>3. CASE LifecycleNext /\ UNCHANGED <<trust, lastKnownGood>>
  BY <1>3, LifecycleKeeps
<1>4. CASE TrustNext /\ UNCHANGED handles
  BY <1>4, TrustKeeps
<1> QED
  BY <1>1, <1>2, <1>3, <1>4 DEF WitnessNext

LEMMA IInvAlways == Spec => []IInv
BY InitHolds, NextKeeps, PTL DEF Spec

-----------------------------------------------------------------------------
\* The state of a Witness keeps its types, whatever methods its program calls.
THEOREM WitnessTypeCorrect == Spec => []TypeOK
<1>1. IInv => TypeOK
  BY DEF IInv
<1> QED
  BY <1>1, IInvAlways, PTL

\* At level 3 no anchor that a Witness gives to its buffer carries a context or a model
\* in clear: for every choice of methods, sampling rates, chains and handoffs.
\* (clearing.ts:12)
THEOREM FactorsOnlyAlways == Spec => []FactorsOnly
<1>1. IInv => FactorsOnly
  BY DEF IInv
<1> QED
  BY <1>1, IInvAlways, PTL

\* No lifecycle chain that an auditor reads has a cycle or an anchor of another chain,
\* through however many handles it was minted, resumed and escalated.
THEOREM ParentsOlderAlways == Spec => []ParentsOlder
<1>1. IInv => ParentsOlder
  BY DEF IInv
<1> QED
  BY <1>1, IInvAlways, PTL

-----------------------------------------------------------------------------
(* TrustTrail: the anchors of the handoffs, by their positions in the buffer. *)

Trails == {"AI-CHAIN.1", "AI-CHAIN.2"}

\* The premise of TrustTrail.
OnlyTrust == Trails \cap (Sampled \cup Never \cup {m.proc : m \in Methods}) = {}

At(s, p) == {i \in DOMAIN s : s[i].proc = p /\ s[i].chain = 0}
LevelOf(levels) == IF levels = <<>> THEN 4 ELSE Effective(levels)

\* j is the last handoff before i.
Preceding(s, j, i) == j < i /\ \A k \in At(s, "AI-CHAIN.1") : k < i => k <= j

Falling(s) ==
    \A i, j \in At(s, "AI-CHAIN.1") : Preceding(s, j, i) =>
        /\ s[i].value <= s[j].value
        /\ (i + 1 \in At(s, "AI-CHAIN.2") /\ s[i + 1].value = s[i].value)
                <=> s[i].value < s[j].value

Owned(s) == \A i \in At(s, "AI-CHAIN.2") : i - 1 \in At(s, "AI-CHAIN.1")

\* The level after n of the handoffs.
LevelAfter(levels, n) == Effective(SubSeq(levels, 1, n))

\* The buffer tells of the first n handoffs, and every later one was refused.
Tells(s, levels, n) ==
    /\ n = 0 <=> At(s, "AI-CHAIN.1") = {}
    /\ n > 0 /\ Strict => LevelAfter(levels, n) >= MinTrust
    /\ \A i \in At(s, "AI-CHAIN.1") : (\A k \in At(s, "AI-CHAIN.1") : k <= i) =>
           s[i].value = LevelAfter(levels, n)
    /\ \A m \in n + 1..Len(levels) : Strict /\ LevelAfter(levels, m) < MinTrust

TellsPrefix(s, levels) == \E n \in 0..Len(levels) : Tells(s, levels, n)

Trail(s, levels) == Falling(s) /\ Owned(s) /\ TellsPrefix(s, levels)

TrailInv == OnlyTrust /\ ~stopped => Trail(log, trust)

\* Sequence t is s with more at its end.
Extended(s, t) ==
    /\ s \in Seq(Anchor) /\ t \in Seq(Anchor) /\ Len(s) <= Len(t)
    /\ \A i \in DOMAIN s : i \in DOMAIN t /\ t[i] = s[i]

\* What is new does not belong to the trail.
Aside(s, t) ==
    /\ Extended(s, t)
    /\ \A i \in DOMAIN t \ DOMAIN s : t[i].proc \in Trails => t[i].chain # 0

LEMMA AsideKeeps ==
    ASSUME NEW s, NEW t, Aside(s, t), NEW levels, Trail(s, levels)
    PROVE  Trail(t, levels)
<1>1. DOMAIN s = 1..Len(s) /\ DOMAIN t = 1..Len(t) /\ Len(s) \in Nat /\ Len(t) \in Nat
  BY DEF Aside, Extended
<1>2. At(t, "AI-CHAIN.1") = At(s, "AI-CHAIN.1") /\ At(t, "AI-CHAIN.2") = At(s, "AI-CHAIN.2")
  BY DEF Aside, Extended, At, Trails
<1>3. \A i \in At(s, "AI-CHAIN.1") \cup At(s, "AI-CHAIN.2") : t[i] = s[i] /\ i \in Nat
  BY <1>1 DEF Aside, Extended, At
<1>4. \A i, j : Preceding(t, j, i) <=> Preceding(s, j, i)
  BY <1>2 DEF Preceding
<1>5. Falling(t)
  BY <1>2, <1>3, <1>4 DEF Trail, Falling
<1>6. Owned(t)
  BY <1>2 DEF Trail, Owned
<1>7. TellsPrefix(t, levels)
  <2>1. PICK n \in 0..Len(levels) : Tells(s, levels, n)
    BY DEF Trail, TellsPrefix
  <2>2. Tells(t, levels, n)
    BY <1>2, <1>3, <2>1 DEF Tells
  <2> QED
    BY <2>2 DEF TellsPrefix
<1> QED
  BY <1>5, <1>6, <1>7 DEF Trail

\* The anchors of a handoff enter the buffer: one, or two when it lowers the level.
HandsOver(s, t, n, two, effective) ==
    /\ Extended(s, t) /\ n = Len(s)
    /\ \A k : k \in DOMAIN t <=> k \in DOMAIN s \/ k = n + 1 \/ (two /\ k = n + 2)
    /\ t[n + 1].proc = "AI-CHAIN.1" /\ t[n + 1].chain = 0 /\ t[n + 1].value = effective
    /\ two => /\ t[n + 2].proc = "AI-CHAIN.2" /\ t[n + 2].chain = 0
              /\ t[n + 2].value = effective

\* What the levels before and after it are.
Lowers(before, after, old, new, two) ==
    /\ new <= old /\ after # <<>> /\ LevelOf(after) = new
    /\ before # <<>> => LevelOf(before) = old
    /\ two <=> before # <<>> /\ new < old
    /\ ~(Strict /\ new < MinTrust)

\* What the first elements of a sequence are.
LEMMA FirstOnes ==
    ASSUME NEW S, NEW seq \in Seq(S), NEW m \in 0..Len(seq)
    PROVE  SubSeq(seq, 1, m) = [i \in 1..m |-> seq[i]]
<1> DEFINE head == SubSeq(seq, 1, m)
<1>1. head \in Seq(S) /\ Len(head) = m /\ \A i \in 1..m : head[i] = seq[i]
  OBVIOUS
<1> HIDE DEF head
<1>2. head = [i \in 1..m |-> head[i]]
  BY <1>1
<1> QED
  BY <1>1, <1>2 DEF head

LEMMA SubSeqWhole ==
    ASSUME NEW S, NEW seq \in Seq(S) PROVE SubSeq(seq, 1, Len(seq)) = seq
<1>1. seq = [i \in 1..Len(seq) |-> seq[i]] /\ Len(seq) \in 0..Len(seq)
  OBVIOUS
<1> QED
  BY <1>1, FirstOnes

LEMMA PrefixOfAppend ==
    ASSUME NEW S, NEW seq \in Seq(S), NEW x \in S, NEW m \in 0..Len(seq)
    PROVE  SubSeq(Append(seq, x), 1, m) = SubSeq(seq, 1, m)
<1> DEFINE more == Append(seq, x)
<1>1. more \in Seq(S) /\ m \in 0..Len(more) /\ \A i \in 1..m : more[i] = seq[i]
  OBVIOUS
<1> HIDE DEF more
<1>2. SubSeq(more, 1, m) = [i \in 1..m |-> more[i]]
  BY <1>1, FirstOnes
<1>3. SubSeq(seq, 1, m) = [i \in 1..m |-> seq[i]]
  BY FirstOnes
<1> QED
  BY <1>1, <1>2, <1>3 DEF more

LEMMA WholeLevel ==
    ASSUME NEW levels \in Seq(TrustLevels), levels # <<>>
    PROVE  LevelAfter(levels, Len(levels)) = LevelOf(levels) /\ Len(levels) \in Nat \ {0}
<1>1. SubSeq(levels, 1, Len(levels)) = levels
  BY SubSeqWhole
<1>2. Len(levels) \in Nat \ {0}
  OBVIOUS
<1>3. LevelAfter(levels, Len(levels)) = LevelOf(levels)
  BY <1>1, Zenon DEF LevelAfter, LevelOf
<1> QED
  BY <1>2, <1>3

\* No handoff is accepted on a chain that is below the minimum already, so what was
\* told of the chain before an accepted one is all of it.
LEMMA AllTold ==
    ASSUME NEW s, NEW before \in Seq(TrustLevels), NEW after, TellsPrefix(s, before),
           NEW old \in Nat, NEW new \in Nat, NEW two,
           Lowers(before, after, old, new, two)
    PROVE  /\ before = <<>> => At(s, "AI-CHAIN.1") = {}
           /\ before # <<>> =>
                \A i \in At(s, "AI-CHAIN.1") : (\A k \in At(s, "AI-CHAIN.1") : k <= i) =>
                    s[i].value = old
<1>1. PICK n \in 0..Len(before) : Tells(s, before, n)
  BY DEF TellsPrefix
<1>2. CASE before = <<>>
  <2>1. n = 0
    BY <1>2
  <2> QED
    BY <1>1, <1>2, <2>1 DEF Tells
<1>3. CASE before # <<>>
  <2>1. LevelAfter(before, Len(before)) = old /\ Len(before) \in Nat \ {0}
    BY <1>3, WholeLevel DEF Lowers
  <2>2. new <= old /\ ~(Strict /\ new < MinTrust) /\ MinTrust \in Nat
    BY TrustAssumption DEF Lowers
  <2>3. ~(Strict /\ old < MinTrust)
    BY <2>2
  <2> DEFINE l == Len(before)
  <2>4. l \in Nat /\ n \in 0..l
    BY <2>1
  <2>5. l \notin n + 1..l
    BY <1>1, <2>1, <2>3 DEF Tells
  <2> HIDE DEF l
  <2>6. n = l
    BY <2>4, <2>5
  <2>7. LevelAfter(before, n) = old
    BY <2>1, <2>6 DEF l
  <2> QED
    BY <1>1, <1>3, <2>7 DEF Tells
<1> QED
  BY <1>2, <1>3

LEMMA HandoffKeeps ==
    ASSUME NEW s, NEW t, NEW n, NEW before \in Seq(TrustLevels),
           NEW after \in Seq(TrustLevels), Trail(s, before),
           NEW old \in Nat, NEW new \in Nat, NEW two \in BOOLEAN,
           HandsOver(s, t, n, two, new), Lowers(before, after, old, new, two)
    PROVE  Trail(t, after)
<1> DEFINE c1 == At(s, "AI-CHAIN.1")
           c2 == At(s, "AI-CHAIN.2")
<1>1. n \in Nat /\ DOMAIN s = 1..n /\ \A i \in 1..n : t[i] = s[i]
  <2>1. s \in Seq(Anchor) /\ n = Len(s) /\ \A i \in DOMAIN s : t[i] = s[i]
    BY DEF HandsOver, Extended
  <2>2. DOMAIN s = 1..Len(s) /\ Len(s) \in Nat
    BY <2>1
  <2> QED
    BY <2>1, <2>2
<1>a. /\ t[n + 1].proc = "AI-CHAIN.1" /\ t[n + 1].chain = 0 /\ t[n + 1].value = new
      /\ two => /\ t[n + 2].proc = "AI-CHAIN.2" /\ t[n + 2].chain = 0
                /\ t[n + 2].value = new
  BY DEF HandsOver
<1>b. (two <=> before # <<>> /\ new < old) /\ new <= old
  BY DEF Lowers
<1>2. At(t, "AI-CHAIN.1") = c1 \cup {n + 1}
  BY <1>1, <1>a DEF At, HandsOver
<1>3. /\ two => At(t, "AI-CHAIN.2") = c2 \cup {n + 2}
      /\ ~two => At(t, "AI-CHAIN.2") = c2
  BY <1>1, <1>a DEF At, HandsOver
<1>4. c1 \subseteq 1..n /\ c2 \subseteq 1..n
  BY <1>1 DEF At
<1>5. /\ Falling(s) /\ Owned(s) /\ (before = <<>> => c1 = {})
      /\ before # <<>> => \A i \in c1 : (\A k \in c1 : k <= i) => s[i].value = old
  <2>1. TellsPrefix(s, before)
    BY DEF Trail
  <2> QED
    BY <2>1, AllTold DEF Trail
<1> HIDE DEF c1, c2
<1>6. Falling(t)
  <2> SUFFICES ASSUME NEW i \in c1 \cup {n + 1}, NEW j \in c1 \cup {n + 1}, Preceding(t, j, i)
               PROVE  /\ t[i].value <= t[j].value
                      /\ (i + 1 \in At(t, "AI-CHAIN.2") /\ t[i + 1].value = t[i].value)
                              <=> t[i].value < t[j].value
    BY <1>2 DEF Falling
  <2>1. j < i /\ j \in c1 /\ j \in 1..n /\ \A k \in c1 : k < i => k <= j
    BY <1>1, <1>2, <1>4 DEF Preceding
  <2>2. CASE i \in c1
    <3>1. i \in 1..n /\ Preceding(s, j, i)
      BY <1>4, <2>1, <2>2 DEF Preceding, c1
    <3>2. i + 1 \in At(t, "AI-CHAIN.2") <=> i + 1 \in c2
      <4>1. i + 1 # n + 2
        BY <1>1, <3>1
      <4> QED
        BY <1>3, <4>1
    <3>3. i + 1 \in c2 => t[i + 1] = s[i + 1]
      BY <1>1, <1>4
    <3>4. /\ s[i].value <= s[j].value
          /\ (i + 1 \in c2 /\ s[i + 1].value = s[i].value) <=> s[i].value < s[j].value
      BY <1>5, <2>1, <2>2, <3>1 DEF Falling, c1, c2
    <3>5. t[i] = s[i] /\ t[j] = s[j]
      BY <1>1, <2>1, <3>1
    <3>6. CASE i + 1 \in c2
      BY <3>2, <3>3, <3>4, <3>5, <3>6
    <3>7. CASE i + 1 \notin c2
      BY <3>2, <3>4, <3>5, <3>7
    <3> QED
      BY <3>6, <3>7
  <2>3. CASE i = n + 1
    <3>1. \A k \in c1 : k <= j
      BY <1>1, <1>4, <2>1, <2>3
    <3>2. before # <<>>
      BY <1>5, <2>1
    <3>3. s[j].value = old
      BY <1>5, <2>1, <3>1, <3>2
    <3>4. t[i].value = new /\ t[j].value = old
      BY <1>1, <1>a, <2>1, <2>3, <3>3
    <3>5. i + 1 = n + 2 /\ n + 2 \notin c2
      BY <1>1, <1>4, <2>3
    <3>6. i + 1 \in At(t, "AI-CHAIN.2") <=> two
      BY <1>3, <3>5
    <3>7. two => t[i + 1].value = new
      BY <1>a, <3>5
    <3> QED
      BY <1>b, <3>2, <3>4, <3>6, <3>7
  <2> QED
    BY <2>2, <2>3
<1>7. Owned(t)
  <2> SUFFICES ASSUME NEW i \in At(t, "AI-CHAIN.2") PROVE i - 1 \in c1 \cup {n + 1}
    BY <1>2 DEF Owned
  <2>1. i \in c2 \/ i = n + 2
    BY <1>3
  <2>2. i \in c2 => i - 1 \in c1
    BY <1>5 DEF Owned, c1, c2
  <2>3. i = n + 2 => i - 1 = n + 1
    BY <1>1
  <2> QED
    BY <2>1, <2>2, <2>3
<1>8. TellsPrefix(t, after)
  <2> DEFINE l == Len(after)
  <2>1. LevelAfter(after, l) = new /\ l \in Nat \ {0}
    BY WholeLevel DEF Lowers
  <2>2. MinTrust \in Nat /\ ~(Strict /\ new < MinTrust)
    BY TrustAssumption DEF Lowers
  <2>3. ASSUME NEW i \in c1 \cup {n + 1}, \A k \in c1 \cup {n + 1} : k <= i
        PROVE  t[i].value = new
    <3>1. i = n + 1
      BY <1>1, <1>4, <2>3
    <3> QED
      BY <1>a, <3>1
  <2>4. l + 1..l = {} /\ l # 0 /\ l \in 0..l
    <3> HIDE DEF l
    <3> QED
      BY <2>1
  <2>5. Strict => new >= MinTrust
    BY <2>2
  <2> HIDE DEF l
  <2>6. Tells(t, after, l)
    BY <1>2, <2>1, <2>3, <2>4, <2>5 DEF Tells, l
  <2> QED
    BY <2>4, <2>6 DEF TellsPrefix, l
<1> QED
  BY <1>6, <1>7, <1>8 DEF Trail

-----------------------------------------------------------------------------
LEMMA GreatestExists ==
    ASSUME NEW n \in Nat, NEW S, S \subseteq 0..n, S # {}
    PROVE  Max(S) \in S /\ \A y \in S : y <= Max(S)
<1> DEFINE T == {n - x : x \in S}
<1>1. T \subseteq Nat /\ T # {}
  <2>1. \A x \in S : n - x \in Nat
    OBVIOUS
  <2>2. PICK x \in S : TRUE
    OBVIOUS
  <2>3. n - x \in T
    BY <2>2
  <2> QED
    BY <2>1, <2>3
<1>2. Min(T) \in T /\ \A y \in T : Min(T) <= y
  BY <1>1, LowestExists
<1>3. PICK x \in S : Min(T) = n - x
  BY <1>2
<1>4. \A y \in S : x >= y
  <2> TAKE y \in S
  <2>1. n - y \in T /\ n - x <= n - y
    BY <1>2, <1>3
  <2>2. x \in 0..n /\ y \in 0..n
    OBVIOUS
  <2> HIDE DEF T
  <2> QED
    BY <2>1, <2>2
<1>5. \E z \in S : \A y \in S : z >= y
  BY <1>4
<1>6. Max(S) \in S /\ \A y \in S : Max(S) >= y
  BY <1>5 DEF Max
<1>7. \A y \in S : y \in Int
  OBVIOUS
<1> QED
  BY <1>6, <1>7

LEMMA TrailIsTrustTrail ==
    ASSUME IInv, TrailInv
    PROVE  TrustTrail
<1> DEFINE handoffs == Positions("AI-CHAIN.1")
           Before(i) == {j \in handoffs : j < i}
           Degraded(i) == i + 1 \in Positions("AI-CHAIN.2") /\ log[i + 1].value = log[i].value
           n == Len(log)
<1> SUFFICES ASSUME OnlyTrust, ~stopped
             PROVE  /\ \A i \in handoffs : Before(i) # {} =>
                        LET previous == log[Max(Before(i))].value
                        IN  log[i].value <= previous /\ (Degraded(i) <=> log[i].value < previous)
                    /\ \A i \in Positions("AI-CHAIN.2") : i - 1 \in handoffs
                    /\ \E m \in 0..Len(trust) :
                        /\ m = 0 <=> handoffs = {}
                        /\ m > 0 => /\ log[Max(handoffs)].value = EffectiveAfter(m)
                                    /\ Strict => EffectiveAfter(m) >= MinTrust
                        /\ \A k \in m + 1..Len(trust) : Strict /\ EffectiveAfter(k) < MinTrust
  BY Zenon DEF TrustTrail, OnlyTrust, Trails
<1>1. Trail(log, trust)
  BY DEF TrailInv
<1>2. /\ handoffs = At(log, "AI-CHAIN.1") /\ Positions("AI-CHAIN.2") = At(log, "AI-CHAIN.2")
      /\ \A m : EffectiveAfter(m) = LevelAfter(trust, m)
  BY DEF Positions, At, EffectiveAfter, LevelAfter
<1>3. n \in Nat /\ handoffs \subseteq 0..n
  BY TypesOf DEF Positions
<1> HIDE DEF handoffs
<1>4. ASSUME NEW i \in handoffs, Before(i) # {}
      PROVE  LET previous == log[Max(Before(i))].value
             IN  log[i].value <= previous /\ (Degraded(i) <=> log[i].value < previous)
  <2> DEFINE j == Max(Before(i))
  <2>1. j \in Before(i) /\ \A k \in Before(i) : k <= j
    <3>1. Before(i) \subseteq 0..n
      BY <1>3
    <3> HIDE DEF Before, n
    <3> QED
      BY <1>3, <1>4, <3>1, GreatestExists
  <2> HIDE DEF j
  <2>2. j \in handoffs /\ Preceding(log, j, i)
    BY <1>2, <2>1 DEF Preceding
  <2>3. /\ log[i].value <= log[j].value
        /\ Degraded(i) <=> log[i].value < log[j].value
    BY <1>1, <1>2, <2>2, Zenon DEF Trail, Falling
  <2> QED
    BY <2>3 DEF j
<1>5. \E m \in 0..Len(trust) :
        /\ m = 0 <=> handoffs = {}
        /\ m > 0 => /\ log[Max(handoffs)].value = EffectiveAfter(m)
                    /\ Strict => EffectiveAfter(m) >= MinTrust
        /\ \A k \in m + 1..Len(trust) : Strict /\ EffectiveAfter(k) < MinTrust
  <2>1. handoffs # {} => Max(handoffs) \in handoffs /\ \A k \in handoffs : k <= Max(handoffs)
    <3> HIDE DEF n
    <3> QED
      BY <1>3, GreatestExists
  <2>2. PICK m \in 0..Len(trust) : Tells(log, trust, m)
    BY <1>1 DEF Trail, TellsPrefix
  <2>3. m = 0 <=> handoffs = {}
    BY <1>2, <2>2 DEF Tells
  <2>4. m > 0 => log[Max(handoffs)].value = EffectiveAfter(m)
    BY <1>2, <2>1, <2>2, <2>3 DEF Tells
  <2>5. m > 0 /\ Strict => EffectiveAfter(m) >= MinTrust
    BY <1>2, <2>2 DEF Tells
  <2>6. \A k \in m + 1..Len(trust) : Strict /\ EffectiveAfter(k) < MinTrust
    BY <1>2, <2>2 DEF Tells
  <2> QED
    BY <2>3, <2>4, <2>5, <2>6
<1>6. \A i \in Positions("AI-CHAIN.2") : i - 1 \in handoffs
  BY <1>1, <1>2 DEF Trail, Owned
<1> QED
  BY <1>4, <1>5, <1>6

-----------------------------------------------------------------------------
(* Every step but a handoff leaves the trail aside. *)

\* Anchors that are no part of it.
Elsewhere(anchors) == \A j \in DOMAIN anchors : anchors[j].proc \in Trails => anchors[j].chain # 0

LEMMA GrownAside ==
    ASSUME IInv, NEW anchors, Grown(anchors), Elsewhere(anchors)
    PROVE  Aside(log, log')
BY TypesOf DEF Grown, Elsewhere, Aside, Extended

LEMMA EnterAside ==
    ASSUME IInv, NEW anchors \in Seq(Anchor), Enter(anchors), Elsewhere(anchors)
    PROVE  Aside(log, log')
BY TypesOf, EnterGrows, GrownAside

LEMMA SampledAside ==
    ASSUME IInv, NEW anchors \in Seq(Anchor), EnqueueSampled(anchors), Elsewhere(anchors),
           \A j \in DOMAIN anchors : anchors[j].proc \in Procs
    PROVE  Aside(log, log')
BY SampledGrows, GrownAside

LEMMA SameAside == ASSUME IInv, UNCHANGED log PROVE Aside(log, log')
BY TypesOf DEF Aside, Extended

\* Anchors of no lifecycle chain, and of the trail only where a method makes them so.
Free(anchors) ==
    \A j \in DOMAIN anchors :
        /\ anchors[j].chain = 0
        /\ anchors[j].proc \in Trails => anchors[j].proc \in {m.proc : m \in Methods}

Apart(s, t) ==
    /\ Extended(s, t)
    /\ \A i \in DOMAIN t \ DOMAIN s :
        /\ t[i].chain = 0
        /\ t[i].proc \in Trails => t[i].proc \in {m.proc : m \in Methods}

LEMMA EnterApart ==
    ASSUME IInv, NEW anchors \in Seq(Anchor), Enter(anchors), Free(anchors)
    PROVE  Apart(log, log')
BY TypesOf, EnterGrows, SMTT(30) DEF Grown, Free, Apart, Extended

LEMMA SampledApart ==
    ASSUME IInv, NEW anchors \in Seq(Anchor), EnqueueSampled(anchors), Free(anchors),
           \A j \in DOMAIN anchors : anchors[j].proc \in Procs
    PROVE  Apart(log, log')
BY TypesOf, SampledGrows, SMTT(30) DEF Grown, Free, Apart, Extended

LEMMA ApartAside == ASSUME OnlyTrust, NEW s, NEW t, Apart(s, t) PROVE Aside(s, t)
BY DEF OnlyTrust, Apart, Aside

\* A step that goes on with what stays in the buffer.
LEMMA AsideStep ==
    ASSUME TrailInv, Aside(log, log'), UNCHANGED trust, stopped => stopped'
    PROVE  TrailInv'
BY AsideKeeps DEF TrailInv

LEMMA WitnessApart ==
    ASSUME IInv, NEW m \in Methods, Witness(m)
    PROVE  Apart(log, log')
<1> DEFINE a == AnchorOf(m, 1)
<1>1. m \in Surface /\ Cautious(m) /\ m.proc \in Procs
  BY MethodsAssumption, SurfaceIsCautious DEF Procs
<1>2. minted' = minted + 1 /\ minted' \in 0..MaxMints
  BY TypesOf DEF Witness
<1>3. a \in Anchor /\ a.chain = 0 /\ a.proc = m.proc
  BY <1>1, <1>2, OrphanMade, TypesOf DEF AnchorProcs
<1>5. EnqueueSampled(<<a>>)
  BY DEF Witness
<1> HIDE DEF a
<1> DEFINE anchors == <<a>>
<1>6. /\ anchors \in Seq(Anchor) /\ EnqueueSampled(anchors) /\ Free(anchors)
      /\ \A j \in DOMAIN anchors : anchors[j].proc \in Procs
  BY <1>1, <1>3, <1>5 DEF Free
<1> HIDE DEF anchors
<1> QED
  BY <1>6, SampledApart

LEMMA RecordApart == ASSUME IInv, Record PROVE Apart(log, log')
<1> DEFINE anchors == [k \in DOMAIN Inference |-> AnchorOf(Inference[k], k)]
<1>1. Len(Inference) \in Nat /\ DOMAIN Inference = 1..Len(Inference)
  BY InferenceAssumption
<1>2. minted' = minted + Len(Inference) /\ minted' \in 0..MaxMints
  BY <1>1, TypesOf DEF Record
<1>3. \A k \in DOMAIN Inference : /\ Cautious(Inference[k]) /\ Inference[k].proc \in Procs
                                  /\ Inference[k].proc \notin Trails
  <2>1. \A k \in DOMAIN Inference : Inference[k] \in InferenceMints
    BY InferenceAssumption
  <2>2. InferenceMints \subseteq Surface
    BY DEF Surface
  <2>3. \A m \in InferenceMints : m.proc \notin Trails
    BY DEF InferenceMints, Shaped, Trails
  <2> QED
    BY <2>1, <2>2, <2>3, InferenceIsCautious DEF Procs
<1>4. \A k \in DOMAIN Inference :
        LET a == AnchorOf(Inference[k], k)
        IN  a \in Anchor /\ a.chain = 0 /\ a.proc = Inference[k].proc
  <2> TAKE k \in DOMAIN Inference
  <2>1. k \in Nat \ {0} /\ minted + k <= minted'
    BY <1>1, <1>2, TypesOf
  <2> QED
    BY <1>2, <1>3, <2>1, OrphanMade DEF AnchorProcs
<1>5. /\ anchors \in Seq(Anchor) /\ Free(anchors)
      /\ \A j \in DOMAIN anchors : anchors[j].proc \in Procs
  BY <1>1, <1>3, <1>4 DEF Free
<1>6. EnqueueSampled(anchors)
  BY DEF Record
<1> HIDE DEF anchors
<1> QED
  BY <1>5, <1>6, SampledApart

LEMMA VerifyTrustApart == ASSUME IInv, VerifyTrust PROVE Apart(log, log')
<1> DEFINE a == AnchorOf(MintOf("AI-TRUST.1"), 1)
           b == AnchorOf(MintOf("AI-TRUST.2"), 2)
<1>1. {"AI-TRUST.1", "AI-TRUST.2"} \subseteq Procs
  BY DEF Procs
<1>2. minted' = minted + 2 /\ minted' \in 0..MaxMints
  BY TypesOf DEF VerifyTrust
<1>3. a \in Anchor /\ a.chain = 0 /\ a.proc = "AI-TRUST.1"
  BY <1>1, <1>2, OrphanMade, PlainMint, TypesOf DEF AnchorProcs
<1>4. b \in Anchor /\ b.chain = 0 /\ b.proc = "AI-TRUST.2"
  BY <1>1, <1>2, OrphanMade, PlainMint, TypesOf DEF AnchorProcs
<1>5. EnqueueSampled(<<a, b>>)
  BY DEF VerifyTrust
<1> HIDE DEF a, b
<1> DEFINE anchors == <<a, b>>
<1>6. /\ anchors \in Seq(Anchor) /\ EnqueueSampled(anchors) /\ Free(anchors)
      /\ \A j \in DOMAIN anchors : anchors[j].proc \in Procs
  BY <1>1, <1>3, <1>4, <1>5 DEF Free, Trails
<1> HIDE DEF anchors
<1> QED
  BY <1>6, SampledApart

LEMMA DirectApart ==
    ASSUME IInv, NEW m \in GateMints \cup RevocationMints, EnqueueDirect(m)
    PROVE  Apart(log, log')
<1> DEFINE a == AnchorOf(m, 1)
<1>1. Cautious(m) /\ m.proc \in {"AI-GRD.3", "AI-REV.1"}
  BY InferenceIsCautious DEF GateMints, RevocationMints, Shaped
<1>2. minted' = minted + 1 /\ minted' \in 0..MaxMints
  BY TypesOf DEF EnqueueDirect
<1>3. a \in Anchor /\ a.chain = 0 /\ a.proc = m.proc
  BY <1>1, <1>2, OrphanMade, TypesOf DEF AnchorProcs
<1>4. Enter(<<a>>)
  BY DEF EnqueueDirect
<1> HIDE DEF a
<1>5. <<a>> \in Seq(Anchor) /\ Free(<<a>>)
  BY <1>1, <1>3 DEF Free, Trails
<1> QED
  BY <1>4, <1>5, EnterApart

LEMMA UnchainedFree == ASSUME NEW anchors, Unchained(anchors) PROVE Free(anchors)
BY DEF Unchained, Free, Metas, Trails

LEMMA FlushApart == ASSUME IInv, Flush PROVE Apart(log, log')
<1>1. PICK order \in Orders(Skipped) : Enter(Attestation \o Summaries(order, Len(Attestation)))
  BY DEF Flush
<1>2. Len(Attestation) \in Nat /\ Cardinality(Skipped) \in Nat
  BY FS_CardinalityType DEF IInv, SkipsFinite, Attestation
<1>3. /\ minted' = minted + Len(Attestation) + Cardinality(Skipped)
      /\ minted' \in 0..MaxMints
  BY <1>2, TypesOf DEF Flush
<1> DEFINE head == Attestation
           tail == Summaries(order, Len(Attestation))
<1>4. head \in Seq(Anchor) /\ Unchained(head)
  BY <1>2, <1>3, AttestationMade, TypesOf
<1>5. tail \in Seq(Anchor) /\ Unchained(tail)
  BY <1>2, <1>3, SummariesMade, TypesOf
<1>6. Enter(head \o tail)
  BY <1>1
<1> HIDE DEF head, tail
<1> DEFINE anchors == head \o tail
<1>7. anchors \in Seq(Anchor) /\ Unchained(anchors)
  <2>1. anchors \in Seq(Anchor) /\ DOMAIN anchors = 1..(Len(head) + Len(tail))
    BY <1>4, <1>5
  <2>2. \A j \in DOMAIN anchors :
            \/ j \in DOMAIN head /\ anchors[j] = head[j]
            \/ j - Len(head) \in DOMAIN tail /\ anchors[j] = tail[j - Len(head)]
    BY <1>4, <1>5, <2>1
  <2> QED
    BY <1>4, <1>5, <2>1, <2>2 DEF Unchained
<1> HIDE DEF anchors
<1> QED
  BY <1>6, <1>7, UnchainedFree, EnterApart DEF anchors

LEMMA StopApart == ASSUME IInv, Stop PROVE Apart(log, log')
<1>1. PICK order \in Orders(Skipped) : Enter(Summaries(order, 0))
  BY DEF Stop
<1>2. Cardinality(Skipped) \in Nat
  BY FS_CardinalityType DEF IInv, SkipsFinite
<1>3. minted' = minted + Cardinality(Skipped) /\ minted' \in 0..MaxMints
  BY <1>2, TypesOf DEF Stop
<1>4. Summaries(order, 0) \in Seq(Anchor) /\ Unchained(Summaries(order, 0))
  BY <1>2, <1>3, SummariesMade, TypesOf
<1> QED
  BY <1>1, <1>4, UnchainedFree, EnterApart

LEMMA SessionApart == ASSUME IInv, SessionNext PROVE Apart(log, log')
<1>1. CASE \E m \in Methods : Witness(m)
  BY <1>1, WitnessApart
<1>2. CASE Record \/ VerifyTrust
  BY <1>2, RecordApart, VerifyTrustApart
<1>3. CASE GateCheck \/ Revoke
  BY <1>3, DirectApart DEF GateCheck, Revoke
<1>4. CASE Flush \/ Stop
  BY <1>4, FlushApart, StopApart
<1>5. CASE UNCHANGED log
  BY <1>5, SameAside DEF Aside, Apart, Extended
<1>6. CASE RecordSessionTokens \/ Tick
  BY <1>5, <1>6 DEF RecordSessionTokens, Tick
<1>7. CASE \E s \in Scopes : BeginScope(s)
  BY <1>5, <1>7 DEF BeginScope
<1>8. CASE \E i \in DOMAIN scopes : EndScope(i)
  BY <1>5, <1>8 DEF EndScope
<1> QED
  BY <1>1, <1>2, <1>3, <1>4, <1>6, <1>7, <1>8 DEF SessionNext

\* A stopped Witness stays so.
LEMMA SessionStops == SessionNext => (stopped => stopped')
BY DEF SessionNext, Witness, Record, VerifyTrust, GateCheck, Revoke, EnqueueDirect,
       RecordSessionTokens, Flush, Stop, Tick, BeginScope, EndScope

LEMMA SessionTrail ==
    ASSUME IInv, TrailInv, SessionNext, UNCHANGED trust
    PROVE  TrailInv'
<1>1. CASE OnlyTrust
  BY <1>1, SessionApart, ApartAside, SessionStops, AsideStep
<1> QED
  BY <1>1 DEF TrailInv

-----------------------------------------------------------------------------
\* Anchors of a lifecycle chain name it.
Named(anchors) == \A j \in DOMAIN anchors : anchors[j].chain # 0

LEMMA NamedElsewhere == ASSUME NEW anchors, Named(anchors) PROVE Elsewhere(anchors)
BY DEF Named, Elsewhere

LEMMA BeginAside ==
    ASSUME IInv, NEW p \in Begun \cup {"AI-INCIDENT.1"}, NEW incident,
           BeginLifecycle(p, incident)
    PROVE  Aside(log, log')
<1>1. p \in Procs
  BY BegunProcs
<1>2. minted' = minted + 1 /\ minted' \in 0..MaxMints /\ minted + 1 # 0
  BY TypesOf DEF BeginLifecycle
<1> DEFINE r == Root(p)
<1>3. r \in Anchor /\ r.proc = p /\ r.chain = minted + 1
  BY <1>1, <1>2, RootMade, TypesOf
<1>4. EnqueueSampled(<<r>>)
  BY DEF BeginLifecycle
<1> HIDE DEF r
<1> DEFINE anchors == <<r>>
<1>5. /\ anchors \in Seq(Anchor) /\ Named(anchors) /\ EnqueueSampled(anchors)
      /\ \A j \in DOMAIN anchors : anchors[j].proc \in Procs
  BY <1>1, <1>2, <1>3, <1>4 DEF Named
<1> HIDE DEF anchors
<1> QED
  BY <1>5, NamedElsewhere, SampledAside

LEMMA StageAside ==
    ASSUME IInv, NEW h \in DOMAIN handles, NEW stage \in Stages, MintStage(h, stage)
    PROVE  Aside(log, log')
<1> DEFINE a == StageAnchor(h, stage, 1)
<1>1. minted' = minted + 1 /\ minted' \in 0..MaxMints
  BY TypesOf DEF MintStage
<1>2. a \in Anchor /\ a.chain # 0
  <2>1. a \in Anchor /\ a.chain = handles[h].chain
    BY <1>1, StageMade, TypesOf
  <2>2. handles[h].chain # 0
    BY HandleTyped, SessionAssumption
  <2> QED
    BY <2>1, <2>2
<1>3. Enter(<<a>>)
  BY DEF MintStage
<1> HIDE DEF a
<1>4. <<a>> \in Seq(Anchor) /\ Named(<<a>>)
  BY <1>2 DEF Named
<1> QED
  BY <1>3, <1>4, NamedElsewhere, EnterAside

LEMMA NamedJoined ==
    ASSUME NEW s \in Seq(Anchor), NEW t \in Seq(Anchor), Named(s), Named(t)
    PROVE  s \o t \in Seq(Anchor) /\ Named(s \o t)
<1>1. s \o t \in Seq(Anchor) /\ DOMAIN (s \o t) = 1..(Len(s) + Len(t))
  OBVIOUS
<1>2. \A j \in DOMAIN (s \o t) :
          \/ j \in DOMAIN s /\ (s \o t)[j] = s[j]
          \/ j - Len(s) \in DOMAIN t /\ (s \o t)[j] = t[j - Len(s)]
  BY <1>1
<1> QED
  BY <1>1, <1>2 DEF Named

LEMMA EscalateAside ==
    ASSUME IInv, NEW h \in DOMAIN handles, NEW p \in Begun, Escalate(h, p)
    PROVE  Aside(log, log')
<1> DEFINE RootIn(fate) == IF fate = "enter" THEN <<Root(p)>> ELSE <<>>
           own == IF handles[h].closed THEN <<>> ELSE <<StageAnchor(h, "escalated", 2)>>
<1>1. PICK fate \in Fates(p) :
        Enter(RootIn(fate) \o own) /\ minted' = minted + 1 + Len(own)
  BY DEF Escalate
<1> DEFINE root == RootIn(fate)
<1>2. minted + 2 <= MaxMints /\ p \in Procs
  BY BegunProcs DEF Escalate
<1>3. own = <<>> \/ own = <<StageAnchor(h, "escalated", 2)>>
  OBVIOUS
<1>4. root = <<Root(p)>> \/ root = <<>>
  OBVIOUS
<1>5. /\ minted' \in 0..MaxMints /\ minted + 1 <= minted'
      /\ own # <<>> => minted + 2 <= minted'
  <2>1. CASE own = <<>>
    <3>1. Len(own) = 0
      BY <2>1
    <3> HIDE DEF own
    <3> QED
      BY <1>1, <1>2, <2>1, <3>1, TypesOf
  <2>2. CASE own = <<StageAnchor(h, "escalated", 2)>>
    <3>1. Len(own) = 1
      BY <2>2
    <3> HIDE DEF own
    <3> QED
      BY <1>1, <1>2, <3>1, TypesOf
  <2> QED
    BY <1>3, <2>1, <2>2
<1>6. root \in Seq(Anchor) /\ Named(root)
  <2> DEFINE r == Root(p)
  <2>1. r \in Anchor /\ r.chain # 0
    BY <1>2, <1>5, RootMade, TypesOf
  <2>2. root = <<r>> \/ root = <<>>
    BY <1>4
  <2> HIDE DEF r, root
  <2>3. CASE root = <<r>>
    BY <2>1, <2>3 DEF Named
  <2>4. CASE root = <<>>
    BY <2>4 DEF Named
  <2> QED
    BY <2>2, <2>3, <2>4
<1>7. own \in Seq(Anchor) /\ Named(own)
  <2>1. CASE own = <<>>
    <3> HIDE DEF own
    <3> QED
      BY <2>1 DEF Named
  <2>2. CASE own # <<>>
    <3> DEFINE a == StageAnchor(h, "escalated", 2)
    <3>1. a \in Anchor /\ a.chain = handles[h].chain
      BY <1>5, <2>2, StageMade, TypesOf DEF Stages
    <3>2. a.chain # 0
      BY <3>1, HandleTyped, SessionAssumption
    <3>3. own = <<a>>
      BY <1>3, <2>2
    <3> HIDE DEF a, own
    <3> QED
      BY <3>1, <3>2, <3>3 DEF Named
  <2> QED
    BY <2>1, <2>2
<1>8. Enter(root \o own)
  BY <1>1
<1> HIDE DEF root, own
<1>9. root \o own \in Seq(Anchor) /\ Named(root \o own)
  BY <1>6, <1>7, NamedJoined
<1> QED
  BY <1>8, <1>9, NamedElsewhere, EnterAside

LEMMA LifecycleTrail ==
    ASSUME IInv, TrailInv, LifecycleNext, UNCHANGED trust
    PROVE  TrailInv'
<1>1. ASSUME NEW p \in Begun \cup {"AI-INCIDENT.1"}, NEW incident, BeginLifecycle(p, incident)
      PROVE  TrailInv'
  BY <1>1, BeginAside, AsideStep DEF BeginLifecycle
<1>2. ASSUME NEW h \in DOMAIN handles, NEW last, NEW count, Resume(h, last, count)
      PROVE  TrailInv'
  BY <1>2, SameAside, AsideStep DEF Resume, session
<1>3. ASSUME NEW h \in DOMAIN handles, NEW stage \in Stages, MintStage(h, stage)
      PROVE  TrailInv'
  BY <1>3, StageAside, AsideStep DEF MintStage
<1>4. ASSUME NEW h \in DOMAIN handles, NEW p \in Begun, Escalate(h, p)
      PROVE  TrailInv'
  BY <1>4, EscalateAside, AsideStep DEF Escalate
<1>5. ASSUME NEW h \in DOMAIN handles,
             Checkpoint(h) \/ Resolve(h) \/ Abandon(h) \/ EscalateIncident(h)
      PROVE  TrailInv'
  BY <1>3, <1>5 DEF Checkpoint, Resolve, Abandon, EscalateIncident, Stages
<1> QED
  BY <1>1, <1>2, <1>4, <1>5 DEF LifecycleNext

LEMMA PolicyTrail ==
    ASSUME IInv, TrailInv, NEW v \in Versions, CheckPolicy(v)
    PROVE  TrailInv'
<1>1. CASE UNCHANGED <<session, trust>>
  BY <1>1, SameAside, AsideStep DEF session
<1> DEFINE a == [AnchorOf(MintOf("AI-METAGOV.3"), 1) EXCEPT !.value = v]
<1>2. CASE /\ minted < MaxMints /\ EnqueueSampled(<<a>>) /\ minted' = minted + 1
           /\ UNCHANGED <<stopped, trust>>
  <2>1. minted' \in 0..MaxMints /\ minted + 1 <= minted' /\ v \in Nat
    BY <1>2, TypesOf, TrustAssumption
  <2>2. a \in Anchor /\ a.proc = "AI-METAGOV.3"
    <3>1. a = Valued("AI-METAGOV.3", 1, v)
      BY Zenon DEF Valued
    <3> HIDE DEF a
    <3> QED
      BY <2>1, <3>1, ValuedMade, TrustProcs
  <2> HIDE DEF a
  <2> DEFINE anchors == <<a>>
  <2>3. /\ anchors \in Seq(Anchor) /\ Elsewhere(anchors) /\ EnqueueSampled(anchors)
        /\ \A j \in DOMAIN anchors : anchors[j].proc \in Procs
    BY <1>2, <2>2, TrustProcs DEF Elsewhere, Trails
  <2> HIDE DEF anchors
  <2> QED
    BY <1>2, <2>3, SampledAside, AsideStep
<1> QED
  BY <1>1, <1>2 DEF CheckPolicy

-----------------------------------------------------------------------------
(* A handoff: what it mints enters the buffer, all of it and in order. *)

LEMMA AllEnter ==
    ASSUME OnlyTrust, NEW anchors \in Seq(Anchor), Len(anchors) \in 1..2,
           \A j \in DOMAIN anchors : anchors[j].proc \in Trails, EnqueueSampled(anchors)
    PROVE  Enter(anchors)
<1> DEFINE n == Len(anchors)
<1>1. DOMAIN anchors = 1..n /\ n \in 1..2
  OBVIOUS
<1>2. PICK enter \in Picks(n) :
        /\ \A i \in DOMAIN anchors \ Range(enter) : "skip" \in Fates(anchors[i].proc)
        /\ Enter([k \in DOMAIN enter |-> anchors[enter[k]]])
  BY DEF EnqueueSampled
<1>3. \A p \in Trails : "skip" \notin Fates(p)
  BY DEF OnlyTrust, Fates
<1>4. \A i \in 1..n : \E k \in DOMAIN enter : enter[k] = i
  <2>1. 1..n \subseteq Range(enter)
    BY <1>1, <1>2, <1>3
  <2> QED
    BY <2>1 DEF Range
<1>5. PICK m \in 0..n : enter \in [1..m -> 1..n] /\ \A i, j \in 1..m : i < j => enter[i] < enter[j]
  BY DEF Picks
<1> HIDE DEF n
<1>6. m = n /\ \A k \in 1..n : enter[k] = k
  <2>1. PICK one \in 1..m : enter[one] = 1
    BY <1>1, <1>4, <1>5
  <2>2. CASE n = 1
    BY <1>5, <2>1, <2>2
  <2>3. CASE n = 2
    <3>1. PICK two \in 1..m : enter[two] = 2
      BY <1>4, <1>5, <2>3
    <3>2. m = 2 /\ one \in {1, 2} /\ two \in {1, 2}
      BY <1>5, <2>1, <2>3, <3>1
    <3>3. one = 1 /\ two = 2
      BY <1>5, <2>1, <3>1, <3>2
    <3> QED
      BY <2>1, <2>3, <3>1, <3>2, <3>3
  <2> QED
    BY <1>1, <2>2, <2>3
<1>7. [k \in DOMAIN enter |-> anchors[enter[k]]] = anchors
  <2>1. DOMAIN enter = 1..n
    BY <1>5, <1>6
  <2>2. \A k \in 1..n : anchors[enter[k]] = anchors[k]
    BY <1>6
  <2>3. anchors = [k \in 1..n |-> anchors[k]]
    BY <1>1
  <2> QED
    BY <2>1, <2>2, <2>3
<1> QED
  BY <1>2, <1>7

LEMMA EffectiveFalls ==
    ASSUME NEW levels \in Seq(TrustLevels), NEW t \in TrustLevels
    PROVE  /\ Effective(Append(levels, t)) \in Nat
           /\ levels # <<>> => /\ Effective(levels) \in Nat
                               /\ Effective(Append(levels, t)) <= Effective(levels)
<1> DEFINE more == Append(levels, t)
           S == {levels[i] : i \in DOMAIN levels}
           T == {more[i] : i \in DOMAIN more}
<1>1. more \in Seq(TrustLevels) /\ more # <<>> /\ \A i \in DOMAIN levels : i \in DOMAIN more /\ more[i] = levels[i]
  OBVIOUS
<1>2. Effective(more) \in Nat /\ (levels # <<>> => Effective(levels) \in Nat)
  BY <1>1, EffectiveTyped
<1>3. ASSUME levels # <<>> PROVE Effective(more) <= Effective(levels)
  <2>1. S \subseteq T /\ T \subseteq TrustLevels
    BY <1>1
  <2>2. 1 \in DOMAIN levels
    BY <1>3
  <2>3. S # {}
    BY <2>2
  <2>4. T \subseteq Nat /\ S \subseteq Nat /\ T # {}
    BY <2>1, <2>3, TrustAssumption
  <2> HIDE DEF S, T
  <2>5. Min(S) \in S /\ \A y \in T : Min(T) <= y
    BY <2>3, <2>4, LowestExists
  <2>6. Min(T) <= Min(S)
    BY <2>1, <2>5
  <2> QED
    BY <2>6 DEF Effective, S, T
<1> QED
  BY <1>2, <1>3

LEMMA Joins == ASSUME NEW x, NEW y PROVE <<x>> \o <<y>> = <<x, y>> /\ <<x>> \o <<>> = <<x>>
<1>1. <<x>> \o <<y>> = <<x, y>>
  <2> DEFINE s == <<x>> \o <<y>>
             t == <<x, y>>
  <2>1. s \in Seq({x, y}) /\ Len(s) = 2 /\ s[1] = x /\ s[2] = y
    OBVIOUS
  <2>2. t \in Seq({x, y}) /\ Len(t) = 2 /\ t[1] = x /\ t[2] = y
    OBVIOUS
  <2> HIDE DEF s, t
  <2>3. s = [i \in 1..2 |-> s[i]] /\ t = [i \in 1..2 |-> t[i]]
    BY <2>1, <2>2
  <2>4. \A i \in 1..2 : s[i] = t[i]
    BY <2>1, <2>2
  <2>5. s = t
    BY <2>3, <2>4
  <2> QED
    BY <2>5 DEF s, t
<1>2. <<x>> \o <<>> = <<x>>
  OBVIOUS
<1> QED
  BY <1>1, <1>2

\* A refused handoff is one more level that the buffer does not tell of.
LEMMA RefusedUntold ==
    ASSUME NEW s, NEW levels \in Seq(TrustLevels), NEW t \in TrustLevels,
           TellsPrefix(s, levels), Strict, Effective(Append(levels, t)) < MinTrust
    PROVE  TellsPrefix(s, Append(levels, t))
<1> DEFINE more == Append(levels, t)
           l == Len(levels)
<1>1. more \in Seq(TrustLevels) /\ more # <<>> /\ l \in Nat /\ Len(more) = l + 1
  OBVIOUS
<1>2. PICK n \in 0..l : Tells(s, levels, n)
  BY DEF TellsPrefix
<1>3. \A m \in 0..l : LevelAfter(more, m) = LevelAfter(levels, m)
  BY PrefixOfAppend DEF LevelAfter
<1>4. LevelAfter(more, l + 1) < MinTrust
  <2>1. LevelAfter(more, Len(more)) = LevelOf(more) /\ LevelOf(more) = Effective(more)
    <3> HIDE DEF more
    <3> QED
      BY <1>1, WholeLevel DEF LevelOf
  <2> QED
    BY <1>1, <2>1
<1> HIDE DEF more, l
<1>5. \A m \in n + 1..l + 1 : Strict /\ LevelAfter(more, m) < MinTrust
  <2> TAKE m \in n + 1..l + 1
  <2>1. m = l + 1 \/ (m \in n + 1..l /\ m \in 0..l)
    BY <1>1
  <2>2. m \in n + 1..l /\ m \in 0..l => LevelAfter(more, m) < MinTrust
    BY <1>2, <1>3 DEF Tells, l
  <2> QED
    BY <1>4, <2>1, <2>2
<1>6. Tells(s, more, n)
  BY <1>1, <1>2, <1>3, <1>5 DEF Tells
<1>7. n \in 0..Len(more)
  BY <1>1, <1>2
<1> QED
  BY <1>6, <1>7 DEF TellsPrefix, more

LEMMA HandOffTrail ==
    ASSUME IInv, TrailInv, NEW t \in TrustLevels, HandOff(t)
    PROVE  TrailInv'
<1> SUFFICES ASSUME OnlyTrust, ~stopped, UNCHANGED stopped PROVE Trail(log', trust')
  BY DEF TrailInv, HandOff, session
<1> DEFINE new == Effective(Append(trust, t))
           old == IF trust = <<>> THEN new ELSE Effective(trust)
           two == trust # <<>> /\ new < old
           head == HandoffAnchor(new)
           tail == DegradationAnchors(ChainEffectiveTrustLevel, new)
           anchors == <<head>> \o tail
<1>1. /\ trust' = Append(trust, t) /\ trust \in Seq(TrustLevels) /\ trust' # <<>>
      /\ LevelOf(trust') = new
  <2>1. trust' = Append(trust, t) /\ trust \in Seq(TrustLevels)
    BY TrustTyped DEF HandOff
  <2> QED
    BY <2>1 DEF LevelOf
<1>2. new \in Nat /\ old \in Nat /\ new <= old /\ (trust # <<>> => LevelOf(trust) = old)
  BY <1>1, EffectiveFalls DEF LevelOf
<1>3. Trail(log, trust)
  BY DEF TrailInv
<1>4. CASE Strict /\ new < MinTrust /\ UNCHANGED session
  <2>1. UNCHANGED log
    BY <1>4 DEF session
  <2>2. TellsPrefix(log, trust')
    BY <1>1, <1>3, <1>4, RefusedUntold DEF Trail
  <2> QED
    BY <1>3, <2>1, <2>2 DEF Trail
<1>5. CASE /\ ~(Strict /\ new < MinTrust)
           /\ minted + Len(anchors) <= MaxMints
           /\ EnqueueSampled(anchors)
           /\ minted' = minted + Len(anchors)
  <2>1. tail = IF two THEN <<Lowered("AI-CHAIN.2", 2, new)>> ELSE <<>>
    BY Zenon DEF DegradationAnchors, Lowered, ChainEffectiveTrustLevel
  <2>2. tail = <<>> \/ tail = <<Lowered("AI-CHAIN.2", 2, new)>>
    BY <2>1
  <2>3. Len(anchors) = 1 + Len(tail) /\ Len(tail) = IF two THEN 1 ELSE 0
    BY <2>1
  <2>4. minted' \in 0..MaxMints /\ minted + 1 <= minted' /\ (two => minted + 2 <= minted')
    <3> HIDE DEF anchors, tail, two
    <3> QED
      BY <1>5, <2>3, TypesOf
  <2>5. head \in Anchor /\ head.proc = "AI-CHAIN.1" /\ head.chain = 0 /\ head.value = new
    <3>1. head = Valued("AI-CHAIN.1", 1, new)
      BY Zenon DEF HandoffAnchor, Valued
    <3> HIDE DEF new, head, tail
    <3> QED
      BY <1>2, <2>4, <3>1, ValuedMade, TrustProcs
  <2> DEFINE b == Lowered("AI-CHAIN.2", 2, new)
  <2>6. two => b \in Anchor /\ b.proc = "AI-CHAIN.2" /\ b.chain = 0 /\ b.value = new
    <3> HIDE DEF new, two
    <3> QED
      BY <1>2, <2>4, ValuedMade, TrustProcs
  <2>7. anchors = IF two THEN <<head, b>> ELSE <<head>>
    <3>1. (two => tail = <<b>>) /\ (~two => tail = <<>>)
      BY <2>1
    <3> HIDE DEF two, head, b, tail
    <3> QED
      BY <3>1, Joins, Zenon
  <2> HIDE DEF new, two, head, tail, b, anchors
  <2>8. /\ anchors \in Seq(Anchor) /\ Len(anchors) = IF two THEN 2 ELSE 1
        /\ \A k : k \in DOMAIN anchors <=> k = 1 \/ (two /\ k = 2)
        /\ anchors[1] = head /\ (two => anchors[2] = b)
    <3>1. CASE two
      BY <2>5, <2>6, <2>7, <3>1
    <3>2. CASE ~two
      BY <2>5, <2>7, <3>2
    <3> QED
      BY <3>1, <3>2
  <2>9. Enter(anchors)
    <3>1. \A j \in DOMAIN anchors : anchors[j].proc \in Trails
      BY <2>5, <2>6, <2>8 DEF Trails
    <3>2. Len(anchors) \in 1..2
      BY <2>8
    <3> QED
      BY <1>5, <2>8, <3>1, <3>2, AllEnter
  <2>10. log' = log \o anchors
    BY <2>9 DEF Enter
  <2> DEFINE n == Len(log)
  <2>11. /\ Extended(log, log') /\ n \in Nat
         /\ \A k : k \in DOMAIN log' <=> k \in 1..n + Len(anchors)
         /\ \A j \in DOMAIN anchors : log'[n + j] = anchors[j]
    <3>1. log \in Seq(Anchor) /\ anchors \in Seq(Anchor) /\ n \in Nat
      BY <2>8, TypesOf
    <3>2. /\ log' \in Seq(Anchor) /\ Len(log') = n + Len(anchors) /\ Len(anchors) \in Nat
          /\ \A k \in 1..n : log'[k] = log[k]
      BY <2>10, <3>1
    <3>3. \A j \in DOMAIN anchors : log'[n + j] = anchors[j]
      BY <2>10, <3>1
    <3>4. DOMAIN log = 1..n /\ DOMAIN log' = 1..n + Len(anchors)
      BY <3>1, <3>2
    <3> HIDE DEF n
    <3> QED
      BY <3>1, <3>2, <3>3, <3>4 DEF Extended, n
  <2>12. HandsOver(log, log', n, two, new)
    <3>1. \A k : k \in DOMAIN log' <=> k \in DOMAIN log \/ k = n + 1 \/ (two /\ k = n + 2)
      <4>1. DOMAIN log = 1..n
        BY TypesOf
      <4> HIDE DEF n
      <4>2. CASE two
        BY <2>8, <2>11, <4>1, <4>2
      <4>3. CASE ~two
        BY <2>8, <2>11, <4>1, <4>3
      <4> QED
        BY <4>2, <4>3
    <3>2. log'[n + 1] = head /\ (two => log'[n + 2] = b)
      BY <2>8, <2>11
    <3> QED
      BY <2>5, <2>6, <2>11, <3>1, <3>2 DEF HandsOver
  <2>13. Lowers(trust, trust', old, new, two)
    BY <1>1, <1>2, <1>5 DEF Lowers, two, new
  <2>14. two \in BOOLEAN
    BY Zenon DEF two
  <2>15. trust \in Seq(TrustLevels) /\ trust' \in Seq(TrustLevels)
    BY <1>1, TrustTyped
  <2> HIDE DEF old, n
  <2> QED
    BY <1>2, <1>3, <2>12, <2>13, <2>14, <2>15, HandoffKeeps
<1> QED
  BY <1>4, <1>5 DEF HandOff

-----------------------------------------------------------------------------
LEMMA TrailInit == WitnessInit => TrailInv
<1> SUFFICES ASSUME WitnessInit PROVE Trail(log, trust)
  BY DEF TrailInv
<1>1. log = <<>> /\ trust = <<>> /\ Len(trust) = 0
  BY DEF WitnessInit, Init, TrustInit
<1>2. At(log, "AI-CHAIN.1") = {} /\ At(log, "AI-CHAIN.2") = {}
  BY <1>1 DEF At
<1>3. Tells(log, trust, 0)
  BY <1>1, <1>2 DEF Tells
<1>4. TellsPrefix(log, trust)
  BY <1>1, <1>3 DEF TellsPrefix
<1> QED
  BY <1>2, <1>4 DEF Trail, Falling, Owned

LEMMA TrailNext == IInv /\ TrailInv /\ [WitnessNext]_vars => TrailInv'
<1> SUFFICES ASSUME IInv, TrailInv, [WitnessNext]_vars PROVE TrailInv'
  OBVIOUS
<1>1. CASE UNCHANGED vars
  BY <1>1, SameAside, AsideStep DEF vars, session
<1>2. CASE SessionNext /\ UNCHANGED trust
  BY <1>2, SessionTrail
<1>3. CASE LifecycleNext /\ UNCHANGED trust
  BY <1>3, LifecycleTrail
<1>4. CASE TrustNext
  BY <1>4, HandOffTrail, PolicyTrail DEF TrustNext
<1> QED
  BY <1>1, <1>2, <1>3, <1>4 DEF WitnessNext

\* Where a program witnesses its handoffs by witnessChainTrustHandoff alone and no rate
\* hides one, the trail of them in the buffer is that of the chain, whatever else it
\* mints between: levels that never rise, each fall followed at once by its
\* degradation, and the last level that of the chain after its first handoffs; every
\* handoff the trail does not tell of left the chain below the minimum of a strict
\* configuration, and was refused for that.  (witness.ts:4757-4823)
THEOREM TrustTrailAlways == Spec => []TrustTrail
<1>1. IInv /\ TrailInv => TrustTrail
  BY TrailIsTrustTrail
<1>2. Spec => []TrailInv
  BY TrailInit, TrailNext, IInvAlways, PTL DEF Spec
<1> QED
  BY <1>1, <1>2, IInvAlways, PTL

-----------------------------------------------------------------------------
(* LineOfOneHandle: the anchors of a chain, by their positions in the buffer. *)

In(s, c) == {i \in DOMAIN s : s[i].chain = c}
Rooted(s, c) == \E i \in In(s, c) : s[i].id = c
Missing(s, c) == IF Rooted(s, c) THEN 0 ELSE 1

\* j is the anchor of its chain before i; i is the first, the last.
Before(s, c, j, i) == j < i /\ \A k \in In(s, c) : k < i => k <= j
IsFirst(s, c, i) == \A k \in In(s, c) : i <= k
IsLast(s, c, i) == \A k \in In(s, c) : k <= i

\* The parents are those of a line.
Lineage(s, c) ==
    \A i \in In(s, c) :
        /\ s[i].id = c => IsFirst(s, c, i)
        /\ s[i].id # c =>
            /\ IsFirst(s, c, i) => s[i].parent = c
            /\ \A j \in In(s, c) : Before(s, c, j, i) => s[i].parent = s[j].id
        /\ s[i].stage \in TerminalStages => IsLast(s, c, i)

\* Handle g is where the line of its chain ends.
Holds(s, c, g) ==
    /\ Cardinality(In(s, c)) + Missing(s, c) = g.count
    /\ ~Rooted(s, c) => g.proc \in Sampled \cup Never
    /\ In(s, c) = {} => g.last = c
    /\ \A i \in In(s, c) : IsLast(s, c, i) => g.last = s[i].id
    /\ g.closed <=> \E i \in In(s, c) : IsLast(s, c, i) /\ s[i].stage \in TerminalStages

Line(s, g) == Lineage(s, g.chain) /\ Holds(s, g.chain, g)

\* No chain of the buffer is newer than the last mint.
ChainsMinted == \A i \in DOMAIN log : log[i].chain <= minted

\* The handle is the only one of its chain.
Sole(hs, h) == \A g \in DOMAIN hs \ {h} : hs[g].chain # hs[h].chain

LineInv ==
    /\ ChainsMinted
    /\ ~stopped => \A h \in DOMAIN handles : Sole(handles, h) => Line(log, handles[h])

LEMMA InFinite ==
    ASSUME NEW s \in Seq(Anchor), NEW c
    PROVE  /\ In(s, c) \subseteq 1..Len(s) /\ Len(s) \in Nat /\ IsFiniteSet(In(s, c))
           /\ Cardinality(In(s, c)) \in Nat
<1>1. In(s, c) \subseteq 1..Len(s) /\ Len(s) \in Nat
  BY DEF In
<1>2. IsFiniteSet(1..Len(s))
  BY <1>1, FS_Interval
<1>3. IsFiniteSet(In(s, c))
  BY <1>1, <1>2, FS_Subset
<1> QED
  BY <1>1, <1>3, FS_CardinalityType

\* What enters for other chains leaves the line alone.
LEMMA LineStays ==
    ASSUME NEW s, NEW t, Extended(s, t), NEW g, Line(s, g),
           \A i \in DOMAIN t \ DOMAIN s : t[i].chain # g.chain
    PROVE  Line(t, g)
<1> DEFINE c == g.chain
<1>1. In(t, c) = In(s, c)
  BY DEF Extended, In
<1>2. \A i \in In(s, c) : t[i] = s[i]
  BY DEF Extended, In
<1> HIDE DEF c
<1>3. /\ \A i : IsFirst(t, c, i) <=> IsFirst(s, c, i)
      /\ \A i : IsLast(t, c, i) <=> IsLast(s, c, i)
      /\ \A i, j : Before(t, c, j, i) <=> Before(s, c, j, i)
  BY <1>1 DEF IsFirst, IsLast, Before
<1>4. Rooted(t, c) <=> Rooted(s, c)
  BY <1>1, <1>2 DEF Rooted
<1>5. Missing(t, c) = Missing(s, c)
  BY <1>4 DEF Missing
<1>6. Lineage(s, c) /\ Holds(s, c, g)
  BY DEF Line, c
<1>7. Lineage(t, c)
  BY <1>1, <1>2, <1>3, <1>6 DEF Lineage
<1>8. Holds(t, c, g)
  <2>1. Cardinality(In(t, c)) + Missing(t, c) = g.count
    BY <1>1, <1>5, <1>6 DEF Holds
  <2>2. /\ ~Rooted(t, c) => g.proc \in Sampled \cup Never
        /\ In(t, c) = {} => g.last = c
        /\ \A i \in In(t, c) : IsLast(t, c, i) => g.last = t[i].id
    BY <1>1, <1>2, <1>3, <1>4, <1>6 DEF Holds
  <2>3. (\E i \in In(t, c) : IsLast(t, c, i) /\ t[i].stage \in TerminalStages)
            <=> (\E i \in In(s, c) : IsLast(s, c, i) /\ s[i].stage \in TerminalStages)
    BY <1>1, <1>2, <1>3
  <2>4. g.closed <=> \E i \in In(s, c) : IsLast(s, c, i) /\ s[i].stage \in TerminalStages
    BY <1>6 DEF Holds
  <2> QED
    BY <2>1, <2>2, <2>3, <2>4 DEF Holds
<1> QED
  BY <1>7, <1>8 DEF Line, c

\* A new chain: its root enters, or sampling leaves it out.
LEMMA LineBegins ==
    ASSUME NEW s \in Seq(Anchor), NEW t, NEW c, NEW g, g.chain = c, In(s, c) = {},
           g.last = c, g.count = 1, ~g.closed,
           \/ /\ t = s /\ g.proc \in Sampled \cup Never
           \/ \E r \in Anchor : t = Append(s, r) /\ r.chain = c /\ r.id = c /\ r.stage = "initiated"
    PROVE  Line(t, g)
<1>1. CASE t = s /\ g.proc \in Sampled \cup Never
  <2>1. In(t, c) = {} /\ Missing(t, c) = 1 /\ Cardinality(In(t, c)) = 0
    BY <1>1, FS_EmptySet DEF Missing, Rooted
  <2> QED
    BY <1>1, <2>1 DEF Line, Lineage, Holds
<1>2. ASSUME NEW r \in Anchor, t = Append(s, r), r.chain = c, r.id = c, r.stage = "initiated"
      PROVE  Line(t, g)
  <2> DEFINE n == Len(s) + 1
  <2>1. In(t, c) = {n} /\ t[n] = r /\ n \in Nat
    <3>1. n \in Nat /\ DOMAIN t = DOMAIN s \cup {n} /\ t[n] = r /\ \A i \in DOMAIN s : t[i] = s[i]
      BY <1>2
    <3> HIDE DEF n
    <3> QED
      BY <1>2, <3>1 DEF In
  <2> HIDE DEF n
  <2>2. Rooted(t, c) /\ Missing(t, c) = 0
    BY <1>2, <2>1 DEF Rooted, Missing
  <2>3. Cardinality(In(t, c)) = 1
    BY <2>1, FS_Singleton
  <2>4. "initiated" \notin TerminalStages
    BY DEF TerminalStages
  <2>5. IsFirst(t, c, n) /\ IsLast(t, c, n)
    BY <2>1 DEF IsFirst, IsLast
  <2>6. Lineage(t, c)
    BY <1>2, <2>1, <2>5 DEF Lineage
  <2>7. Holds(t, c, g)
    <3>1. Cardinality(In(t, c)) + Missing(t, c) = g.count
      BY <2>2, <2>3
    <3>2. ~g.closed /\ \A i \in In(t, c) : t[i].stage \notin TerminalStages /\ g.last = t[i].id
      BY <1>2, <2>1, <2>4
    <3>3. In(t, c) # {}
      BY <2>1
    <3> QED
      BY <2>2, <3>1, <3>2, <3>3 DEF Holds
  <2> QED
    BY <2>6, <2>7 DEF Line
<1> QED
  BY <1>1, <1>2

\* The next anchor of an open handle.
LEMMA LineGrows ==
    ASSUME NEW s \in Seq(Anchor), NEW a \in Anchor, NEW c, NEW g, NEW g2,
           Line(s, g), ~g.closed, g.chain = c, g2.chain = c, g2.proc = g.proc,
           g.count \in Nat, g2.count = g.count + 1, g2.last = a.id,
           g2.closed <=> a.stage \in TerminalStages,
           a.chain = c, a.parent = g.last, a.id # c
    PROVE  Line(Append(s, a), g2)
<1> DEFINE t == Append(s, a)
           n == Len(s) + 1
           P == In(s, c)
<1>1. /\ n \in Nat /\ n <= n /\ n \notin P
      /\ \A i \in P : i \in Nat /\ i < n /\ i <= n /\ ~(n <= i) /\ ~(n < i)
  <2>1. P \subseteq 1..Len(s) /\ Len(s) \in Nat
    BY InFinite
  <2> HIDE DEF P
  <2> QED
    BY <2>1
<1>2. DOMAIN t = DOMAIN s \cup {n} /\ t[n] = a /\ \A i \in DOMAIN s : t[i] = s[i]
  OBVIOUS
<1>3. In(t, c) = P \cup {n} /\ \A i \in P : t[i] = s[i]
  <2> HIDE DEF t, n
  <2> QED
    BY <1>2 DEF In
<1>4. IsFiniteSet(P) /\ Cardinality(P) \in Nat
  BY InFinite
<1>5. Lineage(s, c) /\ Holds(s, c, g)
  BY DEF Line
<1> HIDE DEF t, n, P
<1>6. Cardinality(In(t, c)) = Cardinality(P) + 1
  BY <1>1, <1>3, <1>4, FS_AddElement, ZenonT(40)
<1>7. IsLast(t, c, n) /\ \A i \in P : ~IsLast(t, c, i)
  BY <1>1, <1>3 DEF IsLast
<1>8. /\ \A i \in P : IsFirst(t, c, i) <=> IsFirst(s, c, i)
      /\ \A i, j \in P : Before(t, c, j, i) <=> Before(s, c, j, i)
      /\ \A i \in P : ~Before(t, c, n, i)
      /\ \A j \in P : Before(t, c, j, n) <=> IsLast(s, c, j)
      /\ IsFirst(t, c, n) <=> P = {}
  <2>1. \A i \in P : IsFirst(t, c, i) <=> IsFirst(s, c, i)
    BY <1>1, <1>3 DEF IsFirst, P
  <2>2. \A i, j \in P : Before(t, c, j, i) <=> Before(s, c, j, i)
    BY <1>1, <1>3 DEF Before, P
  <2>3. \A i \in P : ~Before(t, c, n, i)
    BY <1>1 DEF Before
  <2>5. IsFirst(t, c, n) <=> P = {}
    BY <1>1, <1>3 DEF IsFirst
  <2>4. \A j \in P : Before(t, c, j, n) <=> IsLast(s, c, j)
    BY <1>1, <1>3 DEF Before, IsLast, P
  <2> QED
    BY <2>1, <2>2, <2>3, <2>4, <2>5
<1>9. Rooted(t, c) <=> Rooted(s, c)
  BY <1>2, <1>3 DEF Rooted, P
<1>10. Missing(t, c) = Missing(s, c) /\ Missing(t, c) \in {0, 1}
  BY <1>9 DEF Missing
<1>11. \A i \in P : s[i].stage \notin TerminalStages
  BY <1>5 DEF Lineage, Holds, P
<1>12. Lineage(t, c)
  <2>1. ASSUME NEW i \in P
        PROVE  /\ t[i].id = c => IsFirst(t, c, i)
               /\ t[i].id # c =>
                    /\ IsFirst(t, c, i) => t[i].parent = c
                    /\ \A j \in In(t, c) : Before(t, c, j, i) => t[i].parent = t[j].id
               /\ t[i].stage \notin TerminalStages
    BY <1>3, <1>5, <1>8, <1>11 DEF Lineage, P
  <2>2. /\ t[n].id # c
        /\ IsFirst(t, c, n) => t[n].parent = c
        /\ IsLast(t, c, n)
    BY <1>2, <1>5, <1>7, <1>8 DEF Holds, P
  <2>3. \A j \in P : Before(t, c, j, n) => t[n].parent = t[j].id
    BY <1>2, <1>3, <1>5, <1>8 DEF Holds, P
  <2>4. ~Before(t, c, n, n)
    BY <1>1 DEF Before
  <2> QED
    BY <1>3, <2>1, <2>2, <2>3, <2>4 DEF Lineage
<1>13. Holds(t, c, g2)
  <2>1. Cardinality(P) + Missing(s, c) = g.count
    BY <1>5 DEF Holds, P
  <2>2. Cardinality(In(t, c)) + Missing(t, c) = g2.count
    <3> DEFINE x == Cardinality(In(t, c))
               y == Cardinality(P)
               z == Missing(t, c)
    <3>1. x = y + 1 /\ y \in Nat /\ z \in {0, 1} /\ y + z = g.count
      BY <1>4, <1>6, <1>10, <2>1
    <3> HIDE DEF x, y, z
    <3> QED
      BY <3>1 DEF x, z
  <2>3. ~Rooted(t, c) => g2.proc \in Sampled \cup Never
    BY <1>5, <1>9 DEF Holds
  <2>4. In(t, c) # {} /\ \A i \in In(t, c) : IsLast(t, c, i) => i = n
    BY <1>3, <1>7
  <2>5. g2.last = t[n].id /\ (g2.closed <=> t[n].stage \in TerminalStages)
    BY <1>2
  <2> QED
    BY <1>3, <1>7, <2>2, <2>3, <2>4, <2>5 DEF Holds
<1> QED
  BY <1>12, <1>13 DEF Line, t

-----------------------------------------------------------------------------
LEMMA LineInvIsLine ==
    ASSUME IInv, LineInv
    PROVE  LineOfOneHandle
<1> SUFFICES ASSUME ~stopped, NEW h \in DOMAIN handles, Alone(handles[h].chain)
             PROVE  LET c == handles[h].chain
                        line == OfChain(c)
                        Bef(i) == {j \in line : j < i}
                        missing == IF \E i \in line : log[i].id = c THEN 0 ELSE 1
                    IN  /\ Cardinality(line) + missing = handles[h].count
                        /\ missing = 1 => handles[h].proc \in Sampled \cup Never
                        /\ \A i \in line :
                            /\ log[i].id = c => Bef(i) = {}
                            /\ log[i].id # c =>
                                log[i].parent = IF Bef(i) = {} THEN c ELSE log[Max(Bef(i))].id
                            /\ log[i].stage \in TerminalStages => \A j \in line : j <= i
                        /\ handles[h].last = IF line = {} THEN c ELSE log[Max(line)].id
                        /\ handles[h].closed <=>
                                line # {} /\ log[Max(line)].stage \in TerminalStages
  BY Zenon DEF LineOfOneHandle
<1> DEFINE c == handles[h].chain
           line == OfChain(c)
           Bef(i) == {j \in line : j < i}
           missing == IF \E i \in line : log[i].id = c THEN 0 ELSE 1
           g == handles[h]
           n == Len(log)
<1>1. Sole(handles, h)
  BY DEF Alone, Sole
<1>2. line = In(log, c) /\ Lineage(log, c) /\ Holds(log, c, g)
  BY <1>1 DEF LineInv, Line, OfChain, In
<1>3. n \in Nat /\ line \subseteq 1..n /\ line \subseteq 0..n
  <2>1. log \in Seq(Anchor)
    BY TypesOf
  <2> QED
    BY <2>1 DEF OfChain
<1> HIDE DEF line, c, g, n
<1>4. \A S \in SUBSET line : S # {} => Max(S) \in S /\ \A k \in S : k <= Max(S)
  <2> TAKE S \in SUBSET line
  <2>1. S \subseteq 0..n
    BY <1>3
  <2> QED
    BY <1>3, <2>1, GreatestExists
<1>5. missing = Missing(log, c)
  BY <1>2 DEF Missing, Rooted
<1>6. Cardinality(line) + missing = g.count
  BY <1>2, <1>5 DEF Holds
<1>7. missing = 1 => g.proc \in Sampled \cup Never
  BY <1>2, <1>5 DEF Holds, Missing
<1>8. ASSUME NEW i \in line
      PROVE  /\ log[i].id = c => Bef(i) = {}
             /\ log[i].id # c => log[i].parent = IF Bef(i) = {} THEN c ELSE log[Max(Bef(i))].id
             /\ log[i].stage \in TerminalStages => \A j \in line : j <= i
  <2>1. IsFirst(log, c, i) <=> Bef(i) = {}
    <3>1. \A j \in line : j \in Int /\ i \in Int /\ (i <= j <=> ~(j < i))
      BY <1>3
    <3> QED
      BY <1>2, <3>1 DEF IsFirst
  <2>2. Bef(i) # {} => Max(Bef(i)) \in line /\ Before(log, c, Max(Bef(i)), i)
    <3>1. Bef(i) \in SUBSET line
      OBVIOUS
    <3>2. Bef(i) # {} => Max(Bef(i)) \in Bef(i) /\ \A k \in Bef(i) : k <= Max(Bef(i))
      BY <1>4, <3>1
    <3> QED
      BY <1>2, <3>2 DEF Before
  <2>3. log[i].stage \in TerminalStages => \A j \in line : j <= i
    BY <1>2 DEF Lineage, IsLast
  <2>4. log[i].id = c => Bef(i) = {}
    BY <1>2, <2>1 DEF Lineage
  <2>5. ASSUME log[i].id # c
        PROVE  log[i].parent = IF Bef(i) = {} THEN c ELSE log[Max(Bef(i))].id
    <3> HIDE DEF Bef
    <3> QED
      BY <1>2, <2>1, <2>2, <2>5 DEF Lineage
  <2> QED
    BY <2>3, <2>4, <2>5
<1>9. line # {} => Max(line) \in line /\ IsLast(log, c, Max(line))
  BY <1>2, <1>4 DEF IsLast
<1>10. g.last = IF line = {} THEN c ELSE log[Max(line)].id
  BY <1>2, <1>9 DEF Holds
<1>11. g.closed <=> line # {} /\ log[Max(line)].stage \in TerminalStages
  <2>1. \A i \in line : IsLast(log, c, i) => i = Max(line)
    <3>1. ASSUME NEW i \in line, IsLast(log, c, i) PROVE i = Max(line)
      <4>1. i \in 1..n /\ Max(line) \in 1..n /\ i <= Max(line) /\ Max(line) <= i
        BY <1>2, <1>3, <1>9, <3>1 DEF IsLast
      <4> QED
        BY <4>1
    <3> QED
      BY <3>1
  <2>2. g.closed <=> \E i \in line : IsLast(log, c, i) /\ log[i].stage \in TerminalStages
    BY <1>2 DEF Holds
  <2> QED
    BY <1>9, <2>1, <2>2
<1> HIDE DEF missing, Bef
<1> QED
  BY <1>6, <1>7, <1>8, <1>10, <1>11 DEF c, g, line, missing, Bef

-----------------------------------------------------------------------------
\* What enters the buffer belongs to no chain.
Loose(s, t) == Extended(s, t) /\ \A i \in DOMAIN t \ DOMAIN s : t[i].chain = 0

LEMMA ApartLoose == ASSUME NEW s, NEW t, Apart(s, t) PROVE Loose(s, t)
BY DEF Apart, Loose

LEMMA ChainsTyped ==
    ASSUME IInv
    PROVE  \A i \in DOMAIN log : log[i].chain \in Nat /\ log[i] \in Anchor
<1>1. log \in Seq(Anchor)
  BY TypesOf
<1>2. \A i \in DOMAIN log : log[i] \in Anchor
  BY <1>1
<1>3. \A a \in Anchor : a.chain \in Nat
  BY SessionAssumption DEF Anchor
<1> QED
  BY <1>2, <1>3

LEMMA LooseStep ==
    ASSUME IInv, LineInv, Loose(log, log'), UNCHANGED handles,
           minted' \in Nat, minted <= minted', stopped => stopped'
    PROVE  LineInv'
<1>1. ChainsMinted'
  <2> SUFFICES ASSUME NEW i \in DOMAIN log' PROVE log'[i].chain <= minted'
    BY DEF ChainsMinted
  <2>1. CASE i \in DOMAIN log
    <3>1. log'[i] = log[i] /\ log[i].chain \in Nat /\ log[i].chain <= minted /\ minted \in Nat
      BY <2>1, ChainsTyped, TypesOf DEF LineInv, ChainsMinted, Loose, Extended
    <3> QED
      BY <3>1
  <2>2. CASE i \notin DOMAIN log
    BY <2>2 DEF Loose
  <2> QED
    BY <2>1, <2>2
<1>2. ASSUME ~stopped', NEW h \in DOMAIN handles', Sole(handles', h) PROVE Line(log', handles'[h])
  <2>1. Line(log, handles[h])
    BY <1>2 DEF LineInv
  <2>2. handles[h].chain # 0
    BY <1>2, HandleTyped, SessionAssumption
  <2>3. \A i \in DOMAIN log' \ DOMAIN log : log'[i].chain # handles[h].chain
    BY <2>2 DEF Loose
  <2>4. Extended(log, log')
    BY DEF Loose
  <2> QED
    BY <2>1, <2>3, <2>4, LineStays
<1> QED
  BY <1>1, <1>2 DEF LineInv

LEMMA SessionMints ==
    ASSUME IInv, SessionNext
    PROVE  minted' \in Nat /\ minted <= minted'
<1>1. /\ minted \in Nat /\ Len(Attestation) \in Nat /\ Cardinality(Skipped) \in Nat
      /\ Len(Inference) \in Nat
  BY TypesOf, FS_CardinalityType, InferenceAssumption DEF IInv, SkipsFinite, Attestation
<1>2. \/ UNCHANGED minted \/ minted' = minted + 1 \/ minted' = minted + 2
      \/ minted' = minted + Len(Inference)
      \/ minted' = minted + Len(Attestation) + Cardinality(Skipped)
      \/ minted' = minted + Cardinality(Skipped)
  BY DEF SessionNext, Witness, Record, VerifyTrust, GateCheck, Revoke, EnqueueDirect,
         RecordSessionTokens, Flush, Stop, Tick, BeginScope, EndScope
<1> QED
  BY <1>1, <1>2

LEMMA SessionLine ==
    ASSUME IInv, LineInv, SessionNext, UNCHANGED handles
    PROVE  LineInv'
BY SessionApart, ApartLoose, SessionMints, SessionStops, LooseStep

LEMMA SampledLoose ==
    ASSUME IInv, NEW anchors \in Seq(Anchor), EnqueueSampled(anchors),
           \A j \in DOMAIN anchors : anchors[j].chain = 0 /\ anchors[j].proc \in Procs
    PROVE  Loose(log, log')
BY TypesOf, SampledGrows DEF Grown, Loose, Extended

LEMMA TrustLine ==
    ASSUME IInv, LineInv, TrustNext, UNCHANGED handles
    PROVE  LineInv'
<1>1. CASE UNCHANGED session
  <2>1. Loose(log, log') /\ UNCHANGED <<minted, stopped>>
    BY <1>1, TypesOf DEF session, Loose, Extended
  <2> QED
    BY <2>1, LooseStep, TypesOf
<1>2. ASSUME NEW v \in Versions, CheckPolicy(v), ~UNCHANGED session PROVE LineInv'
  <2> DEFINE a == [AnchorOf(MintOf("AI-METAGOV.3"), 1) EXCEPT !.value = v]
  <2>1. /\ minted < MaxMints /\ EnqueueSampled(<<a>>) /\ minted' = minted + 1
        /\ UNCHANGED stopped
    BY <1>2 DEF CheckPolicy
  <2>2. /\ minted' \in 0..MaxMints /\ minted + 1 <= minted' /\ v \in Nat
        /\ minted' \in Nat /\ minted <= minted'
    BY <2>1, TypesOf, TrustAssumption
  <2>3. a \in Anchor /\ a.proc = "AI-METAGOV.3" /\ a.chain = 0
    <3>1. a = Valued("AI-METAGOV.3", 1, v)
      BY Zenon DEF Valued
    <3> HIDE DEF a
    <3> QED
      BY <2>2, <3>1, ValuedMade, TrustProcs
  <2> HIDE DEF a
  <2> DEFINE anchors == <<a>>
  <2>4. /\ anchors \in Seq(Anchor) /\ EnqueueSampled(anchors)
        /\ \A j \in DOMAIN anchors : anchors[j].chain = 0 /\ anchors[j].proc \in Procs
    BY <2>1, <2>3, TrustProcs
  <2> HIDE DEF anchors
  <2> QED
    BY <2>1, <2>2, <2>4, SampledLoose, LooseStep
<1>3. ASSUME NEW t \in TrustLevels, HandOff(t), ~UNCHANGED session PROVE LineInv'
  <2> DEFINE new == Effective(Append(trust, t))
             head == HandoffAnchor(new)
             tail == DegradationAnchors(ChainEffectiveTrustLevel, new)
             anchors == <<head>> \o tail
             b == Lowered("AI-CHAIN.2", 2, new)
  <2>1. /\ minted + Len(anchors) <= MaxMints /\ EnqueueSampled(anchors)
        /\ minted' = minted + Len(anchors) /\ UNCHANGED stopped
    BY <1>3 DEF HandOff
  <2>2. new \in Nat
    BY TrustTyped, EffectiveFalls
  <2>3. tail = <<>> \/ tail = <<b>>
    BY Zenon DEF DegradationAnchors, Lowered
  <2>4. anchors = <<head>> \/ anchors = <<head, b>>
    <3> HIDE DEF head, tail, b
    <3> QED
      BY <2>3, Joins, Zenon
  <2>5. Len(anchors) \in 1..2
    <3> HIDE DEF anchors
    <3> QED
      BY <2>4
  <2>6. /\ minted' \in 0..MaxMints /\ minted + 1 <= minted' /\ minted' \in Nat
        /\ minted <= minted'
    <3> DEFINE l == Len(anchors)
    <3>1. minted + l <= MaxMints /\ minted' = minted + l /\ l \in 1..2
      BY <2>1, <2>5
    <3> HIDE DEF l
    <3> QED
      BY <3>1, TypesOf
  <2>7. head \in Anchor /\ head.proc = "AI-CHAIN.1" /\ head.chain = 0
    <3>1. head = Valued("AI-CHAIN.1", 1, new)
      BY Zenon DEF HandoffAnchor, Valued
    <3> HIDE DEF new, head, tail
    <3> QED
      BY <2>2, <2>6, <3>1, ValuedMade, TrustProcs
  <2> HIDE DEF new, head, tail
  <2>8. ASSUME Len(anchors) = 2 PROVE b \in Anchor /\ b.proc = "AI-CHAIN.2" /\ b.chain = 0
    <3>1. minted + 2 <= minted'
      <4> HIDE DEF anchors
      <4> QED
        BY <2>1, <2>8, TypesOf
    <3> QED
      BY <2>2, <2>6, <3>1, ValuedMade, TrustProcs
  <2> HIDE DEF b, anchors
  <2>9. /\ anchors \in Seq(Anchor)
        /\ \A j \in DOMAIN anchors : anchors[j].chain = 0 /\ anchors[j].proc \in Procs
    <3>1. CASE anchors = <<head>>
      BY <2>7, <3>1, TrustProcs
    <3>2. CASE anchors = <<head, b>>
      <4>1. Len(anchors) = 2
        BY <3>2
      <4> QED
        BY <2>7, <2>8, <3>2, <4>1, TrustProcs
    <3> QED
      BY <2>4, <3>1, <3>2
  <2> QED
    BY <2>1, <2>6, <2>9, SampledLoose, LooseStep
<1> QED
  BY <1>1, <1>2, <1>3 DEF TrustNext

-----------------------------------------------------------------------------
\* A handle more: the ones there are stay alone if they were.
LEMMA SoleStays ==
    ASSUME NEW hs, NEW hs2, NEW h \in DOMAIN hs, DOMAIN hs \subseteq DOMAIN hs2,
           \A g \in DOMAIN hs : hs2[g].chain = hs[g].chain, Sole(hs2, h)
    PROVE  Sole(hs, h)
BY DEF Sole

\* What sampling makes of a single anchor.
LEMMA OneSampled ==
    ASSUME IInv, ~stopped, NEW r \in Anchor, EnqueueSampled(<<r>>)
    PROVE  \/ log' = Append(log, r)
           \/ log' = log /\ r.proc \in Sampled \cup Never
<1> DEFINE one == <<r>>
<1>1. Len(one) = 1 /\ DOMAIN one = {1} /\ one[1] = r
  OBVIOUS
<1>2. PICK enter \in Picks(1) :
        /\ \A i \in {1} \ Range(enter) : "skip" \in Fates(one[i].proc)
        /\ Enter([k \in DOMAIN enter |-> one[enter[k]]])
  <2>1. EnqueueSampled(one)
    OBVIOUS
  <2> HIDE DEF one
  <2> QED
    BY <1>1, <2>1 DEF EnqueueSampled
<1>3. PICK n \in 0..1 : enter \in [1..n -> 1..1]
  BY DEF Picks
<1> DEFINE picked == [k \in DOMAIN enter |-> one[enter[k]]]
<1>4. log' = log \o picked /\ log \in Seq(Anchor)
  BY <1>2, TypesOf DEF Enter
<1>5. CASE n = 0
  <2>1. DOMAIN enter = {} /\ 1 \notin Range(enter)
    BY <1>3, <1>5 DEF Range
  <2>2. r.proc \in Sampled \cup Never
    <3>1. "skip" \in Fates(r.proc)
      BY <1>1, <1>2, <2>1
    <3> QED
      BY <3>1 DEF Fates
  <2>3. picked = <<>>
    BY <2>1
  <2> HIDE DEF picked
  <2>4. log' = log
    BY <1>4, <2>3
  <2> QED
    BY <2>2, <2>4
<1>6. CASE n = 1
  <2>1. DOMAIN enter = 1..1 /\ \A k \in 1..1 : one[enter[k]] = r
    BY <1>1, <1>3, <1>6
  <2>2. picked = [k \in 1..1 |-> r]
    BY <2>1
  <2>3. picked = <<r>>
    BY <2>2
  <2> HIDE DEF picked
  <2>4. log' = Append(log, r)
    BY <1>4, <2>3
  <2> QED
    BY <2>4
<1> QED
  BY <1>3, <1>5, <1>6

LEMMA NoneYet ==
    ASSUME IInv, LineInv, NEW c \in Nat, c > minted
    PROVE  In(log, c) = {}
<1> SUFFICES ASSUME NEW i \in DOMAIN log, log[i].chain = c PROVE FALSE
  BY DEF In
<1>1. log[i].chain \in Nat /\ log[i].chain <= minted /\ minted \in Nat
  BY ChainsTyped, TypesOf DEF LineInv, ChainsMinted
<1> QED
  BY <1>1

\* The chains after a step: those of before, and what the new anchors name.
LEMMA ChainsAfter ==
    ASSUME IInv, LineInv, Extended(log, log'), minted' \in Nat, minted <= minted',
           \A i \in DOMAIN log' \ DOMAIN log : log'[i].chain <= minted'
    PROVE  ChainsMinted'
<1> SUFFICES ASSUME NEW i \in DOMAIN log' PROVE log'[i].chain <= minted'
  BY DEF ChainsMinted
<1>1. CASE i \in DOMAIN log
  <2>1. log'[i] = log[i] /\ log[i].chain \in Nat /\ log[i].chain <= minted /\ minted \in Nat
    BY <1>1, ChainsTyped, TypesOf DEF LineInv, ChainsMinted, Extended
  <2> QED
    BY <2>1
<1> QED
  BY <1>1

LEMMA AppendExtends ==
    ASSUME NEW s \in Seq(Anchor), NEW a \in Anchor
    PROVE  LET t == Append(s, a)
           IN  /\ t \in Seq(Anchor) /\ Extended(s, t)
               /\ \A i \in DOMAIN t \ DOMAIN s : t[i] = a
BY DEF Extended

LEMMA BeginLine ==
    ASSUME IInv, LineInv, NEW p \in Begun \cup {"AI-INCIDENT.1"}, NEW incident,
           BeginLifecycle(p, incident)
    PROVE  LineInv'
<1>1. p \in Procs
  BY BegunProcs
<1>2. /\ minted' = minted + 1 /\ minted' \in 0..MaxMints /\ minted \in Nat
      /\ minted <= minted' /\ minted + 1 <= minted' /\ UNCHANGED stopped
  BY TypesOf DEF BeginLifecycle
<1> DEFINE r == Root(p)
           new == NewHandle(p, incident)
           c == minted + 1
           k == Len(handles) + 1
<1>3. /\ r \in Anchor /\ r.proc = p /\ r.chain = c /\ r.id = c /\ r.stage = "initiated"
  BY <1>1, <1>2, RootMade, TypesOf
<1>4. EnqueueSampled(<<r>>) /\ handles' = Append(handles, new)
  BY DEF BeginLifecycle
<1>5. new.chain = c /\ new.last = c /\ new.count = 1 /\ ~new.closed /\ new.proc = p
  BY DEF NewHandle
<1>6. log \in Seq(Anchor) /\ handles \in Seq(Handle) /\ c \in Nat /\ c > minted
  BY <1>2, TypesOf DEF IInv, TypeOK
<1> HIDE DEF r, new, c
<1>7. /\ DOMAIN handles' = DOMAIN handles \cup {k} /\ handles'[k] = new
      /\ k \notin DOMAIN handles /\ \A h \in DOMAIN handles : handles'[h] = handles[h]
  BY <1>4, <1>6
<1> HIDE DEF k
<1>8. /\ Extended(log, log')
      /\ \A i \in DOMAIN log' \ DOMAIN log : log'[i].chain = c
  <2> DEFINE one == <<r>>
  <2>1. one \in Seq(Anchor) /\ \A j \in DOMAIN one : one[j] = r /\ one[j].proc \in Procs
    BY <1>1, <1>3
  <2>2. EnqueueSampled(one)
    BY <1>4
  <2> HIDE DEF one
  <2> QED
    BY <1>3, <1>6, <2>1, <2>2, SampledGrows DEF Grown, Extended
<1>9. ChainsMinted'
  <2>1. c <= minted' /\ minted' \in Nat
    BY <1>2 DEF c
  <2> QED
    BY <1>2, <1>8, <2>1, ChainsAfter
<1>10. ASSUME ~stopped', NEW h \in DOMAIN handles', Sole(handles', h)
       PROVE  Line(log', handles'[h])
  <2>1. CASE h \in DOMAIN handles
    <3>1. Sole(handles, h)
      BY <1>7, <1>10, <2>1, SoleStays
    <3>2. Line(log, handles[h])
      BY <1>2, <1>10, <2>1, <3>1 DEF LineInv
    <3>3. handles[h].chain # c
      BY <2>1, <1>2, HandleTyped DEF c
    <3> QED
      BY <1>7, <1>8, <2>1, <3>2, <3>3, LineStays
  <2>2. CASE h = k
    <3>1. In(log, c) = {}
      BY <1>6, NoneYet
    <3>2. \/ log' = Append(log, r)
          \/ log' = log /\ r.proc \in Sampled \cup Never
      BY <1>2, <1>3, <1>4, <1>10, OneSampled
    <3> QED
      BY <1>3, <1>5, <1>6, <1>7, <2>2, <3>1, <3>2, LineBegins
  <2> QED
    BY <1>7, <2>1, <2>2
<1> QED
  BY <1>9, <1>10 DEF LineInv

\* The resumed chain has two handles from now on.
LEMMA ResumeLine ==
    ASSUME IInv, LineInv, NEW h \in DOMAIN handles, NEW last, NEW count, Resume(h, last, count)
    PROVE  LineInv'
<1> DEFINE new == [handles[h] EXCEPT !.last = last, !.count = count,
                                     !.closed = FALSE, !.incident = FALSE]
           k == Len(handles) + 1
<1>1. new.chain = handles[h].chain
  <2>1. \A g \in Handle : [g EXCEPT !.last = last, !.count = count,
                                    !.closed = FALSE, !.incident = FALSE].chain = g.chain
    BY DEF Handle
  <2> QED
    BY <2>1, HandleTyped
<1>2. handles' = Append(handles, new) /\ handles \in Seq(Handle) /\ UNCHANGED <<log, minted, stopped>>
  BY DEF Resume, session, IInv, TypeOK
<1> HIDE DEF new
<1>3. /\ DOMAIN handles' = DOMAIN handles \cup {k} /\ handles'[k] = new
      /\ k \notin DOMAIN handles /\ \A g \in DOMAIN handles : handles'[g] = handles[g]
  BY <1>2
<1> HIDE DEF k
<1>4. ChainsMinted'
  BY <1>2 DEF LineInv, ChainsMinted
<1>5. ASSUME ~stopped', NEW g \in DOMAIN handles', Sole(handles', g)
      PROVE  Line(log', handles'[g])
  <2>1. g # k
    BY <1>1, <1>3, <1>5 DEF Sole
  <2>2. g \in DOMAIN handles
    BY <1>3, <2>1
  <2>3. Sole(handles, g)
    BY <1>3, <1>5, <2>2, SoleStays
  <2> QED
    BY <1>2, <1>3, <1>5, <2>2, <2>3 DEF LineInv
<1> QED
  BY <1>4, <1>5 DEF LineInv

-----------------------------------------------------------------------------
\* What MintStage and Escalate make of the handle whose stage they mint.
LEMMA StageGrows ==
    ASSUME IInv, LineInv, ~stopped, NEW h \in DOMAIN handles, Sole(handles, h),
           ~handles[h].closed, NEW stage \in Stages, NEW k \in Nat \ {0},
           minted + k <= minted', minted' \in 0..MaxMints,
           NEW s \in Seq(Anchor), Line(s, handles[h])
    PROVE  Line(Append(s, StageAnchor(h, stage, k)), Advanced(h, stage, minted + k)[h])
<1> DEFINE a == StageAnchor(h, stage, k)
           g == handles[h]
           g2 == Advanced(h, stage, minted + k)[h]
<1>1. /\ a \in Anchor /\ a.id = minted + k /\ a.chain = g.chain /\ a.parent = g.last
      /\ a.stage = stage
  BY StageMade
<1>2. minted + k \in 1..MaxMints
  BY TypesOf
<1>3. /\ g2.chain = g.chain /\ g2.proc = g.proc /\ g2.count = g.count + 1
      /\ g2.last = minted + k /\ g2.closed = (g.closed \/ stage \in TerminalStages)
  BY <1>2, AdvancedTyped
<1>4. g.count \in Nat /\ minted + k # g.chain
  BY HandleTyped, TypesOf
<1> HIDE DEF a, g, g2
<1>5. ~g.closed /\ Line(s, g)
  BY DEF g
<1>6. Line(Append(s, a), g2)
  BY <1>1, <1>3, <1>4, <1>5, LineGrows
<1> QED
  BY <1>6 DEF a, g2

LEMMA StageLine ==
    ASSUME IInv, LineInv, NEW h \in DOMAIN handles, NEW stage \in Stages, MintStage(h, stage)
    PROVE  LineInv'
<1>1. /\ minted' = minted + 1 /\ minted' \in 0..MaxMints /\ minted' \in Nat /\ minted \in Nat
      /\ minted <= minted' /\ minted + 1 <= minted' /\ minted + 1 \in 1..MaxMints
      /\ UNCHANGED stopped /\ ~handles[h].closed
      /\ handles' = Advanced(h, stage, minted + 1)
  BY TypesOf DEF MintStage
<1> DEFINE a == StageAnchor(h, stage, 1)
<1>2. a \in Anchor /\ a.chain = handles[h].chain
  BY <1>1, StageMade, TypesOf
<1>3. Enter(<<a>>)
  BY DEF MintStage
<1>4. /\ DOMAIN handles' = DOMAIN handles /\ handles'[h].chain = handles[h].chain
      /\ \A g \in DOMAIN handles \ {h} : handles'[g] = handles[g]
  BY <1>1, AdvancedTyped
<1>5. \A g \in DOMAIN handles : handles'[g].chain = handles[g].chain
  BY <1>4
<1> HIDE DEF a
<1>6. log \in Seq(Anchor) /\ (stopped => log' = log) /\ (~stopped => log' = Append(log, a))
  <2>1. log \in Seq(Anchor) /\ log \o <<a>> = Append(log, a)
    BY <1>2, TypesOf
  <2> QED
    BY <1>3, <2>1 DEF Enter
<1>7. Extended(log, log') /\ \A i \in DOMAIN log' \ DOMAIN log : log'[i] = a
  <2>1. CASE stopped
    BY <1>6, <2>1 DEF Extended
  <2>2. CASE ~stopped
    BY <1>2, <1>6, <2>2, AppendExtends
  <2> QED
    BY <2>1, <2>2
<1>8. ChainsMinted'
  <2>1. a.chain <= minted'
    BY <1>1, <1>2, HandleTyped
  <2> QED
    BY <1>1, <1>7, <2>1, ChainsAfter
<1>9. ASSUME ~stopped', NEW g \in DOMAIN handles', Sole(handles', g)
      PROVE  Line(log', handles'[g])
  <2>1. Sole(handles, g) /\ g \in DOMAIN handles /\ ~stopped
    BY <1>1, <1>4, <1>5, <1>9, SoleStays
  <2>2. Line(log, handles[g])
    BY <2>1 DEF LineInv
  <2>3. CASE g = h
    <3>1. Line(Append(log, StageAnchor(h, stage, 1)), Advanced(h, stage, minted + 1)[h])
      <4>1. 1 \in Nat \ {0} /\ minted + 1 <= minted' /\ Sole(handles, h) /\ Line(log, handles[h])
        BY <1>1, <2>1, <2>2, <2>3
      <4> QED
        BY <1>1, <1>6, <2>1, <4>1, StageGrows
    <3> QED
      BY <1>1, <1>6, <2>1, <2>3, <3>1 DEF a
  <2>4. CASE g # h
    <3>1. handles[g].chain # handles[h].chain
      BY <2>1, <2>4 DEF Sole
    <3> QED
      BY <1>2, <1>4, <1>7, <2>1, <2>2, <2>4, <3>1, LineStays
  <2> QED
    BY <2>3, <2>4
<1> QED
  BY <1>8, <1>9 DEF LineInv

-----------------------------------------------------------------------------
LEMMA JoinedSeq ==
    ASSUME NEW s \in Seq(Anchor), NEW u \in Seq(Anchor)
    PROVE  /\ s \o u \in Seq(Anchor) /\ Len(s \o u) = Len(s) + Len(u)
           /\ \A i \in 1..Len(s) : (s \o u)[i] = s[i]
           /\ \A i \in 1..Len(u) : (s \o u)[Len(s) + i] = u[i]
OBVIOUS

\* The root of a target chain and one's own stage, in the buffer.
LEMMA TwoEnter ==
    ASSUME NEW s \in Seq(Anchor), NEW x \in Anchor, NEW y \in Anchor
    PROVE  /\ s \o (<<x>> \o <<y>>) = Append(Append(s, x), y)
           /\ s \o (<<>> \o <<y>>) = Append(s, y)
           /\ s \o (<<x>> \o <<>>) = Append(s, x)
           /\ s \o (<<>> \o <<>>) = s
<1> DEFINE u == <<x, y>>
           t == s \o u
           v == Append(Append(s, x), y)
           n == Len(s)
<1>1. n \in Nat /\ u \in Seq(Anchor) /\ Len(u) = 2 /\ u[1] = x /\ u[2] = y
  OBVIOUS
<1>2. /\ v \in Seq(Anchor) /\ Len(v) = n + 2 /\ v[n + 1] = x /\ v[n + 2] = y
      /\ \A i \in 1..n : v[i] = s[i]
  OBVIOUS
<1> HIDE DEF u
<1>3. /\ t \in Seq(Anchor) /\ Len(t) = n + 2 /\ t[n + 1] = x /\ t[n + 2] = y
      /\ \A i \in 1..n : t[i] = s[i]
  <2>1. t \in Seq(Anchor) /\ Len(t) = n + Len(u) /\ \A i \in 1..n : t[i] = s[i]
    BY <1>1, JoinedSeq
  <2>2. \A i \in 1..Len(u) : t[n + i] = u[i]
    BY <1>1, JoinedSeq
  <2> HIDE DEF t, n
  <2>3. t[n + 1] = u[1] /\ t[n + 2] = u[2]
    BY <1>1, <2>2
  <2> QED
    BY <1>1, <2>1, <2>3
<1> HIDE DEF t, v, n
<1>4. \A i \in 1..n + 2 : t[i] = v[i]
  <2> TAKE i \in 1..n + 2
  <2>1. i \in 1..n \/ i = n + 1 \/ i = n + 2
    BY <1>1
  <2> QED
    BY <1>2, <1>3, <2>1
<1>5. t = v
  <2>1. t = [i \in 1..n + 2 |-> t[i]] /\ v = [i \in 1..n + 2 |-> v[i]]
    BY <1>2, <1>3
  <2> QED
    BY <1>4, <2>1
<1>6. <<x>> \o <<y>> = u /\ <<x>> \o <<>> = <<x>>
  BY Joins DEF u
<1>7. /\ <<>> \o <<y>> = <<y>> /\ <<>> \o <<>> = <<>>
      /\ s \o <<x>> = Append(s, x) /\ s \o <<y>> = Append(s, y) /\ s \o <<>> = s
  OBVIOUS
<1>8. s \o (<<x>> \o <<y>>) = Append(Append(s, x), y)
  BY <1>5, <1>6 DEF t, v
<1> QED
  BY <1>6, <1>7, <1>8, Zenon

LEMMA EscalateLine ==
    ASSUME IInv, LineInv, NEW h \in DOMAIN handles, NEW p \in Begun, Escalate(h, p)
    PROVE  LineInv'
<1> DEFINE r == Root(p)
           a == StageAnchor(h, "escalated", 2)
           new == NewHandle(p, FALSE)
           c == minted + 1
           k == Len(handles) + 1
           RootIn(fate) == IF fate = "enter" THEN <<r>> ELSE <<>>
           own == IF handles[h].closed THEN <<>> ELSE <<a>>
<1>1. PICK fate \in Fates(p) :
        /\ Enter(RootIn(fate) \o own)
        /\ minted' = minted + 1 + Len(own)
        /\ handles' = IF handles[h].closed THEN handles
                      ELSE Append(Advanced(h, "escalated", minted + 2), new)
  BY DEF Escalate
<1> DEFINE root == RootIn(fate)
<1>2. /\ minted + 2 <= MaxMints /\ minted + 2 \in 1..MaxMints /\ minted \in Nat /\ p \in Procs
      /\ UNCHANGED stopped
  BY BegunProcs, TypesOf DEF Escalate
<1>3. /\ handles[h].closed => own = <<>>
      /\ ~handles[h].closed => own = <<a>>
      /\ root = <<r>> \/ (root = <<>> /\ p \in Sampled \cup Never)
  BY DEF Fates
<1>4. /\ minted' \in 0..MaxMints /\ minted' \in Nat /\ minted <= minted' /\ c <= minted'
      /\ ~handles[h].closed => minted + 2 <= minted'
  <2>1. CASE handles[h].closed
    <3>1. minted' = minted + 1
      BY <1>1, <1>2, <2>1
    <3>2. /\ minted' \in 0..MaxMints /\ minted' \in Nat
          /\ minted <= minted' /\ minted + 1 <= minted'
      BY <1>2, <3>1, SessionAssumption
    <3> QED
      BY <2>1, <3>2, Zenon
  <2>2. CASE ~handles[h].closed
    <3>1. Len(own) = 1
      BY <2>2
    <3>2. minted' = minted + 2
      <4> HIDE DEF own
      <4> QED
        BY <1>1, <1>2, <3>1
    <3> QED
      BY <1>2, <3>2
  <2> QED
    BY <2>1, <2>2, Zenon
<1>5. /\ r \in Anchor /\ r.chain = c /\ r.id = c /\ r.stage = "initiated" /\ r.proc = p
  BY <1>2, <1>4, RootMade, TypesOf
<1>6. ~handles[h].closed => a \in Anchor /\ a.chain = handles[h].chain
  BY <1>4, StageMade, TypesOf DEF Stages
<1>7. /\ new.chain = c /\ new.last = c /\ new.count = 1 /\ ~new.closed /\ new.proc = p
  BY DEF NewHandle
<1>8. log \in Seq(Anchor) /\ handles \in Seq(Handle) /\ c \in Nat /\ c > minted
  BY <1>2, TypesOf DEF IInv, TypeOK
<1>9. Enter(root \o own)
  BY <1>1
<1> HIDE DEF r, a, new, c, own, root
<1> DEFINE s1 == IF root = <<>> THEN log ELSE Append(log, r)
<1>10. /\ s1 \in Seq(Anchor) /\ Extended(log, s1)
       /\ \A i \in DOMAIN s1 \ DOMAIN log : s1[i].chain = c
       /\ s1 = Append(log, r) \/ (s1 = log /\ p \in Sampled \cup Never)
  <2>1. CASE root = <<>>
    <3>1. s1 = log /\ p \in Sampled \cup Never
      BY <1>3, <2>1
    <3> HIDE DEF s1
    <3> QED
      BY <1>8, <3>1 DEF Extended
  <2>2. CASE root = <<r>>
    <3>1. s1 = Append(log, r)
      BY <2>2
    <3> HIDE DEF s1
    <3> QED
      BY <1>5, <1>8, <3>1, AppendExtends
  <2> QED
    BY <1>3, <2>1, <2>2
<1>11. ~stopped => log' = IF handles[h].closed THEN s1 ELSE Append(s1, a)
  <2> SUFFICES ASSUME ~stopped PROVE log' = IF handles[h].closed THEN s1 ELSE Append(s1, a)
    OBVIOUS
  <2>1. log' = log \o (root \o own)
    BY <1>9 DEF Enter
  <2>2. CASE handles[h].closed
    <3>1. own = <<>> /\ log \o (<<r>> \o <<>>) = Append(log, r) /\ log \o (<<>> \o <<>>) = log
      BY <1>3, <1>5, <1>8, <2>2, TwoEnter
    <3> QED
      BY <1>3, <2>1, <2>2, <3>1
  <2>3. CASE ~handles[h].closed
    <3>1. /\ own = <<a>> /\ log \o (<<r>> \o <<a>>) = Append(Append(log, r), a)
          /\ log \o (<<>> \o <<a>>) = Append(log, a)
      BY <1>3, <1>5, <1>6, <1>8, <2>3, TwoEnter
    <3> QED
      BY <1>3, <2>1, <2>3, <3>1
  <2> QED
    BY <2>2, <2>3
<1> HIDE DEF s1
<1>12. /\ ~stopped => /\ Extended(s1, log')
                      /\ \A i \in DOMAIN log' \ DOMAIN s1 : log'[i].chain = handles[h].chain
       /\ stopped => log' = log
  <2>1. CASE stopped
    BY <1>9, <2>1 DEF Enter
  <2>2. CASE ~stopped /\ handles[h].closed
    BY <1>10, <1>11, <2>2 DEF Extended
  <2>3. CASE ~stopped /\ ~handles[h].closed
    BY <1>6, <1>10, <1>11, <2>3, AppendExtends
  <2> QED
    BY <2>1, <2>2, <2>3
<1>13. ChainsMinted'
  <2>1. CASE stopped
    BY <1>4, <1>12, <1>8, <2>1, ChainsAfter DEF Extended
  <2>2. CASE ~stopped
    <3>1. Extended(log, log')
      BY <1>10, <1>12, <2>2 DEF Extended
    <3>2. \A i \in DOMAIN log' \ DOMAIN log : log'[i].chain = c \/ log'[i].chain = handles[h].chain
      BY <1>10, <1>12, <2>2 DEF Extended
    <3>3. handles[h].chain <= minted'
      BY <1>2, <1>4, HandleTyped
    <3> QED
      BY <1>4, <3>1, <3>2, <3>3, ChainsAfter
  <2> QED
    BY <2>1, <2>2
<1>14. ASSUME ~stopped, NEW g \in DOMAIN handles, Sole(handles, g)
       PROVE  Line(s1, handles[g]) /\ (g # h => Line(log', handles[g]))
  <2>1. Line(log, handles[g])
    BY <1>14 DEF LineInv
  <2>2. handles[g].chain # c
    BY <1>8, HandleTyped, TypesOf
  <2>3. Line(s1, handles[g])
    BY <1>10, <2>1, <2>2, LineStays
  <2>4. ASSUME g # h PROVE Line(log', handles[g])
    <3>1. handles[g].chain # handles[h].chain
      BY <1>14, <2>4 DEF Sole
    <3> QED
      BY <1>12, <1>14, <2>3, <3>1, LineStays
  <2> QED
    BY <2>3, <2>4
<1>15. CASE handles[h].closed
  <2>1. UNCHANGED handles /\ (~stopped => log' = s1)
    BY <1>1, <1>11, <1>15
  <2> QED
    BY <1>2, <1>13, <1>14, <2>1 DEF LineInv
<1>16. CASE ~handles[h].closed
  <2> DEFINE adv == Advanced(h, "escalated", minted + 2)
  <2>1. /\ adv \in Seq(Handle) /\ DOMAIN adv = DOMAIN handles /\ Len(adv) = Len(handles)
        /\ adv[h].chain = handles[h].chain
        /\ \A g \in DOMAIN handles \ {h} : adv[g] = handles[g]
    BY <1>2, AdvancedTyped
  <2>2. handles' = Append(adv, new)
    BY <1>1, <1>16 DEF new
  <2> HIDE DEF adv
  <2>3. /\ DOMAIN handles' = DOMAIN handles \cup {k} /\ handles'[k] = new
        /\ k \notin DOMAIN handles /\ \A g \in DOMAIN handles : handles'[g] = adv[g]
    BY <1>8, <2>1, <2>2
  <2> HIDE DEF k
  <2>4. \A g \in DOMAIN handles : handles'[g].chain = handles[g].chain
    BY <2>1, <2>3
  <2>5. ASSUME ~stopped', NEW g \in DOMAIN handles', Sole(handles', g)
        PROVE  Line(log', handles'[g])
    <3>1. ~stopped
      BY <1>2, <2>5
    <3>2. CASE g = k
      <4>1. In(log, c) = {}
        BY <1>8, NoneYet
      <4>2. Line(s1, new)
        BY <1>5, <1>7, <1>8, <1>10, <4>1, LineBegins
      <4>3. handles[h].chain # c
        BY <1>8, HandleTyped, TypesOf
      <4> QED
        BY <1>7, <1>12, <2>3, <3>1, <3>2, <4>2, <4>3, LineStays
    <3>3. CASE g \in DOMAIN handles
      <4>1. Sole(handles, g)
        BY <2>3, <2>4, <2>5, <3>3, SoleStays
      <4>2. CASE g = h
        <5>1. Line(s1, handles[h]) /\ Sole(handles, h)
          BY <1>14, <3>1, <4>1, <4>2
        <5>2. 2 \in Nat \ {0} /\ minted + 2 <= minted' /\ "escalated" \in Stages
          BY <1>4, <1>16 DEF Stages
        <5>3. Line(Append(s1, a), adv[h])
          BY <1>4, <1>10, <1>16, <3>1, <5>1, <5>2, StageGrows DEF a, adv
        <5> QED
          BY <1>11, <1>16, <2>3, <3>1, <4>2, <5>3
      <4>3. CASE g # h
        BY <1>14, <2>1, <2>3, <3>1, <3>3, <4>1, <4>3
      <4> QED
        BY <4>2, <4>3
    <3> QED
      BY <2>3, <2>5, <3>2, <3>3
  <2> QED
    BY <1>13, <2>5 DEF LineInv
<1> QED
  BY <1>15, <1>16

LEMMA LifecycleLine ==
    ASSUME IInv, LineInv, LifecycleNext
    PROVE  LineInv'
<1>1. ASSUME NEW h \in DOMAIN handles,
             Checkpoint(h) \/ Resolve(h) \/ Abandon(h) \/ EscalateIncident(h)
      PROVE  LineInv'
  BY <1>1, StageLine DEF Checkpoint, Resolve, Abandon, EscalateIncident, Stages
<1> QED
  BY <1>1, BeginLine, ResumeLine, EscalateLine DEF LifecycleNext

-----------------------------------------------------------------------------
LEMMA LineInit == WitnessInit => LineInv
BY DEF WitnessInit, Init, LifecycleInit, LineInv, ChainsMinted

LEMMA LineNext == IInv /\ LineInv /\ [WitnessNext]_vars => LineInv'
<1> SUFFICES ASSUME IInv, LineInv, [WitnessNext]_vars PROVE LineInv'
  OBVIOUS
<1>1. CASE UNCHANGED vars
  <2>1. Loose(log, log') /\ UNCHANGED <<handles, minted, stopped>>
    BY <1>1, TypesOf DEF vars, session, Loose, Extended
  <2> QED
    BY <2>1, LooseStep, TypesOf
<1>2. CASE SessionNext /\ UNCHANGED handles
  BY <1>2, SessionLine
<1>3. CASE LifecycleNext
  BY <1>3, LifecycleLine
<1>4. CASE TrustNext /\ UNCHANGED handles
  BY <1>4, TrustLine
<1> QED
  BY <1>1, <1>2, <1>3, <1>4 DEF WitnessNext

\* As long as one handle mints a chain, the anchors of it in the buffer are one line,
\* each naming the one before, with nothing after a terminal stage, and the handle is
\* where the line ends: whatever else is minted between, and whether the root was
\* sampled out or not.  (witness.ts:8004-8289)
THEOREM LineOfOneHandleAlways == Spec => []LineOfOneHandle
<1>1. IInv /\ LineInv => LineOfOneHandle
  BY LineInvIsLine
<1>2. Spec => []LineInv
  BY LineInit, LineNext, IInvAlways, PTL DEF Spec
<1> QED
  BY <1>1, <1>2, IInvAlways, PTL

-----------------------------------------------------------------------------
(* Sums of a sequence of numbers *)

\* The last of the first n numbers, and what is left without it.
LEMMA LastOfFirst ==
    ASSUME NEW n \in Nat \ {0}
    PROVE  /\ Max(1..n) = n
           /\ (1..n) \ {n} = 1..(n - 1)
<1> DEFINE T == 1..n
           Great(z) == \A y \in T : z >= y
<1>1. Great(n) /\ n \in T
  OBVIOUS
<1>2. \A z \in T : Great(z) => z = n
  OBVIOUS
<1>3. Max(T) = n
  BY <1>1, <1>2 DEF Max
<1> QED
  BY <1>3

\* The sum of the first m numbers, for every m.
Sums(F, values, n) ==
    /\ F[0] = 0 /\ F[n] = Total(values)
    /\ \A m \in 1..n : F[m] = F[m - 1] + values[m]

\* There is a function that says what the sums of the first numbers are.
LEMMA SummedOneByOne ==
    ASSUME NEW n \in Nat, NEW values, DOMAIN values = 1..n
    PROVE  \E F : Sums(F, values, n)
<1> DEFINE Turn(f, T) == IF T = {} THEN 0
                         ELSE f[T \ {Max(T)}] + values[Max(T)]
           Over(m, f) == f = [T \in SUBSET (1..m) |-> Turn(f, T)]
           G == {m \in Nat : \E f : Over(m, f)}
<1>1. Total(values) = (CHOOSE f : Over(n, f))[1..n]
  BY DEF Total, FoldLeft, MapThenFoldSet
<1>2. 0 \in G
  <2>1. Over(0, [T \in SUBSET (1..0) |-> 0])
    OBVIOUS
  <2> QED
    BY <2>1
<1>3. ASSUME NEW m \in Nat, m \in G PROVE m + 1 \in G
  <2>1. PICK f : Over(m, f)
    BY <1>3
  <2> DEFINE g == [T \in SUBSET (1..(m + 1)) |->
                      IF m + 1 \in T THEN Turn(f, T) ELSE f[T]]
  <2>2. ASSUME NEW T \in SUBSET (1..(m + 1)), m + 1 \notin T
        PROVE  T \in SUBSET (1..m) /\ g[T] = Turn(g, T)
    <3>1. T \in SUBSET (1..m)
      BY <2>2
    <3>2. g[T] = Turn(f, T)
      <4>1. g[T] = f[T]
        BY <2>2
      <4> HIDE DEF Turn, g
      <4> QED
        BY <2>1, <3>1, <4>1
    <3>3. CASE T = {}
      <4> HIDE DEF g
      <4> QED
        BY <3>1, <3>2, <3>3
    <3>4. CASE T # {}
      <4> DEFINE R == T \ {Max(T)}
      <4>1. R \in SUBSET (1..m) /\ R \in SUBSET (1..(m + 1)) /\ m + 1 \notin R
        BY <2>2, <3>1
      <4>2. g[R] = f[R]
        BY <4>1
      <4> HIDE DEF g
      <4> QED
        BY <3>1, <3>2, <3>4, <4>2
    <3> QED
      BY <3>1, <3>3, <3>4
  <2>3. ASSUME NEW T \in SUBSET (1..(m + 1)), m + 1 \in T
        PROVE  g[T] = Turn(g, T)
    <3> DEFINE R == T \ {Max(T)}
    <3>1. Max(T) = m + 1
      <4> DEFINE Great(z) == \A y \in T : z >= y
      <4>1. Great(m + 1) /\ m + 1 \in T
        BY <2>3
      <4>2. \A z \in T : Great(z) => z = m + 1
        BY <2>3, <4>1
      <4> QED
        BY <4>1, <4>2 DEF Max
    <3>2. R \in SUBSET (1..m) /\ R \in SUBSET (1..(m + 1)) /\ m + 1 \notin R
      BY <3>1
    <3>3. g[R] = f[R] /\ g[T] = Turn(f, T) /\ T # {}
      BY <2>3, <3>2
    <3> HIDE DEF g
    <3> QED
      BY <3>3
  <2>4. Over(m + 1, g)
    <3>1. \A T \in SUBSET (1..(m + 1)) : g[T] = Turn(g, T)
      BY <2>2, <2>3
    <3>2. g = [T \in SUBSET (1..(m + 1)) |-> g[T]]
      OBVIOUS
    <3> HIDE DEF g, Turn
    <3> QED
      BY <3>1, <3>2
  <2> HIDE DEF Over, g
  <2>5. m + 1 \in Nat /\ \E h : Over(m + 1, h)
    BY <2>4
  <2> QED
    BY <2>5
<1>4. n \in G
  <2> HIDE DEF G
  <2> QED
    BY <1>2, <1>3, SetInduction
<1>5. PICK f : Over(n, f) /\ f = CHOOSE h : Over(n, h)
  BY <1>4
<1> DEFINE F == [m \in 0..n |-> f[1..m]]
<1>6. F[0] = 0 /\ F[n] = f[1..n]
  <2>1. 1..0 = {} /\ {} \in SUBSET (1..n)
    OBVIOUS
  <2>2. f[{}] = 0
    BY <1>5, <2>1
  <2> QED
    BY <2>1, <2>2
<1>7. ASSUME NEW m \in 1..n PROVE F[m] = F[m - 1] + values[m]
  <2>1. m \in Nat \ {0} /\ m - 1 \in 0..n /\ m \in 0..n
    OBVIOUS
  <2>4. Max(1..m) = m /\ (1..m) \ {m} = 1..(m - 1)
    BY <2>1, LastOfFirst
  <2>6. m \in 1..m /\ \A i \in 1..m : i \in 1..n
    BY <2>1
  <2>5. 1..m \in SUBSET (1..n) /\ 1..m # {}
    BY <2>6
  <2>2. Max(1..m) = m /\ (1..m) \ {m} = 1..(m - 1) /\ 1..m \in SUBSET (1..n)
        /\ 1..m # {}
    BY <2>4, <2>5
  <2>3. f[1..m] = Turn(f, 1..m)
    <3> HIDE DEF Turn
    <3> QED
      BY <1>5, <2>2
  <2> QED
    BY <2>1, <2>2, <2>3
<1>8. Sums(F, values, n)
  BY <1>1, <1>5, <1>6, <1>7 DEF Sums
<1> HIDE DEF F
<1> QED
  BY <1>8

\* The sums of natural numbers are natural numbers.
LEMMA SumsTyped ==
    ASSUME NEW values \in Seq(Nat), NEW F, Sums(F, values, Len(values))
    PROVE  \A m \in 0..Len(values) : F[m] \in Nat
<1> DEFINE n == Len(values)
           G == {m \in Nat : m <= n => F[m] \in Nat}
<1>1. n \in Nat /\ \A m \in 1..n : values[m] \in Nat
  OBVIOUS
<1>2. F[0] = 0 /\ \A m \in 1..n : F[m] = F[m - 1] + values[m]
  BY DEF Sums
<1> HIDE DEF n
<1>3. 0 \in G
  BY <1>2
<1>4. ASSUME NEW m \in Nat, m \in G PROVE m + 1 \in G
  <2> SUFFICES ASSUME m + 1 <= n PROVE F[m + 1] \in Nat
    OBVIOUS
  <2>1. m + 1 \in 1..n /\ (m + 1) - 1 = m /\ m <= n
    BY <1>1
  <2>2. F[m + 1] = F[m] + values[m + 1] /\ values[m + 1] \in Nat
    BY <1>1, <1>2, <2>1
  <2> QED
    BY <1>4, <2>1, <2>2
<1>5. \A m \in Nat : m \in G
  <2> HIDE DEF G
  <2> QED
    BY <1>3, <1>4, SetInduction
<1> QED
  BY <1>1, <1>5 DEF n

\* The sum of two sequences, one after the other.
LEMMA TotalJoins ==
    ASSUME NEW a \in Seq(Nat), NEW b \in Seq(Nat)
    PROVE  /\ Total(a) \in Nat /\ Total(b) \in Nat
           /\ Total(a \o b) = Total(a) + Total(b)
<1> DEFINE c == a \o b
           n == Len(a)
           m == Len(b)
<1>1. /\ n \in Nat /\ m \in Nat /\ c \in Seq(Nat) /\ Len(c) = n + m
      /\ DOMAIN a = 1..n /\ DOMAIN b = 1..m /\ DOMAIN c = 1..(n + m)
      /\ \A i \in 1..n : c[i] = a[i]
      /\ \A i \in 1..m : c[n + i] = b[i]
  OBVIOUS
<1>2. PICK FA : Sums(FA, a, n)
  BY <1>1, SummedOneByOne
<1>3. PICK FB : Sums(FB, b, m)
  BY <1>1, SummedOneByOne
<1> HIDE DEF c
<1>4. n + m \in Nat
  BY <1>1
<1>5. PICK FC : Sums(FC, c, n + m)
  BY <1>1, <1>4, SummedOneByOne
<1>6. /\ \A i \in 0..n : FA[i] \in Nat
      /\ \A i \in 0..m : FB[i] \in Nat
      /\ \A i \in 0..(n + m) : FC[i] \in Nat
  <2>1. \A i \in 0..n : FA[i] \in Nat
    BY <1>2, SumsTyped
  <2>2. \A i \in 0..m : FB[i] \in Nat
    BY <1>3, SumsTyped
  <2>3. Sums(FC, c, Len(c))
    BY <1>1, <1>5
  <2>4. \A i \in 0..Len(c) : FC[i] \in Nat
    BY <1>1, <2>3, SumsTyped
  <2> QED
    BY <1>1, <2>1, <2>2, <2>4
<1> HIDE DEF n, m
<1>7. \A i \in Nat : i <= n => FC[i] = FA[i]
  <2> DEFINE G == {i \in Nat : i <= n => FC[i] = FA[i]}
  <2>1. 0 \in G
    BY <1>2, <1>5 DEF Sums
  <2>2. ASSUME NEW i \in Nat, i \in G PROVE i + 1 \in G
    <3> SUFFICES ASSUME i + 1 <= n PROVE FC[i + 1] = FA[i + 1]
      OBVIOUS
    <3>1. i + 1 \in 1..n /\ i + 1 \in 1..(n + m) /\ (i + 1) - 1 = i /\ i <= n
      BY <1>1
    <3>2. FC[i + 1] = FC[i] + c[i + 1] /\ FA[i + 1] = FA[i] + a[i + 1] /\ c[i + 1] = a[i + 1]
      BY <1>1, <1>2, <1>5, <3>1 DEF Sums
    <3> QED
      BY <2>2, <3>1, <3>2
  <2> HIDE DEF G
  <2>3. \A i \in Nat : i \in G
    BY <2>1, <2>2, SetInduction
  <2> QED
    BY <2>3 DEF G
<1>8. \A i \in Nat : i <= m => FC[n + i] = FA[n] + FB[i]
  <2> DEFINE G == {i \in Nat : i <= m => FC[n + i] = FA[n] + FB[i]}
  <2>1. 0 \in G
    <3>1. FC[n] = FA[n] /\ FB[0] = 0 /\ n + 0 = n /\ FA[n] \in Nat
      BY <1>1, <1>3, <1>6, <1>7 DEF Sums
    <3> QED
      BY <3>1
  <2>2. ASSUME NEW i \in Nat, i \in G PROVE i + 1 \in G
    <3> SUFFICES ASSUME i + 1 <= m PROVE FC[n + (i + 1)] = FA[n] + FB[i + 1]
      OBVIOUS
    <3>1. /\ i + 1 \in 1..m /\ n + (i + 1) \in 1..(n + m) /\ (i + 1) - 1 = i
          /\ (n + (i + 1)) - 1 = n + i /\ i <= m /\ i \in 0..m /\ n \in 0..n
      BY <1>1
    <3>2. /\ FC[n + (i + 1)] = FC[n + i] + c[n + (i + 1)]
          /\ FB[i + 1] = FB[i] + b[i + 1] /\ c[n + (i + 1)] = b[i + 1]
      BY <1>1, <1>3, <1>5, <3>1 DEF Sums
    <3>3. FC[n + i] = FA[n] + FB[i]
      BY <2>2, <3>1
    <3>4. FA[n] \in Nat /\ FB[i] \in Nat /\ b[i + 1] \in Nat
      BY <1>1, <1>6, <3>1
    <3> QED
      BY <3>2, <3>3, <3>4
  <2> HIDE DEF G
  <2>3. \A i \in Nat : i \in G
    BY <2>1, <2>2, SetInduction
  <2> QED
    BY <2>3 DEF G
<1>9. /\ FA[n] = Total(a) /\ FB[m] = Total(b) /\ FC[n + m] = Total(c)
      /\ FA[n] \in Nat /\ FB[m] \in Nat
  <2>1. n \in 0..n /\ m \in 0..m
    BY <1>1
  <2> QED
    BY <1>2, <1>3, <1>5, <1>6, <2>1 DEF Sums
<1> QED
  BY <1>1, <1>8, <1>9 DEF c

\* Numbers of which all but one are zero, or all (j = 0).
LEMMA TotalOfOne ==
    ASSUME NEW values \in Seq(Nat), NEW j \in Nat, j <= Len(values),
           \A i \in DOMAIN values : i # j => values[i] = 0
    PROVE  Total(values) = IF j = 0 THEN 0 ELSE values[j]
<1> DEFINE n == Len(values)
<1>1. n \in Nat /\ DOMAIN values = 1..n /\ j <= n /\ \A i \in 1..n : values[i] \in Nat
  OBVIOUS
<1>2. PICK F : Sums(F, values, n)
  BY <1>1, SummedOneByOne
<1> HIDE DEF n
<1>3. \A i \in Nat : i <= n => F[i] = IF i < j \/ j = 0 THEN 0 ELSE values[j]
  <2> DEFINE G == {i \in Nat : i <= n => F[i] = IF i < j \/ j = 0 THEN 0 ELSE values[j]}
  <2>1. 0 \in G
    BY <1>2 DEF Sums
  <2>2. ASSUME NEW i \in Nat, i \in G PROVE i + 1 \in G
    <3> SUFFICES ASSUME i + 1 <= n
                 PROVE  F[i + 1] = IF i + 1 < j \/ j = 0 THEN 0 ELSE values[j]
      OBVIOUS
    <3>1. i + 1 \in 1..n /\ (i + 1) - 1 = i /\ i <= n
      BY <1>1
    <3>2. F[i + 1] = F[i] + values[i + 1]
      BY <1>2, <3>1 DEF Sums
    <3>3. F[i] = IF i < j \/ j = 0 THEN 0 ELSE values[j]
      BY <2>2, <3>1
    <3>4. CASE j = i + 1
      BY <1>1, <3>1, <3>2, <3>3, <3>4
    <3>5. CASE j # i + 1
      <4>1. values[i + 1] = 0
        BY <1>1, <3>1, <3>5
      <4>2. j # 0 => values[j] \in Nat
        BY <1>1
      <4>3. F[i + 1] = F[i] /\ (i < j <=> i + 1 < j)
        BY <3>2, <3>3, <3>5, <4>1, <4>2
      <4> QED
        BY <3>3, <4>3
    <3> QED
      BY <3>4, <3>5
  <2> HIDE DEF G
  <2>3. \A i \in Nat : i \in G
    BY <2>1, <2>2, SetInduction
  <2> QED
    BY <2>3 DEF G
<1>4. F[n] = Total(values)
  BY <1>2 DEF Sums
<1> QED
  BY <1>1, <1>3, <1>4

-----------------------------------------------------------------------------
(* How many anchors of a kind a log has, and what they say in all *)

\* The places of anchors of a kind in a log, how many they are, what each says and
\* what they say in all.
Where(s, kind) == {i \in DOMAIN s : s[i] \in kind}
Number(s, kind) == Cardinality(Where(s, kind))
Saying(s, kind) == [i \in DOMAIN s |-> IF s[i] \in kind THEN s[i].value ELSE 0]
Amount(s, kind) == Total(Saying(s, kind))

\* The places of a sequence are finitely many.
LEMMA PlacesFinite ==
    ASSUME NEW s \in Seq(Anchor), NEW places \in SUBSET DOMAIN s
    PROVE  IsFiniteSet(places) /\ Cardinality(places) \in Nat
<1>1. DOMAIN s = 1..Len(s) /\ Len(s) \in Nat
  OBVIOUS
<1>2. IsFiniteSet(DOMAIN s)
  BY <1>1, FS_Interval
<1> QED
  BY <1>2, FS_Subset, FS_CardinalityType

\* The anchors of a kind in two sequences, one after the other.
LEMMA NumberJoins ==
    ASSUME NEW s \in Seq(Anchor), NEW t \in Seq(Anchor), NEW kind
    PROVE  /\ Number(s, kind) \in Nat /\ Number(t, kind) \in Nat
           /\ Number(s \o t, kind) = Number(s, kind) + Number(t, kind)
<1> DEFINE n == Len(s)
           m == Len(t)
           A == Where(s, kind)
           B == Where(t, kind)
           C == {n + i : i \in B}
           f == [i \in B |-> n + i]
<1>1. n \in Nat /\ m \in Nat /\ DOMAIN s = 1..n /\ DOMAIN t = 1..m
  OBVIOUS
<1>2. A \subseteq 1..n /\ B \subseteq 1..m
  BY <1>1 DEF Where
<1>3. IsFiniteSet(A) /\ IsFiniteSet(B) /\ Cardinality(A) \in Nat /\ Cardinality(B) \in Nat
  BY <1>1, <1>2, PlacesFinite
<1>4. Where(s \o t, kind) = A \cup C
  <2>1. DOMAIN (s \o t) = 1..(n + m)
    OBVIOUS
  <2>2. \A i \in 1..(n + m) : (s \o t)[i] = IF i <= n THEN s[i] ELSE t[i - n]
    BY <1>1
  <2>3. \A i \in 1..(n + m) : i > n => i - n \in 1..m /\ n + (i - n) = i
    BY <1>1
  <2>4. \A i \in 1..m : n + i \in 1..(n + m) /\ ~(n + i <= n) /\ (n + i) - n = i
    BY <1>1
  <2>5. \A i \in 1..n : i \in 1..(n + m) /\ i <= n
    BY <1>1
  <2> HIDE DEF n, m
  <2>6. A = {i \in 1..n : s[i] \in kind} /\ B = {i \in 1..m : t[i] \in kind}
    BY <1>1 DEF Where
  <2> HIDE DEF A, B
  <2>7. \A i \in 1..(n + m) : (s \o t)[i] \in kind <=> i \in A \cup C
    <3> SUFFICES ASSUME NEW i \in 1..(n + m) PROVE (s \o t)[i] \in kind <=> i \in A \cup C
      OBVIOUS
    <3>1. CASE i <= n
      <4>1. i \in 1..n
        BY <1>1, <3>1
      <4>2. i \notin C
        BY <1>1, <2>4, <2>6, <3>1
      <4> QED
        BY <2>2, <2>6, <3>1, <4>1, <4>2
    <3>2. CASE ~(i <= n)
      <4>1. i \notin 1..n /\ i - n \in 1..m /\ n + (i - n) = i
        BY <1>1, <2>3, <3>2
      <4>2. i \in C => i - n \in B
        BY <2>4, <2>6
      <4>3. i - n \in B => i \in C
        BY <4>1
      <4> QED
        BY <2>2, <2>6, <3>2, <4>1, <4>2, <4>3
    <3> QED
      BY <3>1, <3>2
  <2>8. A \cup C \subseteq 1..(n + m)
    BY <2>4, <2>5, <2>6
  <2> QED
    BY <2>1, <2>7, <2>8 DEF Where
<1>5. IsFiniteSet(C) /\ Cardinality(C) = Cardinality(B)
  <2>1. f \in Bijection(B, C)
    <3>1. f \in [B -> C] /\ \A c \in C : \E i \in B : f[i] = c
      OBVIOUS
    <3>2. \A i, j \in B : f[i] = f[j] => i = j
      BY <1>1, <1>2
    <3> HIDE DEF f, B, C
    <3> QED
      BY <3>1, <3>2 DEF Bijection, Injection, Surjection, IsInjective
  <2> HIDE DEF f, B, C
  <2> QED
    BY <1>3, <2>1, FS_Bijection DEF ExistsBijection
<1>6. A \cap C = {}
  BY <1>1, <1>2
<1> HIDE DEF A, B, C
<1>7. Cardinality(A \cup C) = Cardinality(A) + Cardinality(C) - Cardinality(A \cap C)
  BY <1>3, <1>5, FS_Union
<1>8. Cardinality(A \cup C) = Cardinality(A) + Cardinality(B)
  <2>1. Cardinality(A \cap C) = 0
    BY <1>6, FS_EmptySet
  <2> QED
    BY <1>3, <1>5, <1>7, <2>1
<1> QED
  BY <1>3, <1>4, <1>8 DEF Number, A, B

\* The values of anchors are numbers.
LEMMA SayingTyped ==
    ASSUME NEW s \in Seq(Anchor), NEW kind
    PROVE  /\ Saying(s, kind) \in Seq(Nat) /\ Len(Saying(s, kind)) = Len(s)
           /\ DOMAIN Saying(s, kind) = DOMAIN s
           /\ \A i \in DOMAIN s : Saying(s, kind)[i] = IF s[i] \in kind THEN s[i].value ELSE 0
<1>1. DOMAIN s = 1..Len(s) /\ Len(s) \in Nat /\ \A i \in 1..Len(s) : s[i] \in Anchor
  OBVIOUS
<1>2. \A a \in Anchor : a.value \in Nat
  BY DEF Anchor
<1>3. \A i \in 1..Len(s) : (IF s[i] \in kind THEN s[i].value ELSE 0) \in Nat
  BY <1>1, <1>2
<1> QED
  BY <1>1, <1>3 DEF Saying

\* Two sequences, one after the other.
LEMMA JoinIs ==
    ASSUME NEW S, NEW a \in Seq(S), NEW b \in Seq(S)
    PROVE  /\ a \o b \in Seq(S) /\ Len(a \o b) = Len(a) + Len(b)
           /\ \A i \in 1..(Len(a) + Len(b)) :
                (a \o b)[i] = IF i <= Len(a) THEN a[i] ELSE b[i - Len(a)]
OBVIOUS

\* What they say in two sequences, one after the other.
LEMMA AmountJoins ==
    ASSUME NEW s \in Seq(Anchor), NEW t \in Seq(Anchor), NEW kind
    PROVE  /\ Amount(s, kind) \in Nat /\ Amount(t, kind) \in Nat
           /\ Amount(s \o t, kind) = Amount(s, kind) + Amount(t, kind)
<1> DEFINE a == Saying(s, kind)
           b == Saying(t, kind)
           r == s \o t
           c == Saying(r, kind)
           n == Len(s)
           m == Len(t)
<1>1. /\ n \in Nat /\ m \in Nat /\ DOMAIN s = 1..n /\ DOMAIN t = 1..m
      /\ r \in Seq(Anchor) /\ Len(r) = n + m /\ DOMAIN r = 1..(n + m)
      /\ \A i \in 1..(n + m) : r[i] = IF i <= n THEN s[i] ELSE t[i - n]
  OBVIOUS
<1> HIDE DEF r
<1>2. /\ a \in Seq(Nat) /\ Len(a) = n /\ b \in Seq(Nat) /\ Len(b) = m
      /\ c \in Seq(Nat) /\ Len(c) = n + m
      /\ \A i \in 1..n : a[i] = IF s[i] \in kind THEN s[i].value ELSE 0
      /\ \A i \in 1..m : b[i] = IF t[i] \in kind THEN t[i].value ELSE 0
      /\ \A i \in 1..(n + m) : c[i] = IF r[i] \in kind THEN r[i].value ELSE 0
  BY <1>1, SayingTyped
<1> HIDE DEF a, b, c, n, m
<1> DEFINE d == a \o b
<1>3. d \in Seq(Nat) /\ Len(d) = n + m
  BY <1>2, JoinIs
<1>4. \A i \in 1..(n + m) : d[i] = IF i <= n THEN a[i] ELSE b[i - n]
  <2>1. a \in Seq(Nat) /\ b \in Seq(Nat) /\ Len(a) = n /\ Len(b) = m
    BY <1>2
  <2>2. \A i \in 1..(Len(a) + Len(b)) : d[i] = IF i <= Len(a) THEN a[i] ELSE b[i - Len(a)]
    BY <2>1, JoinIs, Zenon
  <2> QED
    BY <2>1, <2>2
<1> HIDE DEF d
<1>5. \A i \in 1..(n + m) : (i <= n => i \in 1..n) /\ (~(i <= n) => i - n \in 1..m)
  BY <1>1
<1>6. ASSUME NEW i \in 1..(n + m) PROVE d[i] = c[i]
  <2>1. CASE i <= n
    <3>1. i \in 1..n /\ d[i] = a[i] /\ r[i] = s[i]
      BY <1>1, <1>4, <1>5, <2>1
    <3> QED
      BY <1>2, <3>1
  <2>2. CASE ~(i <= n)
    <3>1. i - n \in 1..m /\ d[i] = b[i - n] /\ r[i] = t[i - n]
      BY <1>1, <1>4, <1>5, <2>2
    <3> DEFINE j == i - n
    <3> HIDE DEF j
    <3>2. j \in 1..m /\ d[i] = b[j] /\ r[i] = t[j]
      BY <3>1 DEF j
    <3> QED
      BY <1>2, <3>2
  <2> QED
    BY <2>1, <2>2
<1>7. d = c
  BY <1>2, <1>3, <1>6, SeqEqual
<1>8. Total(a) \in Nat /\ Total(b) \in Nat /\ Total(d) = Total(a) + Total(b)
  BY <1>2, TotalJoins DEF d
<1> QED
  BY <1>7, <1>8 DEF Amount, a, b, c, r

\* Anchors none of which is of a kind.
LEMMA NoneOfKind ==
    ASSUME NEW t \in Seq(Anchor), NEW kind, \A i \in DOMAIN t : t[i] \notin kind
    PROVE  Number(t, kind) = 0 /\ Amount(t, kind) = 0
<1>1. Where(t, kind) = {}
  BY DEF Where
<1>2. Number(t, kind) = 0
  BY <1>1, FS_EmptySet DEF Number
<1> DEFINE v == Saying(t, kind)
<1>3. v \in Seq(Nat) /\ Len(v) \in Nat /\ \A i \in DOMAIN v : v[i] = 0
  <2>1. /\ v \in Seq(Nat) /\ DOMAIN v = DOMAIN t
        /\ \A i \in DOMAIN t : v[i] = IF t[i] \in kind THEN t[i].value ELSE 0
    BY SayingTyped
  <2> HIDE DEF v
  <2> QED
    BY <2>1
<1> HIDE DEF v
<1>4. Total(v) = 0
  BY <1>3, TotalOfOne
<1> QED
  BY <1>2, <1>4 DEF Amount, v

-----------------------------------------------------------------------------
(* The books of a session: what was called, what entered, what is skipped *)

\* Procedures no method hands to _enqueueSampled: those of flush, gate and revocation.
Outside == {"AI-SAMPLE.1", "AI-DENSITY.1", "AI-GRD.3", "AI-REV.1"}

\* No family of mints holds one of them.
LEMMA ShapedOutside ==
    ASSUME NEW procs, procs \cap Outside = {}, NEW meta, NEW context, NEW model
    PROVE  \A m \in Shaped(procs, meta, context, model) : m.proc \notin Outside
BY DEF Shaped

LEMMA PlainOutside ==
    ASSUME NEW procs, procs \cap Outside = {}
    PROVE  \A m \in Mint(procs) \cup Inline(procs) \cup Bare(procs) \cup Reduced(procs) :
                m.proc \notin Outside
BY ShapedOutside DEF Mint, Inline, Bare, Reduced

\* No method of the class mints one of them.
LEMMA SurfaceOutside == \A m \in Surface : m.proc \notin Outside
<1>1. \A m \in UNION {SecurityMints, RagMints, WeightMints,
                   SkillMints, HardwareMints, ContainmentMints} :
        m.proc \notin Outside
  BY PlainOutside
  DEF Outside, SecurityMints, RagMints, WeightMints, SkillMints,
      HardwareMints, ContainmentMints
<1>2. \A m \in UNION {EnvironmentMints, ContentMints, ComponentMints,
                   CampaignMints, DelegationMints, MonitorMints} :
        m.proc \notin Outside
  BY PlainOutside
  DEF Outside, EnvironmentMints, ContentMints, ComponentMints, CampaignMints,
      DelegationMints, MonitorMints
<1>3. \A m \in UNION {DataMints, TrajectoryMints, BenchmarkMints,
                   DisclosureMints, DecisionMints, RiskMints} :
        m.proc \notin Outside
  BY PlainOutside
  DEF Outside, DataMints, TrajectoryMints, BenchmarkMints, DisclosureMints,
      DecisionMints, RiskMints
<1>4. \A m \in UNION {CredentialMints, CredentialEndMints, HardwareBillMints,
                   ConstructionMints, SiteMints, BatteryMints} :
        m.proc \notin Outside
  BY PlainOutside
  DEF Outside, CredentialMints, CredentialEndMints, HardwareBillMints, ConstructionMints,
      SiteMints, BatteryMints
<1>5. \A m \in UNION {GridMints, OrchestrationMints, SandboxMints,
                   ReviewMints, SafetyMints, FairnessMints} :
        m.proc \notin Outside
  BY PlainOutside
  DEF Outside, GridMints, OrchestrationMints, SandboxMints, ReviewMints,
      SafetyMints, FairnessMints
<1>6. \A m \in UNION {GovernanceMints, OverrideMints, BoundaryMints,
                   ServerMints, DiscoveryMints, TaskMints} :
        m.proc \notin Outside
  BY PlainOutside
  DEF Outside, GovernanceMints, OverrideMints, BoundaryMints, ServerMints,
      DiscoveryMints, TaskMints
<1>7. \A m \in UNION {ContextMints, ProvenanceMints, FrameworkMints,
                   AccountabilityMints, ImpactMints, EngineeringMints} :
        m.proc \notin Outside
  BY PlainOutside
  DEF Outside, ContextMints, ProvenanceMints, FrameworkMints, AccountabilityMints,
      ImpactMints, EngineeringMints
<1>8. \A m \in UNION {FabricationMints, TransactionMints, RoutingMints,
                   OverseerMints, CostMints, RetirementMints} :
        m.proc \notin Outside
  BY PlainOutside
  DEF Outside, FabricationMints, TransactionMints, RoutingMints, OverseerMints,
      CostMints, RetirementMints
<1>9. \A m \in UNION {InferenceMints, CallMints} :
        m.proc \notin Outside
  BY ShapedOutside, PlainOutside
  DEF Outside, InferenceMints, CallMints
<1> QED
  BY <1>1, <1>2, <1>3, <1>4, <1>5, <1>6, <1>7, <1>8, <1>9 DEF Surface

\* Nor is one of them a procedure that is sampled.
LEMMA ProcsOutside == Procs \cap Outside = {}
<1>1. {"AI-CHAIN.1", "AI-CHAIN.2", "AI-TRUST.1", "AI-TRUST.2", "AI-METAGOV.3"} \cap Outside = {}
  BY DEF Outside
<1> QED
  BY <1>1, SurfaceOutside DEF Procs

\* What _enqueueSampled counts, what summaries and attestations tell of it.
Kept == {a \in Anchor : a.proc \in Procs /\ a.stage \in {"none", "initiated"}}
KeptOf(p) == {a \in Kept : a.proc = p}
About(p) == {a \in Anchor : a.proc = "AI-SAMPLE.1" /\ a.about = p}
Attested == {a \in Anchor : a.proc = "AI-DENSITY.1"}

\* The books balance.
Balance ==
    /\ \A p \in Procs :
        Copies(p, called) = Number(log, KeptOf(p)) + Copies(p, skips) + Amount(log, About(p))
    /\ Number(log, Kept) = density.anchors + Amount(log, Attested)

AccountsInv == ~stopped => Balance

\* The number of copies in a bag, and in a sum of bags.
LEMMA CopiesTyped ==
    ASSUME NEW p, NEW A, IsABag(A)
    PROVE  Copies(p, A) \in Nat
BY DEF IsABag, Copies

\* The copies in a sum of bags.
LEMMA CopiesSum ==
    ASSUME NEW p, NEW A, NEW B, IsABag(A), IsABag(B)
    PROVE  /\ Copies(p, A) \in Nat /\ Copies(p, B) \in Nat
           /\ Copies(p, A (+) B) = Copies(p, A) + Copies(p, B)
<1>1. Copies(p, A) \in Nat /\ Copies(p, B) \in Nat
  BY CopiesTyped
<1> DEFINE C == A (+) B
<1>2. DOMAIN C = DOMAIN A \cup DOMAIN B
  BY DEF (+)
<1>3. p \in DOMAIN C => C[p] = Copies(p, A) + Copies(p, B)
  BY DEF (+), Copies
<1> HIDE DEF C
<1>4. Copies(p, C) = Copies(p, A) + Copies(p, B)
  <2>1. CASE p \in DOMAIN C
    <3>1. Copies(p, C) = C[p]
      BY <2>1 DEF Copies
    <3> QED
      BY <1>3, <2>1, <3>1
  <2>2. CASE p \notin DOMAIN C
    <3>1. Copies(p, A) = 0 /\ Copies(p, B) = 0 /\ Copies(p, C) = 0
      BY <1>2, <2>2 DEF Copies
    <3> QED
      BY <3>1
  <2> QED
    BY <2>1, <2>2
<1> QED
  BY <1>1, <1>4 DEF C

\* How many anchors at some places are of a procedure.
Those(anchors, places, p) == Cardinality({i \in places : anchors[i].proc = p})

\* The procedures of anchors at some places, as a bag.
LEMMA CopiesOfProcs ==
    ASSUME NEW anchors \in Seq(Anchor), NEW places \in SUBSET DOMAIN anchors, NEW p
    PROVE  Copies(p, ProcsOf(anchors, places)) = Those(anchors, places, p)
<1> DEFINE here == {i \in places : anchors[i].proc = p}
<1>1. CASE p \in {anchors[i].proc : i \in places}
  BY <1>1 DEF ProcsOf, Copies, Those
<1>2. CASE p \notin {anchors[i].proc : i \in places}
  <2>1. here = {}
    BY <1>2
  <2>2. Cardinality(here) = 0
    BY <2>1, FS_EmptySet
  <2>3. p \notin DOMAIN ProcsOf(anchors, places)
    BY <1>2 DEF ProcsOf
  <2> QED
    BY <2>2, <2>3 DEF Copies, Those
<1> QED
  BY <1>1, <1>2

\* What a step that gives anchors to the buffer must show.
Entered(t) ==
    /\ \A p \in Procs :
        Copies(p, called') + Copies(p, skips) =
            Copies(p, called) + Copies(p, skips') + Number(t, KeptOf(p)) + Amount(t, About(p))
    /\ density.anchors + Number(t, Kept) = density.anchors' + Amount(t, Attested)

\* The books balance again when what is given to the buffer is what was counted.
LEMMA BalanceGoesOn ==
    ASSUME IInv, Counts', Balance, NEW t \in Seq(Anchor), log' = log \o t, Entered(t)
    PROVE  Balance'
<1>1. log \in Seq(Anchor) /\ Counts
  BY CountsHold, TypesOf
<1>2. density.anchors \in Nat /\ density'.anchors \in Nat
  BY <1>1 DEF Counts
<1>3. ASSUME NEW p \in Procs
      PROVE  Copies(p, called') = Number(log', KeptOf(p)) + Copies(p, skips')
                                  + Amount(log', About(p))
  <2>1. /\ Copies(p, called) \in Nat /\ Copies(p, called') \in Nat
        /\ Copies(p, skips) \in Nat /\ Copies(p, skips') \in Nat
    BY <1>1, CopiesTyped DEF Counts
  <2>2. /\ Number(log, KeptOf(p)) \in Nat /\ Number(t, KeptOf(p)) \in Nat
        /\ Number(log', KeptOf(p)) = Number(log, KeptOf(p)) + Number(t, KeptOf(p))
    BY <1>1, NumberJoins
  <2>3. /\ Amount(log, About(p)) \in Nat /\ Amount(t, About(p)) \in Nat
        /\ Amount(log', About(p)) = Amount(log, About(p)) + Amount(t, About(p))
    BY <1>1, AmountJoins
  <2>4. Copies(p, called) = Number(log, KeptOf(p)) + Copies(p, skips) + Amount(log, About(p))
    BY DEF Balance
  <2>5. Copies(p, called') + Copies(p, skips) =
            Copies(p, called) + Copies(p, skips') + Number(t, KeptOf(p)) + Amount(t, About(p))
    BY DEF Entered
  <2> DEFINE c1 == Copies(p, called)
             c2 == Copies(p, called')
             k1 == Copies(p, skips)
             k2 == Copies(p, skips')
             n1 == Number(log, KeptOf(p))
             n2 == Number(log', KeptOf(p))
             a1 == Amount(log, About(p))
             a2 == Amount(log', About(p))
             nt == Number(t, KeptOf(p))
             at == Amount(t, About(p))
  <2>6. /\ c1 \in Nat /\ c2 \in Nat /\ k1 \in Nat /\ k2 \in Nat
        /\ n1 \in Nat /\ a1 \in Nat /\ nt \in Nat /\ at \in Nat
    BY <2>1, <2>2, <2>3
  <2>7. n2 = n1 + nt /\ a2 = a1 + at /\ c1 = n1 + k1 + a1 /\ c2 + k1 = c1 + k2 + nt + at
    BY <2>2, <2>3, <2>4, <2>5
  <2> HIDE DEF c1, c2, k1, k2, n1, n2, a1, a2, nt, at
  <2>8. c2 = n2 + k2 + a2
    BY <2>6, <2>7
  <2> QED
    BY <2>8 DEF c2, k2, n2, a2
<1>4. Number(log', Kept) = density'.anchors + Amount(log', Attested)
  <2>1. /\ Number(log, Kept) \in Nat /\ Number(t, Kept) \in Nat
        /\ Number(log', Kept) = Number(log, Kept) + Number(t, Kept)
    BY <1>1, NumberJoins
  <2>2. /\ Amount(log, Attested) \in Nat /\ Amount(t, Attested) \in Nat
        /\ Amount(log', Attested) = Amount(log, Attested) + Amount(t, Attested)
    BY <1>1, AmountJoins
  <2>3. Number(log, Kept) = density.anchors + Amount(log, Attested)
    BY DEF Balance
  <2>4. density.anchors + Number(t, Kept) = density'.anchors + Amount(t, Attested)
    BY DEF Entered
  <2> DEFINE n1 == Number(log, Kept)
             n2 == Number(log', Kept)
             a1 == Amount(log, Attested)
             a2 == Amount(log', Attested)
             nt == Number(t, Kept)
             at == Amount(t, Attested)
             d1 == density.anchors
             d2 == density'.anchors
  <2>5. /\ d1 \in Nat /\ d2 \in Nat
        /\ n1 \in Nat /\ a1 \in Nat /\ nt \in Nat /\ at \in Nat
    BY <1>2, <2>1, <2>2
  <2>6. n2 = n1 + nt /\ a2 = a1 + at /\ n1 = d1 + a1 /\ d1 + nt = d2 + at
    BY <2>1, <2>2, <2>3, <2>4
  <2> HIDE DEF n1, n2, a1, a2, nt, at, d1, d2
  <2>7. n2 = d2 + a2
    BY <2>5, <2>6
  <2> QED
    BY <2>7 DEF n2, d2, a2
<1> QED
  BY <1>3, <1>4 DEF Balance

\* A step that gives nothing to the buffer and counts nothing.
LEMMA BalanceStays ==
    ASSUME Balance, UNCHANGED <<log, skips, called>>, density'.anchors = density.anchors
    PROVE  Balance'
BY DEF Balance, Number, Where, Amount, Saying

\* What is kept is neither a summary nor an attestation.
LEMMA KeptTellsNothing ==
    ASSUME NEW t \in Seq(Anchor), \A i \in DOMAIN t : t[i] \in Kept
    PROVE  /\ \A p \in Procs : Amount(t, About(p)) = 0
           /\ Amount(t, Attested) = 0
           /\ Number(t, Kept) = Len(t)
<1>1. "AI-SAMPLE.1" \notin Procs /\ "AI-DENSITY.1" \notin Procs
  BY ProcsOutside DEF Outside
<1>2. \A i \in DOMAIN t : t[i] \notin Attested /\ \A p \in Procs : t[i] \notin About(p)
  BY <1>1 DEF Kept, Attested, About
<1>3. Where(t, Kept) = 1..Len(t) /\ Len(t) \in Nat
  BY DEF Where
<1>4. Number(t, Kept) = Len(t)
  BY <1>3, FS_Interval DEF Number
<1>5. \A p \in Procs : Amount(t, About(p)) = 0
  BY <1>2, NoneOfKind
<1>6. Amount(t, Attested) = 0
  BY <1>2, NoneOfKind
<1> QED
  BY <1>4, <1>5, <1>6


\* t are n anchors of a call, in order, and skip the places of the others.
LetIn(anchors, enter, n, t, skip) ==
    /\ anchors \in Seq(Anchor) /\ \A i \in DOMAIN anchors : anchors[i] \in Kept
    /\ n \in Nat /\ enter \in [1..n -> DOMAIN anchors]
    /\ \A i, j \in 1..n : i < j => enter[i] < enter[j]
    /\ t \in Seq(Anchor) /\ Len(t) = n /\ \A k \in 1..n : t[k] = anchors[enter[k]]
    /\ skip = DOMAIN anchors \ Range(enter)

\* Of the anchors of a procedure, so many enter and the others are skipped.
LEMMA EnteredOrSkipped ==
    ASSUME NEW anchors, NEW enter, NEW n, NEW t, NEW skip, NEW p,
           LetIn(anchors, enter, n, t, skip)
    PROVE  /\ Number(t, KeptOf(p)) \in Nat /\ Those(anchors, skip, p) \in Nat
           /\ Those(anchors, DOMAIN anchors, p) = Number(t, KeptOf(p)) + Those(anchors, skip, p)
<1> USE DEF LetIn
<1> DEFINE all == {i \in DOMAIN anchors : anchors[i].proc = p}
           out == {i \in skip : anchors[i].proc = p}
           in == {i \in Range(enter) : anchors[i].proc = p}
           W == Where(t, KeptOf(p))
           f == [k \in W |-> enter[k]]
<1>1. W = {k \in 1..n : anchors[enter[k]].proc = p}
  <2>1. DOMAIN t = 1..n
    OBVIOUS
  <2>2. \A k \in 1..n : t[k] \in KeptOf(p) <=> anchors[enter[k]].proc = p
    BY DEF KeptOf
  <2> QED
    BY <2>1, <2>2 DEF Where
<1>2. \A k \in 1..n : enter[k] \in Nat
  OBVIOUS
<1>3. \A i, j \in 1..n : enter[i] = enter[j] => i = j
  <2> SUFFICES ASSUME NEW i \in 1..n, NEW j \in 1..n, enter[i] = enter[j], i # j PROVE FALSE
    OBVIOUS
  <2>1. i < j \/ j < i
    OBVIOUS
  <2>2. enter[i] < enter[j] \/ enter[j] < enter[i]
    BY <2>1
  <2> QED
    BY <1>2, <2>2
<1>4. Range(enter) = {enter[k] : k \in 1..n} /\ Range(enter) \subseteq DOMAIN anchors
  BY DEF Range
<1>5. f \in Bijection(W, in)
  <2>1. f \in [W -> in]
    BY <1>1, <1>4
  <2>2. \A i, j \in W : f[i] = f[j] => i = j
    BY <1>1, <1>3
  <2>3. \A x \in in : \E k \in W : f[k] = x
    BY <1>1, <1>4
  <2> HIDE DEF f, W, in
  <2> QED
    BY <2>1, <2>2, <2>3 DEF Bijection, Injection, Surjection, IsInjective
<1>6. W \in SUBSET DOMAIN t /\ out \in SUBSET DOMAIN anchors /\ in \in SUBSET DOMAIN anchors
  BY <1>4 DEF Where
<1>7. all = in \cup out /\ in \cap out = {}
  BY <1>4
<1> HIDE DEF all, out, in, W, f
<1>8. /\ IsFiniteSet(W) /\ Cardinality(W) \in Nat
      /\ IsFiniteSet(out) /\ Cardinality(out) \in Nat
      /\ IsFiniteSet(in) /\ Cardinality(in) \in Nat
  BY <1>6, PlacesFinite
<1>9. Cardinality(in) = Cardinality(W)
  BY <1>5, <1>8, FS_Bijection DEF ExistsBijection
<1>10. Cardinality(all) = Cardinality(W) + Cardinality(out)
  <2>1. Cardinality(in \cup out) = Cardinality(in) + Cardinality(out) - Cardinality(in \cap out)
    BY <1>8, FS_Union
  <2>2. Cardinality(in \cap out) = 0
    BY <1>7, FS_EmptySet
  <2> QED
    BY <1>7, <1>8, <1>9, <2>1, <2>2
<1>11. Number(t, KeptOf(p)) = Cardinality(W)
  BY DEF Number, W
<1> QED
  BY <1>8, <1>10, <1>11 DEF all, out, Those

\* _enqueueSampled keeps the books.
LEMMA SampledBalance ==
    ASSUME IInv, ~stopped, Balance,
           NEW anchors \in Seq(Anchor), \A i \in DOMAIN anchors : anchors[i] \in Kept,
           EnqueueSampled(anchors)
    PROVE  Balance'
<1>1. PICK enter \in Picks(Len(anchors)) :
        /\ Enter([k \in DOMAIN enter |-> anchors[enter[k]]])
        /\ density' = [density EXCEPT !.anchors = @ + Len(enter)]
        /\ skips' = skips (+) ProcsOf(anchors, DOMAIN anchors \ Range(enter))
        /\ called' = called (+) ProcsOf(anchors, DOMAIN anchors)
  BY DEF EnqueueSampled
<1>2. Len(anchors) \in Nat /\ DOMAIN anchors = 1..Len(anchors)
  OBVIOUS
<1>3. PICK n \in 0..Len(anchors) : /\ enter \in [1..n -> 1..Len(anchors)]
                                   /\ \A i, j \in 1..n : i < j => enter[i] < enter[j]
  BY DEF Picks
<1>4. n \in Nat /\ Len(enter) = n /\ DOMAIN enter = 1..n
  BY <1>2, <1>3
<1> DEFINE t == [k \in DOMAIN enter |-> anchors[enter[k]]]
<1>5. /\ t \in Seq(Anchor) /\ Len(t) = n /\ \A k \in 1..n : t[k] = anchors[enter[k]]
      /\ \A k \in DOMAIN t : t[k] \in Kept
  <2>1. \A k \in 1..n : anchors[enter[k]] \in Anchor /\ anchors[enter[k]] \in Kept
    BY <1>2, <1>3
  <2> QED
    BY <1>4, <2>1
<1>6. log' = log \o t
  BY <1>1 DEF Enter
<1> HIDE DEF t
<1>7. Counts /\ Counts'
  <2>1. \A i \in DOMAIN anchors : anchors[i].proc \in Procs
    BY DEF Kept
  <2> QED
    BY <2>1, CountsHold, SampledGrows
<1>8. /\ \A p \in Procs : Amount(t, About(p)) = 0
      /\ Amount(t, Attested) = 0 /\ Number(t, Kept) = n
  BY <1>5, KeptTellsNothing
<1>9. ASSUME NEW p \in Procs
      PROVE  Copies(p, called') + Copies(p, skips) =
                Copies(p, called) + Copies(p, skips') + Number(t, KeptOf(p)) + Amount(t, About(p))
  <2> DEFINE skip == DOMAIN anchors \ Range(enter)
             bag == ProcsOf(anchors, skip)
             every == ProcsOf(anchors, DOMAIN anchors)
             c == Copies(p, called)
             k == Copies(p, skips)
             x == Those(anchors, skip, p)
             y == Those(anchors, DOMAIN anchors, p)
             z == Number(t, KeptOf(p))
  <2>1. skip \in SUBSET DOMAIN anchors /\ DOMAIN anchors \in SUBSET DOMAIN anchors
    OBVIOUS
  <2>2. IsABag(bag) /\ IsABag(every) /\ IsABag(skips) /\ IsABag(called)
    BY <1>7, <2>1, BagOfProcs DEF Counts
  <2>3. Copies(p, bag) = x /\ Copies(p, every) = y
    BY <2>1, CopiesOfProcs
  <2>4. z \in Nat /\ x \in Nat /\ y = z + x
    <3>1. /\ enter \in [1..n -> DOMAIN anchors] /\ n \in Nat
          /\ \A i, j \in 1..n : i < j => enter[i] < enter[j]
      BY <1>2, <1>3, <1>4
    <3>2. LetIn(anchors, enter, n, t, skip)
      BY <1>5, <3>1 DEF LetIn
    <3> HIDE DEF skip, x, y, z
    <3>3. /\ Number(t, KeptOf(p)) \in Nat /\ Those(anchors, skip, p) \in Nat
          /\ Those(anchors, DOMAIN anchors, p) = Number(t, KeptOf(p)) + Those(anchors, skip, p)
      BY <3>2, EnteredOrSkipped
    <3> QED
      BY <3>3 DEF x, y, z
  <2> HIDE DEF bag, every, skip
  <2>5. c \in Nat /\ k \in Nat /\ Copies(p, called') = c + y /\ Copies(p, skips') = k + x
    BY <1>1, <2>2, <2>3, CopiesSum DEF bag, every, skip
  <2>6. Amount(t, About(p)) = 0
    BY <1>8
  <2> HIDE DEF c, k, x, y, z
  <2>7. (c + y) + k = c + (k + x) + z + 0
    BY <2>4, <2>5
  <2> QED
    BY <2>5, <2>6, <2>7 DEF c, k, z
<1>10. density.anchors + Number(t, Kept) = density'.anchors + Amount(t, Attested)
  <2>1. density.anchors \in Nat /\ density'.anchors = density.anchors + n
    BY <1>1, <1>4, <1>7 DEF Counts
  <2> QED
    BY <1>4, <1>8, <2>1
<1>11. Entered(t)
  BY <1>9, <1>10 DEF Entered
<1> QED
  BY <1>5, <1>6, <1>7, <1>11, BalanceGoesOn


\* A mint of a procedure of the class, and the same with another value or as a root.
LEMMA KeptMade ==
    ASSUME IInv, NEW m, m.proc \in Procs, NEW k \in Nat \ {0}, minted + k <= MaxMints
    PROVE  AnchorOf(m, k) \in Kept
<1>1. level \in 0..3 /\ minted \in Nat /\ m.proc \in AnchorProcs
  BY TypesOf DEF AnchorProcs
<1>2. AnchorOf(m, k) \in Anchor /\ AnchorOf(m, k).proc = m.proc /\ AnchorOf(m, k).stage = "none"
  BY <1>1, MadeAnchor
<1> QED
  BY <1>2 DEF Kept

\* A value, a cleared model and the mark of a root leave a mint what it is.
LEMMA KeptChanged ==
    ASSUME NEW c \in Kept, NEW v \in Nat, NEW n \in 0..MaxMints
    PROVE  /\ [c EXCEPT !.value = v] \in Kept
           /\ [c EXCEPT !.value = v, !.model = FALSE] \in Kept
           /\ [c EXCEPT !.chain = n, !.stage = "initiated"] \in Kept
BY DEF Kept, Anchor, Stages

LEMMA KeptValued ==
    ASSUME IInv, NEW p \in Procs, NEW v \in Nat, NEW k \in Nat \ {0}, minted + k <= MaxMints
    PROVE  Valued(p, k, v) \in Kept /\ Lowered(p, k, v) \in Kept
<1> DEFINE c == AnchorOf(MintOf(p), k)
<1>1. c \in Kept
  BY KeptMade, PlainMint
<1>2. Valued(p, k, v) = [c EXCEPT !.value = v]
  BY Zenon DEF Valued
<1>3. Lowered(p, k, v) = [c EXCEPT !.value = v, !.model = FALSE]
  BY Zenon DEF Lowered
<1>4. 0 \in 0..MaxMints
  BY TypesOf
<1> HIDE DEF c
<1>5. [c EXCEPT !.value = v] \in Kept /\ [c EXCEPT !.value = v, !.model = FALSE] \in Kept
  BY <1>1, <1>4, KeptChanged
<1> QED
  BY <1>2, <1>3, <1>5

LEMMA KeptRoot ==
    ASSUME IInv, NEW p \in Procs, minted + 1 <= MaxMints
    PROVE  Root(p) \in Kept
<1> DEFINE c == AnchorOf(MintOf(p), 1)
<1>1. c \in Kept
  BY KeptMade, PlainMint
<1>2. Root(p) = [c EXCEPT !.chain = minted + 1, !.stage = "initiated"]
  BY Zenon DEF Root
<1>3. minted + 1 \in 0..MaxMints /\ 0 \in Nat
  BY TypesOf
<1> HIDE DEF c
<1>4. [c EXCEPT !.chain = minted + 1, !.stage = "initiated"] \in Kept
  BY <1>1, <1>3, KeptChanged
<1> QED
  BY <1>2, <1>4

\* What a method mints.
KeptSeq(anchors) == anchors \in Seq(Anchor) /\ \A i \in DOMAIN anchors : anchors[i] \in Kept

\* A call with one anchor, and with two.
LEMMA KeptOne == ASSUME NEW a \in Kept PROVE KeptSeq(<<a>>)
<1>1. a \in Anchor
  BY DEF Kept
<1> QED
  BY <1>1 DEF KeptSeq

LEMMA KeptTwo == ASSUME NEW a \in Kept, NEW b \in Kept PROVE KeptSeq(<<a, b>>)
<1>1. a \in Anchor /\ b \in Anchor
  BY DEF Kept
<1> QED
  BY <1>1 DEF KeptSeq

\* A method that hands what it mints to _enqueueSampled.
LEMMA CallBalance ==
    ASSUME IInv, ~stopped, Balance, NEW anchors, KeptSeq(anchors), EnqueueSampled(anchors)
    PROVE  Balance'
BY SampledBalance DEF KeptSeq

\* The methods that do so, one by one.
LEMMA WitnessBalance ==
    ASSUME IInv, ~stopped, Balance, NEW m \in Methods, Witness(m)
    PROVE  Balance'
<1> DEFINE a == AnchorOf(m, 1)
<1>1. m.proc \in Procs
  BY MethodsAssumption DEF Procs
<1>2. minted + 1 <= MaxMints /\ EnqueueSampled(<<a>>)
  BY TypesOf DEF Witness
<1>3. a \in Kept
  BY <1>1, <1>2, KeptMade
<1> HIDE DEF a
<1>4. KeptSeq(<<a>>)
  BY <1>3, KeptOne
<1> QED
  BY <1>2, <1>4, CallBalance

LEMMA RecordBalance ==
    ASSUME IInv, ~stopped, Balance, Record
    PROVE  Balance'
<1> DEFINE anchors == [k \in DOMAIN Inference |-> AnchorOf(Inference[k], k)]
<1>1. Len(Inference) \in Nat /\ DOMAIN Inference = 1..Len(Inference)
  BY InferenceAssumption
<1>2. minted + Len(Inference) <= MaxMints /\ EnqueueSampled(anchors)
  BY DEF Record
<1>3. ASSUME NEW k \in DOMAIN Inference PROVE AnchorOf(Inference[k], k) \in Kept
  <2>1. Inference[k] \in InferenceMints
    BY InferenceAssumption
  <2>2. InferenceMints \subseteq Surface
    BY DEF Surface
  <2>3. Inference[k].proc \in Procs
    BY <2>1, <2>2 DEF Procs
  <2>4. k \in Nat \ {0} /\ minted + k <= MaxMints
    BY <1>1, <1>2, TypesOf
  <2> QED
    BY <2>3, <2>4, KeptMade
<1>4. Kept \subseteq Anchor
  BY DEF Kept
<1>5. KeptSeq(anchors)
  BY <1>1, <1>3, <1>4 DEF KeptSeq
<1> HIDE DEF anchors
<1> QED
  BY <1>2, <1>5, CallBalance

LEMMA VerifyTrustBalance ==
    ASSUME IInv, ~stopped, Balance, VerifyTrust
    PROVE  Balance'
<1> DEFINE a == AnchorOf(MintOf("AI-TRUST.1"), 1)
           b == AnchorOf(MintOf("AI-TRUST.2"), 2)
<1>1. {"AI-TRUST.1", "AI-TRUST.2"} \subseteq Procs
  BY DEF Procs
<1>2. minted + 1 <= MaxMints /\ minted + 2 <= MaxMints /\ EnqueueSampled(<<a, b>>)
  BY TypesOf DEF VerifyTrust
<1>3. a \in Kept /\ b \in Kept
  BY <1>1, <1>2, KeptMade, PlainMint
<1> HIDE DEF a, b
<1>4. KeptSeq(<<a, b>>)
  BY <1>3, KeptTwo
<1> QED
  BY <1>2, <1>4, CallBalance

LEMMA BeginBalance ==
    ASSUME IInv, ~stopped, Balance,
           NEW p \in Begun \cup {"AI-INCIDENT.1"}, NEW incident, BeginLifecycle(p, incident)
    PROVE  Balance'
<1> DEFINE r == Root(p)
<1>1. p \in Procs /\ minted + 1 <= MaxMints /\ EnqueueSampled(<<r>>)
  BY BegunProcs, TypesOf DEF BeginLifecycle
<1>2. r \in Kept
  BY <1>1, KeptRoot
<1> HIDE DEF r
<1>3. KeptSeq(<<r>>)
  BY <1>2, KeptOne
<1> QED
  BY <1>1, <1>3, CallBalance

LEMMA HandOffBalance ==
    ASSUME IInv, ~stopped, Balance, NEW t \in TrustLevels, HandOff(t)
    PROVE  Balance'
<1> DEFINE effective == Effective(Append(trust, t))
           head == HandoffAnchor(effective)
           tail == DegradationAnchors(ChainEffectiveTrustLevel, effective)
           anchors == <<head>> \o tail
<1>1. effective \in Nat
  <2>1. /\ trust' = Append(trust, t) /\ trust' \in Seq(TrustLevels) /\ trust' # <<>>
    BY TrustTyped DEF HandOff
  <2> QED
    BY <2>1, EffectiveTyped
<1>2. CASE UNCHANGED session
  BY <1>2, BalanceStays DEF session
<1>3. CASE minted + Len(anchors) <= MaxMints /\ EnqueueSampled(anchors)
  <2>1. head = Valued("AI-CHAIN.1", 1, effective)
    BY Zenon DEF HandoffAnchor, Valued
  <2>2. tail = <<>> \/ tail = <<Lowered("AI-CHAIN.2", 2, effective)>>
    BY Zenon DEF DegradationAnchors, Lowered
  <2> DEFINE low == Lowered("AI-CHAIN.2", 2, effective)
  <2>3. tail = <<>> \/ tail = <<low>>
    BY <2>2
  <2> HIDE DEF effective, head, tail, low
  <2>4. minted + 1 <= MaxMints /\ (tail = <<low>> => minted + 2 <= MaxMints)
    <3>1. CASE tail = <<>>
      <4>1. Len(anchors) = 1 /\ tail # <<low>>
        BY <3>1
      <4> QED
        BY <1>3, <4>1, TypesOf
    <3>2. CASE tail = <<low>>
      <4>1. Len(anchors) = 2
        BY <3>2
      <4> QED
        BY <1>3, <4>1, TypesOf
    <3> QED
      BY <2>3, <3>1, <3>2
  <2>5. head \in Kept
    BY <1>1, <2>1, <2>4, KeptValued, TrustProcs
  <2>6. KeptSeq(anchors)
    <3>1. CASE tail = <<>>
      <4>1. anchors = <<head>>
        BY <3>1
      <4> QED
        BY <2>5, <4>1, KeptOne
    <3>2. CASE tail = <<low>>
      <4>1. low \in Kept
        BY <1>1, <2>4, <3>2, KeptValued, TrustProcs DEF low
      <4>2. anchors = <<head, low>>
        BY <3>2, Joins
      <4> QED
        BY <2>5, <4>1, <4>2, KeptTwo
    <3> QED
      BY <2>3, <3>1, <3>2
  <2> HIDE DEF anchors
  <2> QED
    BY <1>3, <2>6, CallBalance
<1> QED
  BY <1>2, <1>3 DEF HandOff

LEMMA PolicyBalance ==
    ASSUME IInv, ~stopped, Balance, NEW v \in Versions, CheckPolicy(v)
    PROVE  Balance'
<1>1. CASE UNCHANGED session
  BY <1>1, BalanceStays DEF session
<1> DEFINE a == [AnchorOf(MintOf("AI-METAGOV.3"), 1) EXCEPT !.value = v]
<1>2. CASE minted < MaxMints /\ EnqueueSampled(<<a>>)
  <2>1. a = Valued("AI-METAGOV.3", 1, v)
    BY Zenon DEF Valued
  <2>2. v \in Nat /\ minted + 1 <= MaxMints
    BY <1>2, TypesOf, TrustAssumption
  <2> HIDE DEF a
  <2>3. a \in Kept
    BY <2>1, <2>2, KeptValued, TrustProcs
  <2>4. KeptSeq(<<a>>)
    BY <2>3, KeptOne
  <2> QED
    BY <1>2, <2>4, CallBalance
<1> QED
  BY <1>1, <1>2 DEF CheckPolicy

\* Anchors that the books do not know: of flush, gate and revocation, or of a later stage.
Unbooked(anchors) ==
    /\ anchors \in Seq(Anchor)
    /\ \A i \in DOMAIN anchors : anchors[i] \notin Kept /\ anchors[i].proc \notin Metas

\* They are neither counted nor tell of a count.
LEMMA UnbookedTellNothing ==
    ASSUME NEW t, Unbooked(t)
    PROVE  /\ \A p : Number(t, KeptOf(p)) = 0 /\ Amount(t, About(p)) = 0
           /\ Number(t, Kept) = 0 /\ Amount(t, Attested) = 0
<1>1. t \in Seq(Anchor)
  BY DEF Unbooked
<1>2. \A i \in DOMAIN t : /\ t[i] \notin Kept /\ t[i] \notin Attested
                          /\ \A p : t[i] \notin KeptOf(p) /\ t[i] \notin About(p)
  BY DEF Unbooked, Metas, Attested, KeptOf, About
<1>3. \A p : Number(t, KeptOf(p)) = 0 /\ Amount(t, About(p)) = 0
  <2> TAKE p
  <2>1. \A i \in DOMAIN t : t[i] \notin KeptOf(p)
    BY <1>2
  <2>2. \A i \in DOMAIN t : t[i] \notin About(p)
    BY <1>2
  <2>3. Number(t, KeptOf(p)) = 0
    BY <1>1, <2>1, NoneOfKind
  <2>4. Amount(t, About(p)) = 0
    BY <1>1, <2>2, NoneOfKind
  <2> QED
    BY <2>3, <2>4
<1>4. Number(t, Kept) = 0 /\ Amount(t, Attested) = 0
  BY <1>1, <1>2, NoneOfKind
<1> QED
  BY <1>3, <1>4

\* Such anchors change nothing in what a step shows.
LEMMA EnteredWithAside ==
    ASSUME NEW a \in Seq(Anchor), NEW b, Unbooked(b), Entered(a)
    PROVE  a \o b \in Seq(Anchor) /\ Entered(a \o b)
<1>1. b \in Seq(Anchor)
  BY DEF Unbooked
<1> DEFINE t == a \o b
<1>2. t \in Seq(Anchor)
  BY <1>1
<1>3. \A p : Number(b, KeptOf(p)) = 0 /\ Amount(b, About(p)) = 0
  BY UnbookedTellNothing
<1>4. Number(b, Kept) = 0 /\ Amount(b, Attested) = 0
  BY UnbookedTellNothing
<1>5. ASSUME NEW p PROVE Number(t, KeptOf(p)) = Number(a, KeptOf(p)) /\ Amount(t, About(p)) = Amount(a, About(p))
  <2>1. /\ Number(a, KeptOf(p)) \in Nat
        /\ Number(t, KeptOf(p)) = Number(a, KeptOf(p)) + Number(b, KeptOf(p))
    BY <1>1, NumberJoins
  <2>2. /\ Amount(a, About(p)) \in Nat
        /\ Amount(t, About(p)) = Amount(a, About(p)) + Amount(b, About(p))
    BY <1>1, AmountJoins
  <2>3. Number(b, KeptOf(p)) = 0 /\ Amount(b, About(p)) = 0
    BY <1>3
  <2> QED
    BY <2>1, <2>2, <2>3
<1>6. Number(t, Kept) = Number(a, Kept) /\ Amount(t, Attested) = Amount(a, Attested)
  <2>1. Number(a, Kept) \in Nat /\ Number(t, Kept) = Number(a, Kept) + Number(b, Kept)
    BY <1>1, NumberJoins
  <2>2. /\ Amount(a, Attested) \in Nat
        /\ Amount(t, Attested) = Amount(a, Attested) + Amount(b, Attested)
    BY <1>1, AmountJoins
  <2> QED
    BY <1>4, <2>1, <2>2
<1> HIDE DEF t
<1>7. Entered(t)
  BY <1>5, <1>6 DEF Entered
<1> QED
  BY <1>2, <1>7 DEF t

\* A step that counts nothing.
LEMMA NothingEntered ==
    ASSUME Counts, UNCHANGED <<skips, called, density>>
    PROVE  <<>> \in Seq(Anchor) /\ Entered(<<>>)
<1> DEFINE t == <<>>
<1>1. t \in Seq(Anchor) /\ DOMAIN t = {}
  OBVIOUS
<1> HIDE DEF t
<1>2. \A i \in DOMAIN t : t[i] \in Kept
  BY <1>1
<1>3. Number(t, Kept) = 0 /\ Amount(t, Attested) = 0
  BY <1>1, NoneOfKind
<1>4. ASSUME NEW p PROVE Number(t, KeptOf(p)) = 0 /\ Amount(t, About(p)) = 0
  BY <1>1, NoneOfKind
<1>5. \A p : Copies(p, called) \in Nat /\ Copies(p, skips) \in Nat
  BY CopiesTyped DEF Counts
<1>6. density.anchors \in Nat
  BY DEF Counts
<1>7. UNCHANGED density.anchors /\ \A p : UNCHANGED <<Copies(p, called), Copies(p, skips)>>
  BY DEF Copies
<1>8. Entered(t)
  BY <1>3, <1>4, <1>5, <1>6, <1>7 DEF Entered
<1> QED
  BY <1>1, <1>8 DEF t

\* A step that gives the buffer such anchors and counts nothing.
LEMMA AsideBalance ==
    ASSUME IInv, Balance, NEW t, Unbooked(t), log' = log \o t,
           UNCHANGED <<skips, called, density>>
    PROVE  Balance'
<1>1. Counts
  BY CountsHold
<1>2. Counts'
  BY <1>1 DEF Counts, SkipsFinite, Skipped
<1>3. t \in Seq(Anchor)
  BY DEF Unbooked
<1>4. <<>> \in Seq(Anchor) /\ Entered(<<>>)
  BY <1>1, NothingEntered
<1>5. Entered(<<>> \o t)
  BY <1>4, EnteredWithAside
<1>6. <<>> \o t = t
  BY <1>3
<1> QED
  BY <1>2, <1>3, <1>5, <1>6, BalanceGoesOn

\* gateCheck and revoke.
LEMMA DirectBalance ==
    ASSUME IInv, ~stopped, Balance, NEW m \in GateMints \cup RevocationMints, EnqueueDirect(m)
    PROVE  Balance'
<1> DEFINE a == AnchorOf(m, 1)
<1>1. m.proc \in {"AI-GRD.3", "AI-REV.1"}
  BY DEF GateMints, RevocationMints, Shaped
<1>2. log' = log \o <<a>> /\ UNCHANGED <<skips, called, density>>
  BY DEF EnqueueDirect, Enter
<1>3. /\ level \in 0..3 /\ minted \in Nat /\ minted + 1 <= MaxMints /\ m.proc \in AnchorProcs
  BY <1>1, TypesOf DEF EnqueueDirect, AnchorProcs
<1>4. a \in Anchor /\ a.proc = m.proc
  BY <1>3, MadeAnchor
<1>5. a.proc \notin Procs /\ a.proc \notin Metas
  BY <1>1, <1>4, ProcsOutside DEF Outside, Metas
<1> HIDE DEF a
<1>6. Unbooked(<<a>>)
  BY <1>4, <1>5 DEF Unbooked, Kept
<1> QED
  BY <1>2, <1>6, AsideBalance

\* The stages after the first.
Later == {"checkpoint", "escalated", "resolved", "abandoned"}

\* An anchor of a later stage is one of them.
LEMMA StageUnbooked ==
    ASSUME IInv, NEW h \in DOMAIN handles, NEW stage \in Later,
           NEW k \in Nat \ {0}, minted + k <= MaxMints
    PROVE  Unbooked(<<StageAnchor(h, stage, k)>>)
<1> DEFINE c == AnchorOf(MintOf(handles[h].proc), k)
<1>1. handles[h].proc \in Procs /\ handles[h].chain \in 0..MaxMints /\ handles[h].last \in 0..MaxMints
  BY HandleTyped
<1>2. c \in Kept /\ c.proc = handles[h].proc
  <2>1. c \in Kept
    BY <1>1, KeptMade, PlainMint
  <2>2. c.proc = handles[h].proc
    BY DEF AnchorOf, MintOf
  <2> QED
    BY <2>1, <2>2
<1>3. StageAnchor(h, stage, k) = [c EXCEPT !.model = FALSE, !.chain = handles[h].chain,
                                           !.parent = handles[h].last, !.stage = stage]
  BY Zenon DEF StageAnchor
<1> DEFINE b == [c EXCEPT !.model = FALSE, !.chain = handles[h].chain,
                          !.parent = handles[h].last, !.stage = stage]
<1> HIDE DEF c
<1>4. b \in Anchor /\ b.proc \in Procs /\ b.stage = stage
  BY <1>1, <1>2 DEF Kept, Anchor, Later, Stages
<1> HIDE DEF b
<1>5. b \notin Kept /\ b.proc \notin Metas
  BY <1>4, ProcsOutside DEF Kept, Later, Metas, Outside
<1>6. Unbooked(<<b>>)
  BY <1>4, <1>5 DEF Unbooked
<1> QED
  BY <1>3, <1>6 DEF b

\* checkpoint, resolve, abandon, and escalate of an incident.
LEMMA StageBalance ==
    ASSUME IInv, ~stopped, Balance, NEW h \in DOMAIN handles, NEW stage \in Later,
           MintStage(h, stage)
    PROVE  Balance'
<1> DEFINE t == <<StageAnchor(h, stage, 1)>>
<1>1. log' = log \o t /\ UNCHANGED <<skips, called, density>> /\ minted + 1 <= MaxMints
  BY TypesOf DEF MintStage, Enter
<1>2. Unbooked(t)
  BY <1>1, StageUnbooked
<1> HIDE DEF t
<1> QED
  BY <1>1, <1>2, AsideBalance

\* One copy more in a bag.
LEMMA CopyMore ==
    ASSUME NEW A, IsABag(A), NEW p, NEW q
    PROVE  /\ Copies(q, A) \in Nat
           /\ Copies(q, A (+) SetToBag({p})) = Copies(q, A) + (IF q = p THEN 1 ELSE 0)
<1>1. IsABag(SetToBag({p})) /\ Copies(q, SetToBag({p})) = IF q = p THEN 1 ELSE 0
  BY DEF SetToBag, IsABag, Copies
<1> DEFINE B == SetToBag({p})
<1> HIDE DEF B
<1>2. IsABag(B) /\ Copies(q, B) = IF q = p THEN 1 ELSE 0
  BY <1>1 DEF B
<1>3. Copies(q, A) \in Nat /\ Copies(q, A (+) B) = Copies(q, A) + Copies(q, B)
  BY <1>2, CopiesSum
<1> QED
  BY <1>2, <1>3 DEF B

\* The root of the target chain enters.
LEMMA RootEntered ==
    ASSUME IInv, NEW p \in Procs, minted + 1 <= MaxMints,
           density'.anchors = density.anchors + 1, UNCHANGED skips,
           called' = called (+) SetToBag({p})
    PROVE  <<Root(p)>> \in Seq(Anchor) /\ Entered(<<Root(p)>>)
<1> DEFINE r == Root(p)
           t == <<r>>
<1>1. r \in Kept /\ r.proc = p
  <2>1. r \in Kept
    BY KeptRoot
  <2>2. r.proc = p
    BY DEF Root, AnchorOf, MintOf
  <2> QED
    BY <2>1, <2>2
<1>2. Counts
  BY CountsHold
<1> HIDE DEF r
<1>3. t \in Seq(Anchor) /\ Len(t) = 1 /\ DOMAIN t = {1} /\ t[1] = r
  BY <1>1 DEF Kept
<1> HIDE DEF t
<1>4. \A i \in DOMAIN t : t[i] \in Kept
  BY <1>1, <1>3
<1>5. /\ \A q \in Procs : Amount(t, About(q)) = 0
      /\ Amount(t, Attested) = 0 /\ Number(t, Kept) = 1
  BY <1>3, <1>4, KeptTellsNothing
<1>6. ASSUME NEW q \in Procs
      PROVE  Copies(q, called') + Copies(q, skips) =
                Copies(q, called) + Copies(q, skips') + Number(t, KeptOf(q)) + Amount(t, About(q))
  <2>1. Number(t, KeptOf(q)) = IF q = p THEN 1 ELSE 0
    <3>1. CASE q = p
      <4>1. Where(t, KeptOf(q)) = {1}
        BY <1>1, <1>3, <3>1 DEF Where, KeptOf
      <4>2. Cardinality({1}) = 1
        BY FS_Singleton
      <4> QED
        BY <3>1, <4>1, <4>2 DEF Number
    <3>2. CASE q # p
      <4>1. \A i \in DOMAIN t : t[i] \notin KeptOf(q)
        BY <1>1, <1>3, <3>2 DEF KeptOf
      <4> QED
        BY <1>3, <3>2, <4>1, NoneOfKind
    <3> QED
      BY <3>1, <3>2
  <2>2. /\ Copies(q, called) \in Nat
        /\ Copies(q, called') = Copies(q, called) + (IF q = p THEN 1 ELSE 0)
    BY <1>2, CopyMore DEF Counts
  <2>3. Copies(q, skips) \in Nat /\ Copies(q, skips') = Copies(q, skips)
    BY <1>2, CopiesTyped DEF Counts, Copies
  <2>4. Amount(t, About(q)) = 0
    BY <1>5
  <2> QED
    BY <2>1, <2>2, <2>3, <2>4
<1>7. density.anchors \in Nat
  BY <1>2 DEF Counts
<1>8. Entered(t)
  BY <1>5, <1>6, <1>7 DEF Entered
<1> QED
  BY <1>3, <1>8 DEF t, r

\* The root of the target chain is sampled out.
LEMMA RootSkipped ==
    ASSUME IInv, NEW p \in Procs, density'.anchors = density.anchors,
           skips' = skips (+) SetToBag({p}), called' = called (+) SetToBag({p})
    PROVE  <<>> \in Seq(Anchor) /\ Entered(<<>>)
<1> DEFINE t == <<>>
<1>1. t \in Seq(Anchor) /\ DOMAIN t = {}
  OBVIOUS
<1>2. Counts
  BY CountsHold
<1> HIDE DEF t
<1>3. Number(t, Kept) = 0 /\ Amount(t, Attested) = 0
  BY <1>1, NoneOfKind
<1>4. ASSUME NEW q PROVE Number(t, KeptOf(q)) = 0 /\ Amount(t, About(q)) = 0
  BY <1>1, NoneOfKind
<1>5. ASSUME NEW q
      PROVE  Copies(q, called') + Copies(q, skips) =
                Copies(q, called) + Copies(q, skips') + Number(t, KeptOf(q)) + Amount(t, About(q))
  <2>1. /\ Copies(q, called) \in Nat
        /\ Copies(q, called') = Copies(q, called) + (IF q = p THEN 1 ELSE 0)
    BY <1>2, CopyMore DEF Counts
  <2>2. /\ Copies(q, skips) \in Nat
        /\ Copies(q, skips') = Copies(q, skips) + (IF q = p THEN 1 ELSE 0)
    BY <1>2, CopyMore DEF Counts
  <2> QED
    BY <1>4, <2>1, <2>2
<1>6. density.anchors \in Nat
  BY <1>2 DEF Counts
<1>7. Entered(t)
  BY <1>3, <1>5, <1>6 DEF Entered
<1> QED
  BY <1>1, <1>7 DEF t

\* escalate: the root of the target chain is counted, the anchor of one's own is not.
LEMMA EscalateBalance ==
    ASSUME IInv, IInv', ~stopped, Balance, NEW h \in DOMAIN handles, NEW p \in Begun, Escalate(h, p)
    PROVE  Balance'
<1> DEFINE RootIn(fate) == IF fate = "enter" THEN <<Root(p)>> ELSE <<>>
           own == IF handles[h].closed THEN <<>> ELSE <<StageAnchor(h, "escalated", 2)>>
<1>1. PICK fate \in Fates(p) :
        /\ Enter(RootIn(fate) \o own)
        /\ density' = [density EXCEPT !.anchors = @ + Len(RootIn(fate))]
        /\ skips' = IF RootIn(fate) = <<>> THEN skips (+) SetToBag({p}) ELSE skips
  BY DEF Escalate
<1> DEFINE root == RootIn(fate)
<1>2. p \in Procs /\ minted + 2 <= MaxMints /\ minted + 1 <= MaxMints
  BY BegunProcs, TypesOf DEF Escalate
<1>3. called' = called (+) SetToBag({p})
  BY DEF Escalate
<1>4. density.anchors \in Nat /\ density' = [density EXCEPT !.anchors = @ + Len(root)]
      /\ density \in [anchors : Nat, tokens : 0..MaxTokens, started : 0..MaxTime,
                      attested : -1..MaxTime]
  BY <1>1, CountsHold DEF Counts
<1>5. Counts'
  BY DEF IInv, TypeOK, SessionTypeOK, Counts
<1>6. Unbooked(own)
  <2>1. CASE handles[h].closed
    <3>1. own = <<>>
      BY <2>1
    <3> HIDE DEF own
    <3> QED
      BY <3>1 DEF Unbooked
  <2>2. CASE ~handles[h].closed
    <3>1. own = <<StageAnchor(h, "escalated", 2)>>
      BY <2>2
    <3> HIDE DEF own
    <3> QED
      BY <1>2, <3>1, StageUnbooked DEF Later
  <2> QED
    BY <2>1, <2>2
<1>7. log' = log \o (root \o own)
  BY <1>1 DEF Enter
<1>8. root \in Seq(Anchor) /\ Entered(root)
  <2>1. CASE fate = "enter"
    <3>1. root = <<Root(p)>>
      BY <2>1
    <3>2. skips' = skips /\ Len(root) = 1
      <4>1. RootIn(fate) # <<>>
        BY <2>1
      <4> QED
        BY <1>1, <3>1, <4>1
    <3> HIDE DEF root
    <3>3. density'.anchors = density.anchors + 1
      BY <1>4, <3>2
    <3> QED
      BY <1>2, <1>3, <3>1, <3>2, <3>3, RootEntered
  <2>2. CASE fate # "enter"
    <3>1. root = <<>>
      BY <2>2
    <3>2. skips' = skips (+) SetToBag({p}) /\ Len(root) = 0
      BY <1>1, <3>1
    <3> HIDE DEF root
    <3>3. density'.anchors = density.anchors
      BY <1>4, <3>2
    <3> QED
      BY <1>2, <1>3, <3>1, <3>2, <3>3, RootSkipped
  <2> QED
    BY <2>1, <2>2
<1> HIDE DEF root, own
<1>9. root \o own \in Seq(Anchor) /\ Entered(root \o own)
  BY <1>6, <1>8, EnteredWithAside
<1> QED
  BY <1>5, <1>7, <1>9, BalanceGoesOn

-----------------------------------------------------------------------------
\* A summary tells of each skipped procedure what its count was.
LEMMA SummariesSay ==
    ASSUME IInv, NEW order \in Orders(Skipped), NEW k \in Nat,
           minted + k + Cardinality(Skipped) <= MaxMints
    PROVE  LET n == Cardinality(Skipped)
               t == Summaries(order, k)
           IN  /\ n \in Nat /\ order \in [1..n -> Skipped] /\ t \in Seq(Anchor) /\ Len(t) = n
               /\ \A i \in 1..n : /\ t[i].proc = "AI-SAMPLE.1" /\ t[i].about = order[i]
                                  /\ t[i].value = skips[order[i]]
<1> DEFINE n == Cardinality(Skipped)
           t == Summaries(order, k)
           made(i) == [AnchorOf(MintOf("AI-SAMPLE.1"), k + i) EXCEPT
                          !.value = skips[order[i]], !.about = order[i]]
<1>1. n \in Nat /\ order \in [1..n -> Skipped]
  BY FS_CardinalityType DEF Orders, IInv, SkipsFinite
<1>2. Len(order) = n
  BY <1>1
<1>3. ASSUME NEW i \in 1..n
      PROVE  /\ made(i) \in Anchor /\ made(i).proc = "AI-SAMPLE.1"
             /\ made(i).about = order[i] /\ made(i).value = skips[order[i]]
  <2> DEFINE a == AnchorOf(MintOf("AI-SAMPLE.1"), k + i)
  <2>1. /\ k + i \in Nat \ {0} /\ minted + (k + i) <= MaxMints
        /\ level \in 0..3 /\ minted \in Nat
    BY <1>1, TypesOf
  <2>2. a \in Anchor /\ a.proc = "AI-SAMPLE.1"
    BY <2>1, MadeAnchor, PlainMint DEF AnchorProcs, Metas
  <2>3. order[i] \in Skipped /\ skips[order[i]] \in Nat /\ order[i] \in Procs
    BY <1>1, CountsHold DEF Counts, Skipped, IsABag
  <2> HIDE DEF a
  <2>4. [a EXCEPT !.value = skips[order[i]], !.about = order[i]] \in Anchor
    BY <2>2, <2>3 DEF Anchor
  <2>5. /\ [a EXCEPT !.value = skips[order[i]], !.about = order[i]].proc = "AI-SAMPLE.1"
        /\ [a EXCEPT !.value = skips[order[i]], !.about = order[i]].about = order[i]
        /\ [a EXCEPT !.value = skips[order[i]], !.about = order[i]].value = skips[order[i]]
    BY <2>2, <2>3 DEF Anchor
  <2> QED
    BY <2>4, <2>5 DEF a
<1>4. t = [i \in 1..n |-> made(i)]
  BY <1>2 DEF Summaries
<1> HIDE DEF made, t
<1>5. t \in Seq(Anchor) /\ Len(t) = n /\ \A i \in 1..n : t[i] = made(i)
  BY <1>1, <1>3, <1>4
<1>6. \A i \in 1..n : /\ t[i].proc = "AI-SAMPLE.1" /\ t[i].about = order[i]
                      /\ t[i].value = skips[order[i]]
  BY <1>3, <1>5
<1> QED
  BY <1>1, <1>5, <1>6 DEF t

\* Every skipped procedure has one place in the order.
LEMMA OrderOnce ==
    ASSUME IInv, NEW order \in Orders(Skipped)
    PROVE  \A i, j \in 1..Cardinality(Skipped) : order[i] = order[j] => i = j
<1> DEFINE n == Cardinality(Skipped)
<1>1. n \in Nat /\ order \in [1..n -> Skipped] /\ IsFiniteSet(Skipped)
  BY FS_CardinalityType DEF Orders, IInv, SkipsFinite
<1>2. \A p \in Skipped : \E i \in 1..n : order[i] = p
  BY <1>1 DEF Orders
<1>3. order \in Surjection(1..n, Skipped)
  BY <1>1, <1>2 DEF Surjection
<1>4. IsFiniteSet(1..n) /\ Cardinality(1..n) = n
  BY <1>1, FS_Interval
<1> HIDE DEF n
<1>5. Cardinality(1..n) = Cardinality(Skipped)
  BY <1>4 DEF n
<1>6. order \in Injection(1..n, Skipped)
  BY <1>1, <1>3, <1>4, <1>5, FS_Surjection
<1> QED
  BY <1>6 DEF Injection, IsInjective, n

\* What summaries tell of a procedure, in all: what was skipped of it.
LEMMA SummariesTell ==
    ASSUME IInv, NEW order \in Orders(Skipped), NEW k \in Nat,
           minted + k + Cardinality(Skipped) <= MaxMints, NEW p
    PROVE  Amount(Summaries(order, k), About(p)) = Copies(p, skips)
<1> DEFINE n == Cardinality(Skipped)
           t == Summaries(order, k)
           v == Saying(t, About(p))
<1>1. /\ n \in Nat /\ order \in [1..n -> Skipped] /\ t \in Seq(Anchor) /\ Len(t) = n
      /\ \A i \in 1..n : /\ t[i].proc = "AI-SAMPLE.1" /\ t[i].about = order[i]
                         /\ t[i].value = skips[order[i]]
  BY SummariesSay
<1>2. \A i, j \in 1..n : order[i] = order[j] => i = j
  BY OrderOnce
<1>3. \A q \in Skipped : \E i \in 1..n : order[i] = q
  BY <1>1 DEF Orders
<1> HIDE DEF n, t
<1>4. DOMAIN t = 1..n /\ \A i \in 1..n : t[i] \in Anchor
  BY <1>1
<1>5. \A i \in 1..n : t[i] \in About(p) <=> order[i] = p
  BY <1>1, <1>4 DEF About
<1>6. /\ v \in Seq(Nat) /\ Len(v) = n /\ DOMAIN v = 1..n
      /\ \A i \in 1..n : v[i] = IF order[i] = p THEN skips[p] ELSE 0
  <2>1. /\ v \in Seq(Nat) /\ Len(v) = Len(t) /\ DOMAIN v = DOMAIN t
        /\ \A i \in DOMAIN t : v[i] = IF t[i] \in About(p) THEN t[i].value ELSE 0
    BY <1>1, SayingTyped
  <2> HIDE DEF v
  <2> QED
    BY <1>1, <1>4, <1>5, <2>1
<1> HIDE DEF v
<1>7. Total(v) = Copies(p, skips)
  <2>1. CASE p \in Skipped
    <3>1. PICK j \in 1..n : order[j] = p
      BY <1>3, <2>1
    <3>2. \A i \in DOMAIN v : i # j => v[i] = 0
      BY <1>2, <1>6, <3>1
    <3>3. j \in Nat /\ j # 0 /\ j <= Len(v) /\ v[j] = skips[p]
      BY <1>1, <1>6, <3>1
    <3>4. Total(v) = v[j]
      BY <1>6, <3>2, <3>3, TotalOfOne
    <3> QED
      BY <2>1, <3>3, <3>4 DEF Copies, Skipped
  <2>2. CASE p \notin Skipped
    <3>1. \A i \in DOMAIN v : v[i] = 0
      BY <1>1, <1>6, <2>2
    <3>2. 0 <= Len(v)
      BY <1>1, <1>6
    <3>3. Total(v) = 0
      BY <1>6, <3>1, <3>2, TotalOfOne
    <3> QED
      BY <2>2, <3>3 DEF Copies, Skipped
  <2> QED
    BY <2>1, <2>2
<1> QED
  BY <1>7 DEF Amount, v, t

\* What an attestation tells: the anchors of its window.
LEMMA AttestationTells ==
    ASSUME IInv, Expected # 0, minted + 1 <= MaxMints
    PROVE  /\ Attestation \in Seq(Anchor) /\ Len(Attestation) = 1
           /\ Attestation[1] \in Attested
           /\ Amount(Attestation, Attested) = density.anchors
<1> DEFINE c == AnchorOf(MintOf("AI-DENSITY.1"), 1)
           a == [c EXCEPT !.value = density.anchors]
           t == Attestation
<1>1. level \in 0..3 /\ minted \in Nat /\ density.anchors \in Nat
  BY TypesOf, CountsHold DEF Counts
<1>2. c \in Anchor /\ c.proc = "AI-DENSITY.1"
  BY <1>1, MadeAnchor, PlainMint DEF AnchorProcs, Metas
<1>3. t = <<a>>
  BY DEF Attestation
<1> HIDE DEF c, t
<1>4. a \in Anchor /\ a.proc = "AI-DENSITY.1" /\ a.value = density.anchors
  BY <1>1, <1>2 DEF Anchor
<1> HIDE DEF a
<1>5. t \in Seq(Anchor) /\ Len(t) = 1 /\ DOMAIN t = {1} /\ t[1] = a /\ t[1] \in Attested
  BY <1>3, <1>4 DEF Attested
<1> DEFINE v == Saying(t, Attested)
<1>6. v \in Seq(Nat) /\ Len(v) = 1 /\ v[1] = density.anchors
  <2>1. /\ v \in Seq(Nat) /\ Len(v) = Len(t)
        /\ \A i \in DOMAIN t : v[i] = IF t[i] \in Attested THEN t[i].value ELSE 0
    BY <1>5, SayingTyped
  <2> HIDE DEF v
  <2> QED
    BY <1>4, <1>5, <2>1
<1> HIDE DEF v
<1>7. \A i \in DOMAIN v : i # 1 => v[i] = 0
  BY <1>6
<1>8. Total(v) = density.anchors
  BY <1>6, <1>7, TotalOfOne
<1> QED
  BY <1>5, <1>8 DEF Amount, v, t

\* flush: what the counts told is told in the buffer instead.
LEMMA FlushBalance ==
    ASSUME IInv, IInv', ~stopped, Balance, Flush
    PROVE  Balance'
<1>1. PICK order \in Orders(Skipped) : Enter(Attestation \o Summaries(order, Len(Attestation)))
  BY DEF Flush
<1>2. /\ Cardinality(Skipped) \in Nat /\ Len(Attestation) \in Nat
      /\ minted + Len(Attestation) + Cardinality(Skipped) <= MaxMints
  <2>1. Cardinality(Skipped) \in Nat
    BY FS_CardinalityType DEF IInv, SkipsFinite
  <2>2. Len(Attestation) \in Nat
    BY DEF Attestation
  <2> QED
    BY <2>1, <2>2 DEF Flush
<1>3. Counts /\ Counts'
  BY CountsHold DEF IInv, TypeOK, SessionTypeOK, Counts
<1>4. /\ skips' = EmptyBag /\ UNCHANGED called
      /\ density' = IF Expected = 0 THEN density
                    ELSE [anchors |-> 0, tokens |-> 0, started |-> clock, attested |-> clock]
  BY DEF Flush
<1> DEFINE head == Attestation
           tail == Summaries(order, Len(Attestation))
           t == head \o tail
<1>5. /\ head \in Seq(Anchor) /\ (\A i \in DOMAIN head : head[i] \in Attested)
      /\ Amount(head, Attested) = IF Expected = 0 THEN 0 ELSE density.anchors
  <2>1. CASE Expected = 0
    <3>1. head = <<>>
      BY <2>1 DEF Attestation
    <3> HIDE DEF head
    <3>2. head \in Seq(Anchor) /\ DOMAIN head = {}
      BY <3>1
    <3>3. Amount(head, Attested) = 0
      BY <3>2, NoneOfKind
    <3> QED
      BY <2>1, <3>2, <3>3
  <2>2. CASE Expected # 0
    <3>1. Len(Attestation) = 1
      BY <2>2 DEF Attestation
    <3>2. minted + 1 <= MaxMints
      BY <1>2, <3>1, TypesOf
    <3>3. /\ head \in Seq(Anchor) /\ Len(head) = 1 /\ head[1] \in Attested
          /\ Amount(head, Attested) = density.anchors
      BY <2>2, <3>2, AttestationTells
    <3> HIDE DEF head
    <3>4. DOMAIN head = {1}
      BY <3>3
    <3> QED
      BY <2>2, <3>3, <3>4
  <2> QED
    BY <2>1, <2>2
<1>6. minted + Len(Attestation) \in Nat /\ minted \in Nat
  BY <1>2, TypesOf
<1>7. /\ tail \in Seq(Anchor) /\ \A i \in DOMAIN tail : tail[i].proc = "AI-SAMPLE.1"
  <2>1. LET n == Cardinality(Skipped)
        IN  /\ tail \in Seq(Anchor) /\ Len(tail) = n
            /\ \A i \in 1..n : tail[i].proc = "AI-SAMPLE.1"
    BY <1>2, <1>6, SummariesSay
  <2> HIDE DEF tail
  <2> QED
    BY <2>1
<1>8. \A p : Amount(tail, About(p)) = Copies(p, skips)
  BY <1>2, <1>6, SummariesTell
<1>9. log' = log \o t
  BY <1>1 DEF Enter
<1> HIDE DEF head, tail
<1>10. "AI-SAMPLE.1" \notin Procs /\ "AI-DENSITY.1" \notin Procs
  BY ProcsOutside DEF Outside
<1>11. /\ \A i \in DOMAIN head : head[i] \notin Kept
       /\ \A i \in DOMAIN tail : tail[i] \notin Kept /\ tail[i] \notin Attested
  BY <1>5, <1>7, <1>10 DEF Kept, Attested
<1>12. \A p : /\ \A i \in DOMAIN head : head[i] \notin KeptOf(p) /\ head[i] \notin About(p)
              /\ \A i \in DOMAIN tail : tail[i] \notin KeptOf(p)
  BY <1>5, <1>11 DEF KeptOf, About, Attested
<1>13. /\ Number(head, Kept) = 0 /\ Number(tail, Kept) = 0 /\ Amount(tail, Attested) = 0
  BY <1>5, <1>7, <1>11, NoneOfKind
<1>14. ASSUME NEW p
       PROVE  Number(head, KeptOf(p)) = 0 /\ Number(tail, KeptOf(p)) = 0 /\ Amount(head, About(p)) = 0
  BY <1>5, <1>7, <1>12, NoneOfKind
<1>15. ASSUME NEW p
       PROVE  Number(t, KeptOf(p)) = 0 /\ Amount(t, About(p)) = Copies(p, skips)
  <2>1. Number(t, KeptOf(p)) = Number(head, KeptOf(p)) + Number(tail, KeptOf(p))
    BY <1>5, <1>7, NumberJoins
  <2>2. Amount(t, About(p)) = Amount(head, About(p)) + Amount(tail, About(p))
    BY <1>5, <1>7, AmountJoins
  <2>3. Copies(p, skips) \in Nat /\ Amount(tail, About(p)) = Copies(p, skips)
    BY <1>3, <1>8, CopiesTyped DEF Counts
  <2> QED
    BY <1>14, <2>1, <2>2, <2>3
<1>16. Number(t, Kept) = 0 /\ Amount(t, Attested) = IF Expected = 0 THEN 0 ELSE density.anchors
  <2>1. Number(t, Kept) = Number(head, Kept) + Number(tail, Kept)
    BY <1>5, <1>7, NumberJoins
  <2>2. Amount(t, Attested) = Amount(head, Attested) + Amount(tail, Attested)
    BY <1>5, <1>7, AmountJoins
  <2>3. density.anchors \in Nat
    BY <1>3 DEF Counts
  <2> QED
    BY <1>5, <1>13, <2>1, <2>2, <2>3
<1>17. t \in Seq(Anchor)
  BY <1>5, <1>7
<1> HIDE DEF t
<1>18. \A p : Copies(p, skips') = 0 /\ Copies(p, called') = Copies(p, called)
  BY <1>4 DEF Copies, EmptyBag, SetToBag
<1>19. ASSUME NEW p \in Procs
       PROVE  Copies(p, called') + Copies(p, skips) =
                Copies(p, called) + Copies(p, skips') + Number(t, KeptOf(p)) + Amount(t, About(p))
  <2>1. Copies(p, called) \in Nat /\ Copies(p, skips) \in Nat
    BY <1>3, CopiesTyped DEF Counts
  <2>2. Number(t, KeptOf(p)) = 0 /\ Amount(t, About(p)) = Copies(p, skips)
    BY <1>15
  <2>3. Copies(p, skips') = 0 /\ Copies(p, called') = Copies(p, called)
    BY <1>18
  <2> QED
    BY <2>1, <2>2, <2>3
<1>20. density.anchors + Number(t, Kept) = density'.anchors + Amount(t, Attested)
  <2>1. density.anchors \in Nat
    BY <1>3 DEF Counts
  <2> QED
    BY <1>4, <1>16, <2>1
<1>21. Entered(t)
  BY <1>19, <1>20 DEF Entered
<1> QED
  BY <1>3, <1>9, <1>17, <1>21, BalanceGoesOn

\* The books go on from step to step, until stop().
LEMMA SessionBalance ==
    ASSUME IInv, IInv', ~stopped, ~stopped', Balance, SessionNext
    PROVE  Balance'
<1>1. CASE \E m \in Methods : Witness(m)
  BY <1>1, WitnessBalance
<1>2. CASE Record \/ VerifyTrust
  BY <1>2, RecordBalance, VerifyTrustBalance
<1>3. CASE GateCheck \/ Revoke
  BY <1>3, DirectBalance DEF GateCheck, Revoke
<1>4. CASE RecordSessionTokens
  <2>1. density \in [anchors : Nat, tokens : 0..MaxTokens, started : 0..MaxTime,
                     attested : -1..MaxTime]
    BY CountsHold DEF Counts
  <2>2. density'.anchors = density.anchors
    BY <1>4, <2>1 DEF RecordSessionTokens
  <2> QED
    BY <1>4, <2>2, BalanceStays DEF RecordSessionTokens
<1>5. CASE Flush
  BY <1>5, FlushBalance
<1>6. CASE Stop
  BY <1>6 DEF Stop
<1>7. CASE Tick \/ (\E s \in Scopes : BeginScope(s)) \/ \E i \in DOMAIN scopes : EndScope(i)
  BY <1>7, BalanceStays DEF Tick, BeginScope, EndScope
<1> QED
  BY <1>1, <1>2, <1>3, <1>4, <1>5, <1>6, <1>7 DEF SessionNext

\* The steps of lifecycle and incident chains.
LEMMA LifecycleBalance ==
    ASSUME IInv, IInv', ~stopped, Balance, LifecycleNext
    PROVE  Balance'
<1>1. ASSUME NEW p \in Begun \cup {"AI-INCIDENT.1"}, NEW incident, BeginLifecycle(p, incident)
      PROVE  Balance'
  BY <1>1, BeginBalance
<1>2. ASSUME NEW h \in DOMAIN handles, NEW last, NEW count, Resume(h, last, count)
      PROVE  Balance'
  BY <1>2, BalanceStays DEF Resume, session
<1>3. ASSUME NEW h \in DOMAIN handles,
             Checkpoint(h) \/ Resolve(h) \/ Abandon(h) \/ EscalateIncident(h)
      PROVE  Balance'
  BY <1>3, StageBalance DEF Checkpoint, Resolve, Abandon, EscalateIncident, Later
<1>4. ASSUME NEW h \in DOMAIN handles, NEW p \in Begun, Escalate(h, p)
      PROVE  Balance'
  BY <1>4, EscalateBalance
<1> QED
  BY <1>1, <1>2, <1>3, <1>4 DEF LifecycleNext

\* Only stop() stops the buffer.
LEMMA OthersStop == LifecycleNext \/ TrustNext => UNCHANGED stopped
BY DEF LifecycleNext, BeginLifecycle, Resume, Checkpoint, Resolve, Abandon, EscalateIncident,
       MintStage, Escalate, TrustNext, HandOff, CheckPolicy, session

\* At first nothing is counted and the buffer is empty.
LEMMA AccountsInit == WitnessInit => AccountsInv
<1> SUFFICES ASSUME WitnessInit PROVE Balance
  BY DEF AccountsInv
<1>1. /\ log \in Seq(Anchor) /\ DOMAIN log = {} /\ density.anchors = 0
      /\ \A p : Copies(p, skips) = 0 /\ Copies(p, called) = 0
  BY DEF WitnessInit, Init, Copies, EmptyBag, SetToBag
<1>2. ASSUME NEW p PROVE Number(log, KeptOf(p)) = 0 /\ Amount(log, About(p)) = 0
  BY <1>1, NoneOfKind
<1>3. Number(log, Kept) = 0 /\ Amount(log, Attested) = 0
  BY <1>1, NoneOfKind
<1> QED
  BY <1>1, <1>2, <1>3 DEF Balance

\* Every step that does not stop the buffer keeps the books.
LEMMA AccountsNext == IInv /\ IInv' /\ AccountsInv /\ [WitnessNext]_vars => AccountsInv'
<1> SUFFICES ASSUME IInv, IInv', AccountsInv, [WitnessNext]_vars, ~stopped' PROVE Balance'
  BY DEF AccountsInv
<1>1. ~stopped
  BY SessionStops, OthersStop DEF vars, session, WitnessNext
<1>2. Balance
  BY <1>1 DEF AccountsInv
<1>3. CASE UNCHANGED vars
  BY <1>2, <1>3, BalanceStays DEF vars, session
<1>4. CASE SessionNext
  BY <1>1, <1>2, <1>4, SessionBalance
<1>5. CASE LifecycleNext
  BY <1>1, <1>2, <1>5, LifecycleBalance
<1>6. CASE TrustNext
  BY <1>1, <1>2, <1>6, HandOffBalance, PolicyBalance DEF TrustNext
<1> QED
  BY <1>3, <1>4, <1>5, <1>6 DEF WitnessNext

\* The books, as the property reads them from the buffer.
LEMMA BooksAccount == IInv /\ AccountsInv => Accounted
<1> SUFFICES ASSUME IInv, Balance PROVE SkipsAccounted /\ DensityAccounted
  BY DEF AccountsInv, Accounted, SkipsAccounted, DensityAccounted
<1>1. log \in Seq(Anchor) /\ Counts
  BY TypesOf, CountsHold
<1>2. \A i \in DOMAIN log : log[i] \in Anchor
  BY <1>1
<1>3. SampledAt = Where(log, Kept)
  BY <1>2 DEF SampledAt, Where, Kept
<1>4. Told(Attestations) = Amount(log, Attested)
  <2>1. \A i \in DOMAIN log : i \in Attestations <=> log[i] \in Attested
    BY <1>2 DEF Attestations, Attested
  <2>2. [i \in DOMAIN log |-> IF i \in Attestations THEN log[i].value ELSE 0] = Saying(log, Attested)
    BY <2>1 DEF Saying
  <2> QED
    BY <2>2 DEF Told, Amount
<1>5. DensityAccounted
  BY <1>3, <1>4 DEF DensityAccounted, Balance, Number
<1>6. ASSUME NEW p \in DOMAIN called \cup Skipped
      PROVE  Copies(p, called) = Cardinality({i \in SampledAt : log[i].proc = p})
                                 + Copies(p, skips) + Told(SummariesOf(p))
  <2>1. p \in Procs
    BY <1>1 DEF Counts, Skipped
  <2>2. {i \in SampledAt : log[i].proc = p} = Where(log, KeptOf(p))
    BY <1>3 DEF Where, KeptOf
  <2>3. \A i \in DOMAIN log : i \in SummariesOf(p) <=> log[i] \in About(p)
    BY <1>2 DEF SummariesOf, About
  <2>4. [i \in DOMAIN log |-> IF i \in SummariesOf(p) THEN log[i].value ELSE 0]
            = Saying(log, About(p))
    BY <2>3 DEF Saying
  <2>5. Told(SummariesOf(p)) = Amount(log, About(p))
    BY <2>4 DEF Told, Amount
  <2> QED
    BY <2>1, <2>2, <2>5 DEF Balance, Number
<1> QED
  BY <1>5, <1>6 DEF SkipsAccounted

\* A rate hides anchors, never their number: until stop(), however calls, flushes,
\* escalations and stages follow each other, every anchor given to _enqueueSampled is
\* in the buffer, in the count of a summary there or in the count of the next one; and
\* the windows that AI-DENSITY.1 attests divide the anchors that entered.
\* (witness.ts, _enqueueSampled, _emitSamplingSummaries and flush)
THEOREM AccountedAlways == Spec => []Accounted
<1>1. Spec => []AccountsInv
  BY AccountsInit, AccountsNext, IInvAlways, PTL DEF Spec
<1> QED
  BY <1>1, BooksAccount, IInvAlways, PTL
=============================================================================
