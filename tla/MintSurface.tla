----------------------------- MODULE MintSurface -----------------------------
EXTENDS Integers

(***************************************************************************)
(* The witness methods of witness.ts, one family for each stretch of the   *)
(* class.  A method computes three factors from its options, clears what   *)
(* the clearing level does not let out, applies the operational metadata   *)
(* and hands the anchor to _enqueueSampled.  What a method does with the   *)
(* anchor is a mint:                                                       *)
(*   meta      "applied"  _applyOperationalMetadata: the anchor is bound   *)
(*                        to the agent, the cycle and the signing key, and *)
(*                        its procedure enters _witnessedProcedures        *)
(*             "inline"   bound to them by the method's own lines (or by   *)
(*                        clearing.ts), the procedure is not noted         *)
(*             "none"     none of it                                       *)
(*   context   the highest clearing level that leaves ai_context on it     *)
(*   model     the highest level that leaves ai_model_id on it in clear    *)
(* The factors, the wording of ai_context and the code tables are          *)
(* abstracted: no property depends on them.                                *)
(***************************************************************************)

Shape == [meta : {"applied", "inline", "none"}, context : -1..3, model : -1..3]

Shaped(procs, meta, context, model) ==
    {[proc |-> p, meta |-> meta, context |-> context, model |-> model] : p \in procs}

\* What nearly every method does.
Mint(procs) == Shaped(procs, "applied", 1, 1)
\* The metadata copied field by field, without _applyOperationalMetadata.
Inline(procs) == Shaped(procs, "inline", 1, 1)
\* A reduced ai_context and the model are still let out at level 2.
Reduced(procs) == Shaped(procs, "applied", 2, 2)
\* No call of _applyOperationalMetadata.
Bare(procs) == Shaped(procs, "none", 1, 1)

SecurityMints == Inline({"AI-SEC.1", "AI-SEC.2"})
RagMints == Mint({"AI-RAG.1", "AI-RAG.2"})
WeightMints == Mint({"AI-MDL.5", "AI-MDL.6", "AI-MDL.7"})
SkillMints == Mint({"AI-SKILL.1", "AI-SKILL.2", "AI-SKILL.3"})
HardwareMints == Mint({"AI-HW.1", "AI-HW.3"})
ContainmentMints == Reduced({"AI-SHELL.1"})
EnvironmentMints == Mint({"AI-ENV.1", "AI-ENV.2"})
ContentMints == Mint({"AI-MARK.1", "AI-BASE.1"})
ComponentMints == Mint({"AI-LIC.1", "AI-SBOM.1"})
CampaignMints == Mint({"AI-REDTEAM.1", "AI-CONSENT.1"})
DelegationMints == Mint({"AI-MULTI.1", "AI-DEL.1"})
MonitorMints == Mint({"AI-DRIFT.1", "AI-AUDIT.1", "AI-INCIDENT.1"})
DataMints == Mint({"AI-DATA.1", "AI-GRD.2"})
TrajectoryMints == Reduced({"AI-MOB.6"})
BenchmarkMints == Mint({"AI-PERF.1", "AI-ROBUST.1", "AI-CYBER.1"})
DisclosureMints == Mint({"AI-TRANS.1", "AI-WATERMARK.1", "AI-DPIA.1"})
DecisionMints == Mint({"AI-AUTO.1", "AI-AUTO.2", "AI-AUDIT.2"})
RiskMints == Mint({"AI-DUALUSE.1", "AI-SUPPLY.1", "AI-PMM.1"})
CredentialMints ==
    Mint({"NHI-SCOPE.1", "NHI-CYCLE.1", "NHI-PRIV.1", "NHI-ROTATE.1", "NHI-AGENT.1"})
CredentialEndMints == Mint({"NHI-REVOKE.1", "NHI-EXPIRE.1"})
HardwareBillMints ==
    Mint({"HBOM-INV.1", "HBOM-LIFE.1", "HBOM-THERM.1", "HBOM-WATER.1", "HBOM-PUE.1"})
ConstructionMints == Mint({"HBOM-SUPPLY.1", "CON-STR.1", "CON-INS.1"})
SiteMints == Mint({"CON-ENV.1", "AI-TOOL.1", "AI-SAFE.1"})
BatteryMints ==
    Mint({"AI-MDL.2", "DPP-SOH.1", "DPP-CHRG.1", "DPP-DEGRAD.1", "DPP-EOL.1"})
GridMints ==
    Mint({"ADR-EVENT.1", "ADR-BASE.1", "ADR-CURT.1", "ADR-SETTLE.1", "ADR-CARBON.1"})
OrchestrationMints ==
    Mint({"ADR-GRID.1", "AI-ORCH.1", "AI-ORCH.2", "AI-CTX.1"})
SandboxMints == Mint({"AI-SAND.1", "AI-SAND.2", "AI-GATE.1", "AI-CHAIN.1"})
ReviewMints == Mint({"AI-VIO.1", "AI-CHR.1", "AI-MDL.8", "AI-HITL.3"})
SafetyMints == Mint({"AI-SAFE.1", "AI-SAFE.2", "AI-DATA.3"})
FairnessMints == Mint({"AI-DATA.4", "AI-FAIR.3", "AI-METAGOV.1"})
GovernanceMints == Mint({"AI-METAGOV.2", "AI-METAGOV.5"})
OverrideMints == Mint({"AI-METAGOV.6", "AI-METAGOV.7", "AI-METAGOV.8"})
BoundaryMints == Mint({"AI-DEL.2", "AI-DEL.3"})
ServerMints == Mint({"AI-MCP.1", "AI-MCP.2", "AI-MCP.3"})
DiscoveryMints == Mint({"AI-MCP.4", "AI-MCP.5"})
TaskMints == Mint({"AI-A2A.1", "AI-A2A.2"})
ContextMints == Mint({"AI-A2A.3", "AI-DIST.1"})
ProvenanceMints == Mint({"AI-MCP.6", "AI-PROV.1"})
FrameworkMints == Mint({"AI-RISK.1", "AI-GOV.1", "AI-GOV.2"})
AccountabilityMints == Mint({"AI-GOV.3", "AI-GOV.4", "AI-GOV.5", "AI-GOV.6"})
ImpactMints == Mint({"AI-IMPACT.1", "AI-LOG.1", "AI-IR.1"})
EngineeringMints == Bare({"AI-ENG.1", "AI-ENG.2", "AI-ENG.3", "AI-ENG.4"})
FabricationMints == Bare({"AI-ENG.5", "AI-ENG.6"})
TransactionMints == Bare({"AI-FIN.1", "AI-TOOL.2", "AI-LCM.1"})
RoutingMints == Bare({"AI-JUR.1"})
OverseerMints == Mint({"AI-EMRG.1", "AI-DRIFT.2", "AI-ASSESS.1"})
CostMints == Reduced({"AI-COST.1"})
RetirementMints ==
    Mint({"AI-REACH.1", "AI-DECOM.1", "AI-RECOMM.1", "AI-FREEZE.1"})

\* extractPayloads: the anchors record() makes of an inference, of a tool call and
\* of an access.  applyClearingLevel keeps the model in clear at level 2 and hashes
\* it at level 3; a tool call and an access lose it with their context.
InferenceMints ==
    Shaped({"AI-INF.1", "AI-INF.2", "AI-MDL.1", "AI-MDL.2", "AI-GRD.1", "AI-GRD.2", "AI-ID.1"},
           "inline", 1, 2)
CallMints == Inline({"AI-TOOL.1", "AI-ACC.1"})
\* The anchors of the gate, of a revocation: factors and metadata only.
GateMints == Shaped({"AI-GRD.3"}, "inline", -1, -1)
RevocationMints == Shaped({"AI-REV.1"}, "inline", -1, -1)

Surface ==
    UNION {SecurityMints, RagMints, WeightMints, SkillMints, HardwareMints,
           ContainmentMints, EnvironmentMints, ContentMints, ComponentMints,
           CampaignMints, DelegationMints, MonitorMints, DataMints,
           TrajectoryMints, BenchmarkMints, DisclosureMints, DecisionMints,
           RiskMints, CredentialMints, CredentialEndMints, HardwareBillMints,
           ConstructionMints, SiteMints, BatteryMints, GridMints,
           OrchestrationMints, SandboxMints, ReviewMints, SafetyMints,
           FairnessMints, GovernanceMints, OverrideMints, BoundaryMints,
           ServerMints, DiscoveryMints, TaskMints, ContextMints,
           ProvenanceMints, FrameworkMints, AccountabilityMints, ImpactMints,
           EngineeringMints, FabricationMints, TransactionMints, RoutingMints,
           OverseerMints, CostMints, RetirementMints, InferenceMints, CallMints}
=============================================================================
