-------------------------------- MODULE Witness --------------------------------
(* A session with everything that mints: the methods, chains of both kinds. *)
EXTENDS LifecycleChains, ChainTrust

vars == <<session, handles, trust, lastKnownGood>>

WitnessInit == Init /\ LifecycleInit /\ TrustInit
WitnessNext ==
    \/ SessionNext /\ UNCHANGED <<handles, trust, lastKnownGood>>
    \/ LifecycleNext /\ UNCHANGED <<trust, lastKnownGood>>
    \/ TrustNext /\ UNCHANGED handles
Spec == WitnessInit /\ [][WitnessNext]_vars

TypeOK ==
    /\ SessionTypeOK
    /\ handles \in Seq(Handle)
    /\ trust \in Seq(TrustLevels) /\ lastKnownGood \in Versions \cup {0}
================================================================================
