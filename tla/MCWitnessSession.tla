--------------------------- MODULE MCWitnessSession ---------------------------
EXTENDS Witness

CONSTANTS s1, s2

\* One method for each shape of the surface, whichever procedure it is for.
MCMethods ==
    {CHOOSE m \in Surface : m.meta = sh.meta /\ m.context = sh.context /\ m.model = sh.model :
        sh \in {[meta |-> m.meta, context |-> m.context, model |-> m.model] :
                    m \in Surface \ InferenceMints}}

\* config.procedures = ["AI-INF.1", "AI-GRD.2"]
MCInference == [k \in 1..2 |-> CHOOSE m \in InferenceMints :
                                   m.proc = IF k = 1 THEN "AI-INF.1" ELSE "AI-GRD.2"]

MCNone == <<>>

MCScopes == {s1, s2}
Symmetry == Permutations(MCScopes)
MCSampled == {"AI-EMRG.1"}
MCNever == {(CHOOSE m \in MCMethods : m.meta = "applied" /\ m.context = 1).proc}
MCBegun == {"AI-EMRG.1"}
===============================================================================
