------------------------------- MODULE MCChainGate -------------------------------
EXTENDS ChainGate

CONSTANTS s1, s2, k1, k2

MCStarts == {k1, k2}

\* Two requests of one HTTP server at once, or two servers with a request each.
OneProcess == {s1}
OneHome == (k1 :> s1) @@ (k2 :> s1)
TwoProcesses == {s1, s2}
TwoHomes == (k1 :> s1) @@ (k2 :> s2)
Symmetry == Permutations({k1, k2})

Anchor == [proc |-> "AI-INF.1", verdict |-> "PASS", agent |-> "agent", cycle |-> "cycle",
           provider |-> "openai", signature |-> "good", target |-> FALSE, wellFormed |-> TRUE]

MCRecords ==
    {Anchor,
     [Anchor EXCEPT !.wellFormed = FALSE]}

\* Failed anchors are the denials of the gate, which are not of the cycle of the others.
MCCallers == {[agent |-> "agent", cycle |-> NoOne]}

Revocation ==
    [Anchor EXCEPT !.proc = "AI-REV.1", !.verdict = NoOne, !.provider = NoOne, !.target = TRUE]

RevokedRecords == {Anchor, Revocation}
===============================================================================
