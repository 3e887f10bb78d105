---------------------------- MODULE MCGuardedCalls ----------------------------
EXTENDS GuardedCalls

CONSTANTS c1, c2, c3

MCCalls == {c1, c2, c3}
Symmetry == Permutations(MCCalls)

\* Each call is of a tool, of an answer in one piece or in a stream, or of a Mistral
\* client, whose calls wrap() lets pass by.
MCHooks ==
    [c \in MCCalls |-> OpenAIHooks("openai") \cup ToolCalls
                          \cup {h \in ClientCalls : h.at = "chat.complete"}]

MCRuleOf == [t \in Tools |-> IF t = "watched" THEN "logged" ELSE "run"]
===============================================================================
