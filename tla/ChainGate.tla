------------------------------- MODULE ChainGate -------------------------------
(***************************************************************************)
(* ChainGate: the gate before a tool of an MCP server runs.  It looks for  *)
(* the anchors of the agent and of the cycle in the server's own index,    *)
(* asks the ledger when it finds none, judges what it has and denies by    *)
(* posting an anchor of its own.                                           *)
(* Source: packages/swt3-mcp/src/chain-verifier.ts, density-policy.ts and  *)
(* chainGate of server.ts.                                                 *)
(***************************************************************************)
EXTENDS AnchorIndex

CONSTANTS
    Callers,             \* who calls a tool: args.agent_id, args.cycle_id
    TokenCounts,         \* args.input_tokens
    MaxGap,              \* config.maxChainGapSeconds
    SigningKey,          \* config.signingKey is set
    PerThousand,         \* policy.min_anchors_per_1000_tokens
    RequiredProviders,   \* policy.required_providers
    PolicyGap,           \* policy.max_chain_gap_seconds
    RequireSigning       \* policy.require_signing_key

ASSUME PolicyAssumption ==
    /\ {MaxGap, PerThousand, PolicyGap} \cup TokenCounts \subseteq Nat
    /\ {SigningKey, RequireSigning} \subseteq BOOLEAN
    /\ Callers \subseteq [agent : Agents \cup {NoOne}, cycle : Cycles \cup {NoOne}]

gateVars == <<stream, group, acked, clock, readerVars>>

---------------------------------------------------------------------------
\* Definitions marked "Fault:" are the same code with one mistake in it.  They are no
\* part of the specification: each is what some property rules out.

\* Fault: the verdict is not read from the message either.
FromStreamBare(id) == [stream[id] EXCEPT !.target = FALSE, !.verdict = NoOne]

(* parseStreamMessage: the target of a revocation is not a field of the stream. *)
FromStream(id) == [stream[id] EXCEPT !.target = FALSE]

(* Two epochs next to each other, more than max apart. *)
Gapped(epochs, max) ==
    \E e \in epochs :
        /\ \E f \in epochs : f > e
        /\ ~\E f \in epochs : f > e /\ f <= e + max

Epochs(ids) == {stream[id].epoch : id \in ids}

(* evaluatePolicy.  chainGate passes no trust level: rule 5 is never evaluated. *)
Compliant(ids, tokens) ==
    /\ tokens > 0 /\ PerThousand > 0 => Cardinality(ids) * 1000 >= tokens * PerThousand
    /\ RequiredProviders \subseteq {stream[id].provider : id \in ids}
    /\ PolicyGap > 0 => ~Gapped(Epochs(ids), PolicyGap)
    /\ RequireSigning => \A id \in ids : stream[id].signature # "absent"

(* evaluateChain, of messages as the verifier was given them; there is one at least. *)
Valid(given, tokens) ==
    LET ids == DOMAIN given
        own == {id \in ids : given[id].proc # "AI-REV.1"} IN
    /\ \A id \in ids \ own : ~given[id].target
    /\ \A id \in own : given[id].verdict # "FAIL"
    /\ ~Gapped(Epochs(ids), MaxGap)
    /\ clock - Max(Epochs(ids)) <= MaxGap
    /\ RequireSigning /\ SigningKey => \A id \in own : given[id].signature = "good"
    /\ Compliant(own, tokens)

(* What the gate says when the index has an anchor to judge. *)
Admits(s, agent, cycle, tokens) ==
    LET found == QueryAnchors(s, agent, cycle)
    IN  found # {} /\ Valid([id \in found |-> FromStream(id)], tokens)

(* queryLedger, external: recent anchors of the agent and the cycle, or none for any *)
(* reason.                                                                           *)
InLedger(agent, cycle) ==
    {id \in DOMAIN stream : /\ stream[id].wellFormed
                            /\ agent # NoOne => stream[id].agent = agent
                            /\ cycle # NoOne => stream[id].cycle = cycle}

(* What verifyAnchorChain may say: on the index, or if it has nothing, on the ledger. *)
Judgements(s, agent, cycle, tokens) ==
    IF {agent, cycle} = {NoOne} \/ QueryAnchors(s, agent, cycle) # {}
    THEN {Admits(s, agent, cycle, tokens)}
    ELSE {found # {} /\ Valid([id \in found |-> stream[id]], tokens) :
            found \in SUBSET InLedger(agent, cycle)}

Denial(agent, cycle) ==
    [proc |-> "AI-TRUST.1", verdict |-> "FAIL", agent |-> agent, cycle |-> cycle,
     provider |-> NoOne, signature |-> IF SigningKey THEN "good" ELSE "absent",
     target |-> FALSE, wellFormed |-> TRUE]

(* chainGate: an admitted call goes on; a denial is posted if the caller has a name, and *)
(* may reach the stream or not.                                                          *)
Verify(s, agent, cycle, tokens) ==
    /\ life[s] # "gone"
    /\ \E admitted \in Judgements(s, agent, cycle, tokens) :
        \/ UNCHANGED stream
        \/ ~admitted /\ {agent, cycle} # {NoOne} /\ Reach(Denial(agent, cycle))
    /\ UNCHANGED <<group, acked, clock, readerVars>>

GateNext ==
    \/ IndexNext
    \/ \E s \in Servers, by \in Callers, tokens \in TokenCounts :
        Verify(s, by.agent, by.cycle, tokens)

GateSpec == IndexInit /\ [][GateNext]_gateVars

---------------------------------------------------------------------------
(***************************************************************************)
(* A failure is not forgotten: a server does not admit an agent, or what   *)
(* it does in one cycle, on what its index holds while a failed anchor of  *)
(* that agent and cycle it was given, one of its own denials perhaps, is   *)
(* young enough and has fewer than MaxEntries younger ones after it.       *)
(* Source: chain-verifier.ts:74 over redis-reader.ts:268.                  *)
(***************************************************************************)
FreshFailures(s, agent, cycle) ==
    {i \in DOMAIN seen[s] :
        LET m == stream[seen[s][i].id] IN
        /\ m.agent = agent /\ cycle \in {m.cycle, NoOne}
        /\ m.verdict = "FAIL" /\ m.proc # "AI-REV.1"
        /\ Len(seen[s]) - i < MaxEntries
        /\ clock - seen[s][i].at <= TTL}

FailureRemembered ==
    \A s \in Servers, agent \in Agents \ {NoOne}, cycle \in Cycles \cup {NoOne} :
        FreshFailures(s, agent, cycle) # {} =>
            \A tokens \in TokenCounts : ~Admits(s, agent, cycle, tokens)

(***************************************************************************)
(* A chain with a revocation in it is not valid.  chain-verifier.ts:11     *)
(* says of the flow: "Check each anchor: not revoked, verdict=PASS, within *)
(* gap limit".  The code reads the target of a revocation from a field     *)
(* that the messages of the stream do not have.                            *)
(***************************************************************************)
RevokedNotValid ==
    \A s \in Servers, agent \in Agents \ {NoOne} :
        (\E tokens \in TokenCounts : Admits(s, agent, NoOne, tokens)) =>
            \A id \in QueryAnchors(s, agent, NoOne) : ~stream[id].target
===============================================================================
