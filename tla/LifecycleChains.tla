---------------------------- MODULE LifecycleChains ----------------------------
(***************************************************************************)
(* Lifecycle chains (witness.ts): a handle mints the anchors of one chain, *)
(* each naming its predecessor, until a terminal stage closes the HANDLE.  *)
(* A chain is named by the fingerprint of its first anchor (its id here).  *)
(* resumeLifecycle makes a second, open handle for a chain, from what the  *)
(* caller remembers of it, and nothing tells the handles of each other.    *)
(***************************************************************************)
EXTENDS WitnessSession

CONSTANTS
    Begun,          \* the procedures a program begins chains for
    MaxHandles      \* bound: handles made

ASSUME BegunAssumption == Begun \subseteq {m.proc : m \in Surface}

VARIABLE handles    \* the LifecycleChain objects, in the order they were made

Handle == [chain : 1..MaxMints, last : 1..MaxMints, count : Nat, closed : BOOLEAN,
           proc : Procs, incident : BOOLEAN]

\* TERMINAL_STAGES.  The incident builder calls "escalated" terminal too, and it is
\* not among them: the handle stays open.
TerminalStages == {"resolved", "abandoned", "superseded"}

NewHandle(p, incident) ==
    [chain |-> minted + 1, last |-> minted + 1, count |-> 1, closed |-> FALSE,
     proc |-> p, incident |-> incident]

\* The first anchor of a chain of its own.
Root(p) == [AnchorOf(MintOf(p), 1) EXCEPT !.chain = minted + 1, !.stage = "initiated"]

(* beginLifecycle, and incidentChain on top of it: the root may be sampled out. *)
BeginLifecycle(p, incident) ==
    /\ minted < MaxMints
    /\ Len(handles) < MaxHandles
    /\ EnqueueSampled(<<Root(p)>>)
    /\ minted' = minted + 1
    /\ Note({MintOf(p)})
    /\ handles' = Append(handles, NewHandle(p, incident))
    /\ UNCHANGED <<level, cycle, scopes, clock, stopped>>

(* resumeLifecycle, with the chain and the last fingerprint some handle has or had. *)
Resume(h, last, count) ==
    /\ Len(handles) < MaxHandles
    /\ last \in {handles[h].chain, handles[h].last}
    /\ count \in {1, handles[h].count}
    /\ handles' = Append(handles, [handles[h] EXCEPT !.last = last, !.count = count,
                                                     !.closed = FALSE, !.incident = FALSE])
    /\ UNCHANGED session

\* Definitions marked "Fault:" are the same code with one mistake in it.  They are no
\* part of the specification: each is what some property rules out.

\* Fault: the handle moves on before the anchor takes its parent from it.
StageAnchorOfItself(h, stage, k) ==
    [AnchorOf(MintOf(handles[h].proc), k) EXCEPT
        !.model = FALSE,
        !.chain = handles[h].chain, !.parent = minted + k, !.stage = stage]

\* The anchor of a handle's next stage, as the k-th of the call.
StageAnchor(h, stage, k) ==
    [AnchorOf(MintOf(handles[h].proc), k) EXCEPT
        !.model = FALSE,
        !.chain = handles[h].chain, !.parent = handles[h].last, !.stage = stage]

\* Fault: the handle still names the anchor before.
AdvancedBehind(h, stage, id) ==
    [handles EXCEPT ![h].count = @ + 1, ![h].closed = @ \/ stage \in TerminalStages]

Advanced(h, stage, id) ==
    [handles EXCEPT ![h].last = id, ![h].count = @ + 1,
                    ![h].closed = @ \/ stage \in TerminalStages]

(* _mint: straight into the buffer, neither sampled nor counted for the density. *)
MintStage(h, stage) ==
    /\ minted < MaxMints
    /\ ~handles[h].closed
    /\ Enter(<<StageAnchor(h, stage, 1)>>)
    /\ minted' = minted + 1
    /\ noted' = noted \cup {handles[h].proc}
    /\ handles' = Advanced(h, stage, minted + 1)
    /\ UNCHANGED <<level, skips, cycle, scopes, clock, density, stopped, called>>

(* checkpoint; investigate and mitigate of an incident. *)
Checkpoint(h) == MintStage(h, "checkpoint")
(* resolve and abandon, of a chain and of an incident. *)
Resolve(h) == MintStage(h, "resolved")
Abandon(h) == MintStage(h, "abandoned")
(* escalate of an incident: no target chain, and the handle stays open. *)
EscalateIncident(h) == handles[h].incident /\ MintStage(h, "escalated")

(* escalate: the target chain is begun first; a closed handle throws only then, and *)
(* the new chain is left without a handle that anyone holds.                        *)
Escalate(h, p) ==
    /\ ~handles[h].incident
    /\ Len(handles) < MaxHandles
    /\ minted + 2 <= MaxMints
    /\ \E fate \in Fates(p) :
        LET root == IF fate = "enter" THEN <<Root(p)>> ELSE <<>>
            own == IF handles[h].closed THEN <<>> ELSE <<StageAnchor(h, "escalated", 2)>>
        IN  /\ Enter(root \o own)
            /\ density' = [density EXCEPT !.anchors = @ + Len(root)]
            /\ skips' = IF root = <<>> THEN skips (+) SetToBag({p}) ELSE skips
            /\ minted' = minted + 1 + Len(own)
            /\ handles' = IF handles[h].closed THEN handles
                          ELSE Append(Advanced(h, "escalated", minted + 2), NewHandle(p, FALSE))
    /\ called' = called (+) SetToBag({p})
    /\ noted' = noted \cup {p} \cup (IF handles[h].closed THEN {} ELSE {handles[h].proc})
    /\ UNCHANGED <<level, cycle, scopes, clock, stopped>>

LifecycleInit == handles = <<>>

LifecycleNext ==
    \/ \E p \in Begun : BeginLifecycle(p, FALSE)
    \/ BeginLifecycle("AI-INCIDENT.1", TRUE)
    \/ \E h \in DOMAIN handles :
        \/ \E last \in 1..MaxMints, count \in 1..MaxMints : Resume(h, last, count)
        \/ Checkpoint(h) \/ Resolve(h) \/ Abandon(h) \/ EscalateIncident(h)
        \/ \E p \in Begun : Escalate(h, p)
---------------------------------------------------------------------------
\* The anchors of a chain that entered the buffer, as positions of the log.
OfChain(c) == {i \in DOMAIN log : log[i].chain = c}

\* A chain is minted through one handle only as long as nobody resumes it.
Alone(c) == \E h \in DOMAIN handles :
               handles[h].chain = c /\ \A g \in DOMAIN handles \ {h} : handles[g].chain # c

\* While one handle mints a chain, its anchors in the buffer form one line: each
\* names the one before it as its parent, only a root that was sampled out is
\* missing, nothing follows one of the code's TERMINAL_STAGES, and the handle's last
\* fingerprint and count are those of the line.  (witness.ts: "Auto-links anchors via
\* lifecycle_chain_id and lifecycle_parent.  Enforces terminal stage finality".)
\* "escalated" is not among TERMINAL_STAGES, although the comment on the escalation of an
\* incident calls it terminal (witness.ts:8197): stages may follow it.
LineOfOneHandle ==
    ~stopped => \A h \in DOMAIN handles : Alone(handles[h].chain) =>
        LET c == handles[h].chain
            line == OfChain(c)
            Before(i) == {j \in line : j < i}
            missing == IF \E i \in line : log[i].id = c THEN 0 ELSE 1
        IN  /\ Cardinality(line) + missing = handles[h].count
            /\ missing = 1 => handles[h].proc \in Sampled \cup Never
            /\ \A i \in line :
                /\ log[i].id = c => Before(i) = {}
                /\ log[i].id # c =>
                        log[i].parent = IF Before(i) = {} THEN c ELSE log[Max(Before(i))].id
                /\ log[i].stage \in TerminalStages => \A j \in line : j <= i
            /\ handles[h].last = IF line = {} THEN c ELSE log[Max(line)].id
            /\ handles[h].closed <=>
                    line # {} /\ log[Max(line)].stage \in TerminalStages

\* What an auditor reads of a chain from the buffer, minted through however many
\* handles, hangs together: every anchor's parent is an older anchor of the same
\* chain, or its root.  Forks are possible, cycles and grafts onto another chain are
\* not.
ParentsOlder ==
    \A i \in DOMAIN log : log[i].parent # 0 =>
        /\ log[i].parent < log[i].id
        /\ log[i].parent = log[i].chain
            \/ \E j \in 1..i - 1 : log[j].id = log[i].parent /\ log[j].chain = log[i].chain
=============================================================================
