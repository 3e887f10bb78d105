--------------------------- MODULE AnchorDelivery ---------------------------
(***************************************************************************)
(* What the SDK's delivery pipeline promises about an anchor, whatever      *)
(* buffers, retries and timers stand behind it.  An anchor the pipeline     *)
(* has accepted is held until it is either delivered, which the endpoint    *)
(* must then have on record, or discarded.  One answer may decide both ways. *)
(* Nothing is accepted after the pipeline closes, nothing is given up and   *)
(* delivered, and no decision is taken back.                                *)
(***************************************************************************)
EXTENDS Naturals

CONSTANT Anchor \* the anchors the application may mint

VARIABLES
    accepted,   \* anchors handed to the pipeline
    delivered,  \* anchors the pipeline counts as delivered
    discarded,  \* anchors the pipeline has given up
    stored,     \* anchors on record at the endpoint
    closed      \* no anchor is accepted any more

vars == <<accepted, delivered, discarded, stored, closed>>

Held == accepted \ (delivered \cup discarded)

Init ==
    /\ accepted = {}
    /\ delivered = {}
    /\ discarded = {}
    /\ stored = {}
    /\ closed = FALSE

\* Taking one more anchor may push anchors out of a store that is full.
Accept(a, pushedOut) ==
    /\ ~closed
    /\ a \notin accepted
    /\ pushedOut \subseteq Held \cup {a}
    /\ accepted' = accepted \cup {a}
    /\ discarded' = discarded \cup pushedOut
    /\ UNCHANGED <<delivered, stored, closed>>

\* A request reaches the endpoint: the first copy, or a late one.
Store(S) ==
    /\ S \subseteq accepted
    /\ stored' = stored \cup S
    /\ UNCHANGED <<accepted, delivered, discarded, closed>>

\* D is delivered, S given up.
Decide(D, S) ==
    /\ D \subseteq Held \cap stored
    /\ S \subseteq Held \ D
    /\ delivered' = delivered \cup D
    /\ discarded' = discarded \cup S
    /\ UNCHANGED <<accepted, stored, closed>>

Close(pushedOut) ==
    /\ pushedOut \subseteq Held
    /\ closed' = TRUE
    /\ discarded' = discarded \cup pushedOut
    /\ UNCHANGED <<accepted, delivered, stored>>

Next ==
    \/ \E a \in Anchor : \E S \in SUBSET Anchor : Accept(a, S)
    \/ \E S \in SUBSET Anchor : Store(S) \/ Close(S)
    \/ \E D, S \in SUBSET Anchor : Decide(D, S)

Spec == Init /\ [][Next]_vars
=============================================================================
