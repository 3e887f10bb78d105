--------------------------- MODULE MCDurableBuffer ---------------------------
(* Instances of DurableBuffer for TLC: two anchors. *)
EXTENDS DurableBuffer

CONSTANTS a1, a2

MCAnchor == {a1, a2}

\* What is left out is read by no action that changes the log or the places of a
\* payload, and by none of the properties of the run but Buffer!TypeOK.
MCView == <<queue, deadLetter, stopped, flights, accepted, delivered, refused,
            dropped, log, life>>
=============================================================================
