--------------------------- MODULE MCThreadedBuffer ---------------------------
(* Instances of ThreadedBuffer for TLC: two payloads, two callers. *)
EXTENDS ThreadedBuffer

CONSTANTS p1, p2, c1, c2, daemon

MCPayload == {p1, p2}
MCCaller == {c1, c2}
MCOneCaller == {c1}
=============================================================================
