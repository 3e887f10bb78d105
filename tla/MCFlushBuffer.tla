---------------------------- MODULE MCFlushBuffer ----------------------------
(* An instance of FlushBuffer for TLC: p2 is rejected by the endpoint and has more *)
(* tokens than p1. *)
EXTENDS FlushBuffer

CONSTANTS p1, p2

MCPayload == {p1, p2}
MCConforming == {p1}
MCTokens == [p \in Payload |-> IF p = p2 THEN 2 ELSE 1]
=============================================================================
