---------------------------- MODULE MCTransportTap ----------------------------
(* An instance of TransportTap for TLC. *)
EXTENDS TransportTap

CONSTANTS c1, c2, c3

MCCall == {c1, c2, c3}

\* The calls are all alike: they come in one order.
MCInOrder == IsPrefix(requested, <<c1, c2, c3>>)
=============================================================================
