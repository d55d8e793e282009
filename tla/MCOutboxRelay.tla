---------------------------- MODULE MCOutboxRelay ----------------------------
(* Small instances of OutboxRelay for TLC: three rows, the first and the     *)
(* last of one order, so a batch of two can be cut inside an order.          *)
EXTENDS OutboxRelay

CONSTANTS a1, a2

MCAggregateOf == <<a1, a2, a1>>
==============================================================================
