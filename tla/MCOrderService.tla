--------------------------- MODULE MCOrderService ----------------------------
(* Small instances of OrderService for TLC. *)
EXTENDS OrderService
==============================================================================
