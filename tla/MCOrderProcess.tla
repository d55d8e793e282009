--------------------------- MODULE MCOrderProcess ----------------------------
(* Small instances of OrderProcess for TLC. *)
EXTENDS OrderProcess
==============================================================================
