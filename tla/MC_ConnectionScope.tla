------------------------ MODULE MC_ConnectionScope ------------------------
(* Instances of the connection scope for TLC. *)
EXTENDS ConnectionScope
=============================================================================
