--------------------------- MODULE MC_UsageWidget ---------------------------
(* Instances of the usage widget for TLC. *)
EXTENDS UsageWidget
=============================================================================
