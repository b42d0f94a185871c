----------------------------- MODULE MC_Launcher -----------------------------
(* Instances of the launcher for TLC. *)
EXTENDS Launcher
=============================================================================
