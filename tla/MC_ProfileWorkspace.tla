------------------------ MODULE MC_ProfileWorkspace ------------------------
(* Instances of the profile workspace for TLC. *)
EXTENDS ProfileWorkspace, TLC

Permute == Permutations(Settings)
=============================================================================
