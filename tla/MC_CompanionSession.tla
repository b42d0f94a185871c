------------------------ MODULE MC_CompanionSession ------------------------
(* Instances of the companion server for TLC. *)
EXTENDS CompanionSession, TLC

Permute == Permutations(Sessions) \cup Permutations(Turns)
=============================================================================
