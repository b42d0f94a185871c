------------------------ MODULE MC_EffortConformance ------------------------
(* An instance of EffortConformance for TLC. *)
EXTENDS EffortConformance, TLC

CONSTANTS m1, m2, m3

EveryKind == m1 :> "boolean" @@ m2 :> "numeric_budget" @@ m3 :> "categorical"

EveryRoute == m1 :> "openai-chat" @@ m2 :> "anthropic" @@ m3 :> "openai-responses"

Permute == Permutations(Probers)
=============================================================================
