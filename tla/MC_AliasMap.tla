----------------------------- MODULE MC_AliasMap -----------------------------
(* An instance of AliasMap for TLC. *)
EXTENDS AliasMap, TLC

CONSTANTS m1, m2, m3, a1, a2, a3, a4, a5, a6

\* All three models derive a1 first; the second alias of m1 is denied, the second
\* of m3 is the second of m2.
Derived ==
  m1 :> (0 :> a1 @@ 1 :> a3 @@ 2 :> a2)
  @@ m2 :> (0 :> a1 @@ 1 :> a5 @@ 2 :> a4)
  @@ m3 :> (0 :> a1 @@ 1 :> a5 @@ 2 :> a6)
=============================================================================
