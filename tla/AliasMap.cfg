\* Three models whose first aliases collide, and any number of restarts.
SPECIFICATION Spec
CONSTANTS
  m1 = m1
  m2 = m2
  m3 = m3
  a1 = a1
  a2 = a2
  a3 = a3
  a4 = a4
  a5 = a5
  a6 = a6
  Models = {m1, m2, m3}
  Aliases = {a1, a2, a3, a4, a5, a6}
  MaxNonce = 2
  Derive <- Derived
  Denied = {a3}
  Nothing = nothing
INVARIANTS
  AliasesAreExact
  AliasKeepsMeaning
