\* A boolean control and efforts on translated routes, a budget on the native route; three probes,
\* two of them at a time, and any number of restarts.
SPECIFICATION Spec
CONSTANTS
  m1 = m1
  m2 = m2
  m3 = m3
  Controlled = {m1, m2, m3}
  Kind <- EveryKind
  Route <- EveryRoute
  Probers = {p1, p2}
  MaxProbes = 3
  Unset = unset
INVARIANTS
  NothingUnprovenIsSent
  ChosenEffortIsSent
SYMMETRY Permute
