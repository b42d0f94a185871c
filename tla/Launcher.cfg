\* Two launches, two recoveries in a row, three ports of which another program
\* may take one, and two places for adapters.
SPECIFICATION FairSpec
CONSTANTS
  Slots = {s1, s2}
  None = None
  Ports = {1, 2, 3}
  MaxRestarts = 2
  MaxLaunches = 2
  MaxMissed = 1
  MaxTaken = 1
INVARIANTS
  NoStrayAdapter
  StopIsFinal
  ClientMeetsAdapter
PROPERTY ClientIsLookedAfter
CHECK_DEADLOCK FALSE
