\* One rotation, and stops of the adapter, with two refreshes of the publisher and
\* two of the widget overlapping.
SPECIFICATION FairSpec
CONSTANTS
  Ticks = {i1, i2}
  Polls = {p1}
  Clicks = {c1}
  StaleAfter = 0
  Deadline = 1
  MaxAccount = 2
  MaxTime = 2
CHECK_DEADLOCK FALSE

  
PROPERTIES
  OldAccountLeavesScreen
  DeadAdapterIsSeen
  RefreshEnds
