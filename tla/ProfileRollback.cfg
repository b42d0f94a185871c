\* A production run that fails and rolls back.
SPECIFICATION Spec
CONSTANTS
  Settings = {k1}
  MaxRuns = 2
INVARIANT ProductionRollbackRestores
CHECK_DEADLOCK FALSE
