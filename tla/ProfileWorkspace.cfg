\* Four launches, each of which may fail or be killed at any file operation, and a
\* client that saves two settings.
SPECIFICATION Spec
CONSTANTS
  Settings = {k1, k2}
  MaxRuns = 4
INVARIANTS
  SettingsRecoverable
  CompletedRunIsWhole
  CandidateRollbackRestores
PROPERTY CandidateKeepsApplied
SYMMETRY Permute
CHECK_DEADLOCK FALSE
