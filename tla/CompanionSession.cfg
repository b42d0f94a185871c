\* Three sessions for two places in the map and three messages, whose POSTs to a
\* session follow each other; the event log and the history both overflow.
SPECIFICATION Spec
CONSTANTS
  Sessions = {s1, s2, s3}
  Turns = {t1, t2, t3}
  None = None
  MaxSessions = 2
  MaxEvents = 6
  MaxHistory = 3
  MaxDeltas = 2
  Pipelining = FALSE
INVARIANTS
  BusyTellsTruth
  StopReachesStreams
  LogIsGapless
  AnswersEndOnce
  HistoryIsWhatWasShown
  SessionsBounded
PROPERTY KeepsConversation
SYMMETRY Permute
CHECK_DEADLOCK FALSE
