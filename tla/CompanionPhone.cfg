\* Two messages, or a message and a new chat, over a log that overflows: up to two
\* snapshots being fetched at once, one network failure, and the fairness of
\* requests, timers and delivery.
SPECIFICATION FairPhoneSpec
CONSTANTS
  Sessions = {s1, s2}
  Turns = {t1, t2}
  None = None
  MaxSessions = 2
  MaxEvents = 3
  MaxHistory = 2
  MaxDeltas = 0
  Pipelining = FALSE
  Fetches = {f1, f2}
  MaxOutages = 1
  MaxRequests = 2
  ResumesCross = FALSE
INVARIANTS
  PhoneTypeOK
  ScreenIsOneRun
  QuietPageIsCurrent
PROPERTY PageCatchesUp
CHECK_DEADLOCK FALSE
