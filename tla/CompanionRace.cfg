\* Two POSTs to one session whose bodies are being read at the same time.
SPECIFICATION Spec
CONSTANTS
  Sessions = {s1}
  Turns = {t1, t2}
  None = None
  MaxSessions = 1
  MaxEvents = 8
  MaxHistory = 4
  MaxDeltas = 1
  Pipelining = TRUE
INVARIANT OneStreamPerSession
CHECK_DEADLOCK FALSE
