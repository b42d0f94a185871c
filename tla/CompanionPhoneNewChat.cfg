\* A new chat opened while a resume of the old one is still being fetched.
SPECIFICATION PhoneSpec
CONSTANTS
  Sessions = {s1, s2}
  Turns = {t1}
  None = None
  MaxSessions = 2
  MaxEvents = 3
  MaxHistory = 2
  MaxDeltas = 1
  Pipelining = FALSE
  Fetches = {f1, f2}
  MaxOutages = 0
  MaxRequests = 2
  ResumesCross = TRUE
INVARIANT NewChatShowsNoOther
CHECK_DEADLOCK FALSE
