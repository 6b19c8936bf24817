SPECIFICATION AuditSpec
CONSTANTS
  Worker = {w1, w2}
  Question = {q1, q2}
  None = None
  Provider = "openai"
  MaxCalls = 2
  CacheOn = TRUE
  NoCache = FALSE
  CacheFaults = {}
INVARIANT
  NeverAskedTwice
