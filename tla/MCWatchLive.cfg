SPECIFICATION WatchSpec
CONSTANTS
  Worker = {w1}
  Question = {q1}
  None = None
  Provider = "copilot"
  MaxCalls = 1
  CacheOn = TRUE
  NoCache = FALSE
  CacheFaults = {"write", "expire"}
  Sbom = {s1, s2}
  NoJob = NoJob
  Upload = TRUE
  SkipZero = TRUE
  Reassess = FALSE
  Once = FALSE
  Churn = {s2}
  MaxChanges = 1
  MaxFaults = 1
PROPERTIES
  PassEnds
  EventuallyCovered
  CancelStops
