SPECIFICATION WatchSpec
CONSTANTS
  Worker = {w1}
  Question = {q1, q2}
  None = None
  Provider = "copilot"
  MaxCalls = 1
  CacheOn = TRUE
  NoCache = FALSE
  CacheFaults = {}
  Sbom = {s1}
  NoJob = NoJob
  Upload = TRUE
  SkipZero = TRUE
  Reassess = FALSE
  Once = FALSE
  Churn = {s1}
  MaxChanges = 2
  MaxFaults = 0
PROPERTY
  EverySbomCovered
