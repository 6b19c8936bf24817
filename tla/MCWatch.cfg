SPECIFICATION WatchSpec
CONSTANTS
  Worker = {w1, w2}
  Question = {q1}
  None = None
  Provider = "copilot"
  MaxCalls = 1
  CacheOn = TRUE
  NoCache = FALSE
  CacheFaults = {"write", "expire"}
  Sbom = {s1, s2}
  NoJob = NoJob
  Upload = TRUE
  SkipZero = FALSE
  Reassess = TRUE
  Once = FALSE
  Churn = {}
  MaxChanges = 1
  MaxFaults = 1
SYMMETRY Symmetry
INVARIANTS
  WatchTypeOK
  ProcessedIsCovered
  OneRunPerSbom
PROPERTIES
  ImplementsCoverage
