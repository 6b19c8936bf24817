SPECIFICATION TriageSpec
CONSTANTS
  r1 = r1
  r2 = r2
  c = c
  Id = {r1, r2, c}
  Row = {r1, r2}
  AliasChoice <- SmallAliases
  Runner = {w1}
  Status = {"affected", "not_affected"}
  Option <- SmallOptions
  MaxNow = 2
INVARIANTS
  TriageTypeOK
  VerdictsSurviveMerging
  SignedVerdictsLeftAlone
  SettledVerdictsStay
  TwinsAssessedOnce
  DueRowsAreWorked
  ReportIsCurrent
PROPERTIES
  OverruledOnlyUnseen
